------------------------------- MODULE Assembly -------------------------------
(***************************************************************************)
(* What an assembler promises, without passes: it stops once, with no      *)
(* output or with an output that is a correct layout of the program.       *)
(***************************************************************************)
EXTENDS PasmProgram

VARIABLES program, finished, output   \* output: << >> or one record

\* Calls and returns share one register: that of a .setcallreg, or the default,
\* which is the one .ret is written for.
CallReg(p, r) ==
  /\ \/ \E i \in 1 .. Len(p) : p[i].op = "setcall" /\ p[i].e.add = r
     \/ (\A i \in 1 .. Len(p) : p[i].op # "setcall") /\ r = DefaultReg
  /\ (\E i \in 1 .. Len(p) : p[i].op = "dotret") => r = DefaultReg

\* Offsets follow from the statements, and each label stands at its own.
LayoutOK(p, o) ==
  /\ o.loc[1] = NoOffset
  /\ \A i \in 1 .. Len(p) :
       /\ o.loc[i + 1] = After(p[i], o.loc[i], o.labels)
       /\ p[i].op = "label" => o.labels[p[i].e.sym] = Ready(o.loc[i])
  /\ o.size = o.loc[Len(p) + 1]

\* Each word of each statement is where the layout puts it; the rest is zero.
Covers(p, o, i, a) ==
  /\ p[i].op \in EmitOps
  /\ a \in Ready(o.loc[i]) .. Ready(o.loc[i]) + Size(p[i], o.labels) - 1

WordsOK(p, o, r) ==
  \A a \in 0 .. MAX_PROGRAM - 1 : a < o.size =>
    \/ \E i \in 1 .. Len(p) :
         /\ Covers(p, o, i, a)
         /\ LET base == Ready(o.loc[i]) IN
              o.image[a] = WordsOf(p[i], base, o.labels, r)[a - base + 1]
    \/ /\ \A i \in 1 .. Len(p) : ~Covers(p, o, i, a)
       /\ o.image[a] = Zero

\* The entry point: .entrypoint, else the first origin, given or default.
EntryOK(p, o) ==
  IF \E i \in 1 .. Len(p) : p[i].op = "entry"
  THEN \E i \in 1 .. Len(p) : p[i].op = "entry" /\ o.entry = Value(p[i].e, o.labels)
  ELSE \E i \in 1 .. Len(p) :
         /\ o.loc[i] = NoOffset /\ o.loc[i + 1] # NoOffset
         /\ o.entry = IF p[i].op = "origin" THEN o.loc[i + 1] ELSE DefaultOrigin

\* Only a program that ends in .origin can be larger than the image.
EndsInCode(p) ==
  \A i \in 1 .. Len(p) : p[i].op = "origin" =>
    \E j \in i + 1 .. Len(p) : p[j].op \in EmitOps \union {"label"}

Correct(p, o) ==
  /\ LayoutOK(p, o)
  /\ \E r \in {p[i].e.add : i \in 1 .. Len(p)} \union {DefaultReg} :
       CallReg(p, r) /\ WordsOK(p, o, r)
  /\ EntryOK(p, o)
  /\ EndsInCode(p) => o.size <= MAX_PROGRAM

Init == finished = FALSE /\ output = << >>

Finish ==
  /\ ~finished /\ finished' = TRUE /\ UNCHANGED program
  /\ \/ output' = << >>
     \/ /\ Len(output') = 1
        /\ Regular(program) => Correct(program, output'[1])

Spec == Init /\ [][Finish]_<<program, finished, output>>
=============================================================================
