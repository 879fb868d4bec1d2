--------------------------- MODULE PasmMacro_proofs ---------------------------
(***************************************************************************)
(* Macros are in use exactly while they are defined or expanded, or after  *)
(* their definition was given up, and the labels of an expansion are its   *)
(* own and the same in both passes, for every set of programs and every    *)
(* limit.                                                                  *)
(***************************************************************************)
EXTENDS PasmMacro, SequenceTheorems, TLAPS

\* A definition keeps no directive.
Kept == {s \in Stmt : s.op \in {"code", "call"}}

MacroRec == [inUse : BOOLEAN, id : Nat, args : Nat, required : Nat,
             labels : Seq(LabelNames), lines : Seq(Kept), expands : Nat]

Frame == [m : MacroNames, line : Nat \ {0}, call : Nat]

\* A file that is waiting for one it includes.
Includer == [last : Nat, def : MacroNames \union {None}]

\* Files end within the text; the outermost one is all of it.
FileType ==
  /\ pos \in Nat \ {0} /\ last \in Nat /\ last <= Len(program) /\ outer \in Seq(Includer)
  /\ \A i \in DOMAIN outer : outer[i].last <= Len(program)
  /\ IF outer = <<>> THEN last = Len(program) ELSE outer[1].last = Len(program)

MacroType ==
  /\ program \in Seq(Stmt) /\ FileType /\ MacroId \in Nat /\ calls \in Nat
  /\ DOMAIN macros \subseteq MacroNames /\ macros \in [DOMAIN macros -> MacroRec]
  /\ stack \in Seq(Frame)
  /\ defining \in DOMAIN macros \union {None}

\* The call stack names existing macros, each once, and is empty while a file
\* is in a definition.  The macros being expanded, those being defined in this file or
\* in one that includes it, and those that were given up are apart, and have the marks.
Active == {stack[i].m : i \in DOMAIN stack}

Marked(n) == n \in Open \/ n \in unended \/ n \in Active

UsedInv ==
  /\ MacroType
  /\ stack # <<>> => defining = None
  /\ Active \subseteq DOMAIN macros
  /\ Open \subseteq DOMAIN macros
  /\ unended \subseteq DOMAIN macros
  /\ \A i, j \in DOMAIN stack : i # j => stack[i].m # stack[j].m
  /\ \A i, j \in DOMAIN outer : i # j => outer[i].def = None \/ outer[i].def # outer[j].def
  /\ \A i \in DOMAIN outer : outer[i].def = None \/ outer[i].def # defining
  /\ \A n \in Active : n \notin Open /\ n \notin unended
  /\ \A n \in Open : n \notin unended
  /\ \A n \in DOMAIN macros : macros[n].inUse <=> Marked(n)

LEMMA NoneIsNoName == None \notin MacroNames
BY MacroAssumption

LEMMA UsedInit == Init => UsedInv
<1> SUFFICES ASSUME Init PROVE UsedInv
  OBVIOUS
<1>1. DOMAIN macros = {} /\ stack = <<>> /\ DOMAIN stack = {} /\ outer = <<>> /\ DOMAIN outer = {}
  BY DEF Init, NoMacros
<1>2. program \in Seq(Stmt)
  BY MacroAssumption DEF Init
<1>3. macros \in [DOMAIN macros -> MacroRec]
  BY DEF Init, NoMacros
<1>4. FileType
  BY <1>1, <1>2 DEF Init, FileType
<1>5. Active = {} /\ Open = {}
  BY <1>1 DEF Init, Active, Open
<1> QED BY <1>1, <1>2, <1>3, <1>4, <1>5 DEF Init, UsedInv, MacroType

\* The innermost expansion is of an existing macro.
LEMMA TopType ==
  ASSUME UsedInv, Expanding
  PROVE  Top \in Frame /\ Top.m \in DOMAIN macros /\ Top.m \in Active /\ Len(stack) \in DOMAIN stack
BY DEF Expanding, Top, UsedInv, MacroType, Active

\* A line of the file is a statement of the program.
LEMMA LineType ==
  ASSUME UsedInv, pos <= last
  PROVE  program[pos] \in Stmt
<1>1. pos \in 1 .. Len(program) /\ program \in Seq(Stmt)
  BY DEF UsedInv, MacroType, FileType
<1> QED BY <1>1

\* The line at hand is a statement; in an expansion it is one that was kept.
LEMMA CurType ==
  ASSUME UsedInv, Ready
  PROVE  Cur \in Stmt /\ (Expanding => Cur \in Kept)
<1>1. CASE Expanding
  <2>1. Top \in Frame /\ Top.m \in DOMAIN macros
    BY <1>1, TopType
  <2>2. macros[Top.m].lines \in Seq(Kept)
    BY <2>1 DEF UsedInv, MacroType, MacroRec
  <2>3. Top.line \in Nat \ {0} /\ Top.line <= Len(macros[Top.m].lines)
    BY <1>1, <2>1 DEF Ready, MacroOf, Frame
  <2>4. macros[Top.m].lines[Top.line] \in Kept
    BY <2>2, <2>3
  <2> QED BY <1>1, <2>4 DEF Cur, MacroOf, Kept
<1>2. CASE ~Expanding
  BY <1>2, LineType DEF Ready, Cur
<1> QED BY <1>1, <1>2

\* The next line of the same file, after an error too.
LEMMA FileKeeps ==
  ASSUME FileType, UNCHANGED <<program, file>>,
         NextPos \/ PosAfterError \/ pos' = pos \/ pos' = last + 1
  PROVE  FileType'
<1>1. last' = last /\ outer' = outer /\ program' = program
  BY DEF file
<1>2. pos' \in Nat \ {0}
  BY DEF FileType, NextPos, PosAfterError
<1> QED BY <1>1, <1>2 DEF FileType

\* Going on to the next line leaves the calls as they are.
LEMMA AdvanceType ==
  ASSUME UsedInv, Advance
  PROVE  /\ stack' \in Seq(Frame) /\ DOMAIN stack' = DOMAIN stack
         /\ \A i \in DOMAIN stack : stack'[i].m = stack[i].m
         /\ (stack' = <<>>) <=> (stack = <<>>)
         /\ Active' = Active
         /\ NextPos \/ pos' = pos
<1>1. CASE Expanding
  <2>1. stack' = [stack EXCEPT ![Len(stack)].line = @ + 1] /\ pos' = pos
    BY <1>1 DEF Advance
  <2>2. stack \in Seq(Frame) /\ Len(stack) \in DOMAIN stack
    BY <1>1, TopType DEF UsedInv, MacroType
  <2> DEFINE f == [stack[Len(stack)] EXCEPT !.line = @ + 1]
  <2> DEFINE top == stack[Len(stack)]
  <2>a. top \in Frame
    BY <2>2
  <2>3. f \in Frame /\ f.m = top.m
    BY <2>a DEF Frame
  <2>4. stack' = [stack EXCEPT ![Len(stack)] = f]
    BY <2>1
  <2> HIDE DEF f
  <2>5. /\ stack' \in Seq(Frame) /\ DOMAIN stack' = DOMAIN stack
        /\ \A i \in DOMAIN stack : stack'[i].m = stack[i].m
    BY <2>2, <2>3, <2>4
  <2> QED BY <1>1, <2>1, <2>2, <2>5 DEF Expanding, Active
<1>2. CASE ~Expanding
  BY <1>2 DEF Advance, Expanding, Active, UsedInv, MacroType
<1> QED BY <1>1, <1>2

\* A line that is accepted and changes no macro.
LEMMA DoneKeeps ==
  ASSUME UsedInv, LineDone, UNCHANGED <<macros, MacroId, defining, unended, calls>>
  PROVE  UsedInv'
<1>1. Advance /\ UNCHANGED <<program, file>> /\ outer' = outer
  BY DEF LineDone, file
<1>2. FileType'
  BY <1>1, AdvanceType, FileKeeps DEF UsedInv, MacroType
<1>3. Open' = Open
  BY <1>1 DEF Open
<1> QED BY <1>1, <1>2, <1>3, AdvanceType DEF UsedInv, MacroType, Marked

\* A line that fails frees the macros of every call it is part of.
LEMMA FailsKeeps ==
  ASSUME UsedInv, Ready, LineFails, UNCHANGED <<MacroId, defining, unended, calls>>
  PROVE  UsedInv'
<1>1. /\ stack' = <<>> /\ macros' = Release /\ UNCHANGED <<program, file>> /\ outer' = outer
      /\ defining = None /\ defining' = None /\ PosAfterError
  BY DEF LineFails, Ready, file
<1>2. FileType'
  BY <1>1, FileKeeps DEF UsedInv, MacroType
<1>3. DOMAIN macros' = DOMAIN macros
  BY <1>1 DEF Release
<1>4. \A n \in DOMAIN macros : /\ macros'[n] \in MacroRec
                               /\ macros'[n].inUse = (macros[n].inUse /\ n \notin Active)
  BY <1>1 DEF Release, Active, UsedInv, MacroType, MacroRec
<1>5. Open' = Open
  BY <1>1 DEF Open
<1>6. macros' \in [DOMAIN macros' -> MacroRec]
  BY <1>1, <1>3, <1>4 DEF Release
<1>7. Active' = {} /\ stack' \in Seq(Frame) /\ DOMAIN stack' = {}
  BY <1>1 DEF Active
<1>8. \A n \in DOMAIN macros' : macros'[n].inUse <=> Marked(n)'
  BY <1>3, <1>4, <1>5, <1>7 DEF UsedInv, Marked
<1> QED BY <1>1, <1>2, <1>3, <1>5, <1>6, <1>7, <1>8 DEF UsedInv, MacroType

\* A line of a definition leaves a macro a macro; only .endm frees it.
LEMMA AbsorbType ==
  ASSUME NEW m \in MacroRec, NEW line \in Stmt, line.op \notin {"bad", "include", "long"}
  PROVE  LET r == Absorb(AddLabel(m, line.lab).m, line).m
         IN  r \in MacroRec /\ r.inUse = (m.inUse /\ line.op # "endm")
<1> DEFINE l == AddLabel(m, line.lab).m
           r == Absorb(l, line).m
<1>1. line.lab # None => line.lab \in LabelNames
  BY DEF Stmt
<1>2. l \in MacroRec /\ l.inUse = m.inUse
  <2>1. CASE line.lab = None
    BY <2>1 DEF AddLabel
  <2>2. CASE line.lab # None
    <3>1. Append(m.labels, line.lab) \in Seq(LabelNames)
      BY <1>1, <2>2 DEF MacroRec
    <3>2. /\ [m EXCEPT !.labels = Append(m.labels, line.lab)] \in MacroRec
          /\ [m EXCEPT !.labels = Append(m.labels, line.lab)].inUse = m.inUse
      BY <3>1 DEF MacroRec
    <3>3. l = m \/ l = [m EXCEPT !.labels = Append(m.labels, line.lab)]
      BY <2>2 DEF AddLabel
    <3> QED BY <3>2, <3>3
  <2> QED BY <2>1, <2>2
<1> HIDE DEF l
<1>3. r \in MacroRec /\ r.inUse = (l.inUse /\ line.op # "endm")
  <2>3. CASE line.op \in {"code", "call"}
    <3>1. r = l \/ r = [l EXCEPT !.lines = Append(l.lines, line)]
      BY <2>3 DEF Absorb, AddLine
    <3>2. line \in Kept
      BY <2>3 DEF Kept
    <3>3. Append(l.lines, line) \in Seq(Kept)
      BY <1>2, <3>2 DEF MacroRec
    <3>4. r \in MacroRec /\ r.inUse = l.inUse
      BY <1>2, <3>1, <3>3 DEF MacroRec
    <3>5. l.inUse \in BOOLEAN
      BY <1>2 DEF MacroRec
    <3> HIDE DEF r
    <3> QED BY <1>2, <2>3, <3>4, <3>5
  <2>4. CASE line.op \in {"param", "option"}
    <3>1. \/ r = l
          \/ r = [l EXCEPT !.args = l.args + 1, !.required = l.required + 1]
          \/ r = [l EXCEPT !.args = l.args + 1, !.required = l.required]
      BY <2>4 DEF Absorb, AddArg
    <3>2. l.args + 1 \in Nat /\ l.required \in Nat /\ l.required + 1 \in Nat
      BY <1>2 DEF MacroRec
    <3>3. r \in MacroRec /\ r.inUse = l.inUse
      BY <1>2, <3>1, <3>2 DEF MacroRec
    <3>5. l.inUse \in BOOLEAN
      BY <1>2 DEF MacroRec
    <3> HIDE DEF r
    <3> QED BY <1>2, <2>4, <3>3, <3>5
  <2>5. CASE line.op = "macro" \/ line.op = "dot"
    <3>1. r = l
      BY <2>5 DEF Absorb
    <3>5. l.inUse \in BOOLEAN
      BY <1>2 DEF MacroRec
    <3> HIDE DEF r
    <3> QED BY <1>2, <2>5, <3>1, <3>5
  <2>6. CASE line.op = "endm"
    <3>1. r = [l EXCEPT !.inUse = FALSE]
      BY <2>6 DEF Absorb
    <3>2. r \in MacroRec /\ r.inUse = FALSE
      BY <1>2, <3>1 DEF MacroRec
    <3> QED BY <2>6, <3>2
  <2>7. line.op \in {"code", "call", "param", "option", "macro", "dot", "endm"}
    BY DEF Stmt
  <2> QED BY <2>3, <2>4, <2>5, <2>6, <2>7
<1> QED BY <1>2, <1>3 DEF l

\* A macro that is called is a macro in use.
LEMMA CalledType ==
  ASSUME NEW m \in MacroRec
  PROVE  LET r == [m EXCEPT !.expands = @ + 1, !.inUse = TRUE]
         IN  r \in MacroRec /\ r.inUse = TRUE
<1>1. m.expands + 1 \in Nat
  BY DEF MacroRec
<1>2. [m EXCEPT !.expands = m.expands + 1] \in MacroRec
  BY <1>1 DEF MacroRec
<1>3. \A k \in MacroRec : [k EXCEPT !.inUse = TRUE] \in MacroRec /\ [k EXCEPT !.inUse = TRUE].inUse = TRUE
  BY DEF MacroRec
<1>4. [m EXCEPT !.expands = @ + 1, !.inUse = TRUE]
        = [[m EXCEPT !.expands = m.expands + 1] EXCEPT !.inUse = TRUE]
  OBVIOUS
<1> QED BY <1>2, <1>3, <1>4

\* The call that Call begins is of a macro that is not active, so it is in the
\* stack once.
LEMMA CallKeeps ==
  ASSUME UsedInv, Ready, Call, Callable(Cur.n, Cur.k)
  PROVE  UsedInv'
<1> DEFINE n == Cur.n
           f == [m |-> n, line |-> 1, call |-> calls + 1]
<1>1. /\ macros' = [macros EXCEPT ![n].expands = @ + 1, ![n].inUse = TRUE]
      /\ stack' = Append(stack, f) /\ calls' = calls + 1
      /\ UNCHANGED <<program, pos, file, MacroId, defining, unended>> /\ defining = None
      /\ outer' = outer
  BY DEF Call, Ready, file
<1>2. n \in DOMAIN macros /\ ~macros[n].inUse /\ n \in MacroNames
  BY DEF Callable, UsedInv, MacroType
<1>3. f \in Frame /\ f.m = n
  BY <1>2 DEF Frame, UsedInv, MacroType
<1> DEFINE r == [macros[n] EXCEPT !.expands = @ + 1, !.inUse = TRUE]
<1> HIDE DEF n, f
<1>a. macros[n] \in MacroRec /\ macros[n].expands \in Nat
  BY <1>2 DEF UsedInv, MacroType, MacroRec
<1>4. r \in MacroRec /\ r.inUse = TRUE
  BY <1>a, CalledType
<1>5. macros' = [macros EXCEPT ![n] = r]
  BY <1>1, <1>2
<1> HIDE DEF r
<1>6. /\ stack' \in Seq(Frame) /\ DOMAIN stack' = 1 .. Len(stack) + 1 /\ DOMAIN stack = 1 .. Len(stack)
      /\ \A i \in DOMAIN stack : stack'[i] = stack[i]
      /\ stack'[Len(stack) + 1] = f /\ stack' # <<>> /\ Len(stack) \in Nat
  BY <1>1, <1>3 DEF UsedInv, MacroType
<1>7. Active' = Active \union {n}
  BY <1>3, <1>6 DEF Active
<1>8. n \notin Active /\ n \notin Open /\ n \notin unended
  BY <1>2 DEF UsedInv, Marked
<1>9. \A i, j \in DOMAIN stack' : i # j => stack'[i].m # stack'[j].m
  BY <1>3, <1>6, <1>8 DEF UsedInv, Active
<1>10. /\ DOMAIN macros' = DOMAIN macros /\ macros' \in [DOMAIN macros -> MacroRec]
       /\ \A k \in DOMAIN macros : macros'[k].inUse <=> (macros[k].inUse \/ k = n)
  BY <1>2, <1>4, <1>5 DEF UsedInv, MacroType
<1>11. Open' = Open
  BY <1>1 DEF Open
<1>12. FileType'
  BY <1>1, FileKeeps DEF UsedInv, MacroType
<1>13. MacroType'
  BY <1>1, <1>6, <1>10, <1>12 DEF UsedInv, MacroType
<1>14. \A k \in DOMAIN macros' : macros'[k].inUse <=> Marked(k)'
  BY <1>1, <1>7, <1>10, <1>11 DEF UsedInv, Marked
<1> QED BY <1>1, <1>2, <1>7, <1>8, <1>9, <1>10, <1>11, <1>13, <1>14 DEF UsedInv

\* The innermost call ends, and with it the only use of its macro.
LEMMA ReturnKeeps ==
  ASSUME UsedInv, Return
  PROVE  UsedInv'
<1> DEFINE n == Top.m
           r == [macros[n] EXCEPT !.inUse = FALSE]
<1>1. /\ Expanding /\ macros' = [macros EXCEPT ![n] = r]
      /\ UNCHANGED <<program, file, MacroId, defining, unended, calls>> /\ outer' = outer
  BY DEF Return, file
<1>2. /\ n \in DOMAIN macros /\ Len(stack) \in Nat \ {0} /\ DOMAIN stack = 1 .. Len(stack)
      /\ stack[Len(stack)].m = n /\ stack \in Seq(Frame) /\ defining = None
      /\ n \in Active
  BY <1>1, TopType DEF UsedInv, MacroType, Expanding, Top
<1>3. r \in MacroRec /\ r.inUse = FALSE
  BY <1>2 DEF UsedInv, MacroType, MacroRec
<1> HIDE DEF n, r
<1>4. /\ DOMAIN macros' = DOMAIN macros /\ macros' \in [DOMAIN macros -> MacroRec]
      /\ \A k \in DOMAIN macros : macros'[k].inUse <=> (macros[k].inUse /\ k # n)
  BY <1>1, <1>2, <1>3 DEF UsedInv, MacroType
<1>5. /\ NextPos \/ pos' = pos
      /\ stack' \in Seq(Frame) /\ DOMAIN stack' = 1 .. Len(stack) - 1
      /\ \A i \in 1 .. Len(stack) - 1 : stack'[i].m = stack[i].m
  <2>1. CASE Len(stack) = 1
    <3>1. stack' = <<>> /\ NextPos
      BY <2>1 DEF Return
    <3> QED BY <1>2, <2>1, <3>1
  <2>2. CASE Len(stack) # 1
    <3> DEFINE g == Front(stack)
               k == Len(stack) - 1
               f == [g[k] EXCEPT !.line = @ + 1]
    <3>1. stack' = [g EXCEPT ![k] = f] /\ pos' = pos
      BY <2>2 DEF Return
    <3>2. k \in 1 .. k /\ g \in Seq(Frame) /\ Len(g) = k /\ \A i \in 1 .. k : g[i] = stack[i]
      BY <1>2, <2>2 DEF Front
    <3> HIDE DEF g
    <3>a. g[k] \in Frame
      BY <3>2
    <3>3. f \in Frame /\ f.m = g[k].m
      BY <3>a DEF Frame
    <3> HIDE DEF f
    <3>4. /\ stack' \in Seq(Frame) /\ DOMAIN stack' = 1 .. k
          /\ \A i \in 1 .. k : stack'[i].m = stack[i].m
      BY <3>1, <3>2, <3>3
    <3> QED BY <3>1, <3>4
  <2> QED BY <2>1, <2>2
<1>6. Active' = Active \ {n}
  BY <1>2, <1>5 DEF Active, UsedInv
<1>7. \A i, j \in DOMAIN stack' : i # j => stack'[i].m # stack'[j].m
  BY <1>2, <1>5 DEF UsedInv
<1>8. defining' = None /\ Open' = Open
  BY <1>1, <1>2 DEF Open
<1>9. FileType'
  BY <1>1, <1>5, FileKeeps DEF UsedInv, MacroType
<1>10. MacroType'
  BY <1>1, <1>4, <1>5, <1>9 DEF UsedInv, MacroType
<1>11. \A k \in DOMAIN macros' : macros'[k].inUse <=> Marked(k)'
  BY <1>1, <1>2, <1>4, <1>6, <1>8 DEF UsedInv, Marked
<1> QED BY <1>1, <1>4, <1>6, <1>7, <1>8, <1>10, <1>11 DEF UsedInv

\* A new macro is in use until its .endm; a definition never begins inside an
\* expansion, because no directive is kept.
LEMMA EnterKeeps ==
  ASSUME UsedInv, Ready, MacroEnter, Cur.n \notin DOMAIN macros
  PROVE  UsedInv'
<1> DEFINE n == Cur.n
<1>1. Cur \in Stmt /\ Cur.op = "macro" /\ ~Expanding /\ stack = <<>> /\ defining = None
  BY CurType DEF MacroEnter, Kept, Ready, Expanding
<1>2. /\ macros' = [k \in DOMAIN macros \union {n} |-> IF k = n THEN NewMacro ELSE macros[k]]
      /\ MacroId' = MacroId + 1 /\ defining' = n /\ Advance
      /\ UNCHANGED <<program, file, unended, calls>> /\ outer' = outer
  BY DEF MacroEnter, LineDone, file
<1>3. n \in MacroNames /\ n # None /\ n \notin DOMAIN macros
  BY <1>1 DEF Stmt
<1> HIDE DEF n
<1>4. NewMacro \in MacroRec /\ NewMacro.inUse = TRUE
  BY DEF NewMacro, MacroRec, UsedInv, MacroType
<1>5. /\ DOMAIN macros' = DOMAIN macros \union {n}
      /\ \A k \in DOMAIN macros' : macros'[k] = IF k = n THEN NewMacro ELSE macros[k]
  BY <1>2
<1>6. macros' \in [DOMAIN macros' -> MacroRec]
  BY <1>2, <1>4, <1>5 DEF UsedInv, MacroType
<1>7. stack' = <<>> /\ Active' = {} /\ stack' \in Seq(Frame) /\ DOMAIN stack' = {}
  BY <1>1, <1>2, AdvanceType DEF Active
<1>8. Active = {} /\ Open' = Open \union {n}
  BY <1>1, <1>2, <1>3 DEF Active, Open
<1>9. \A k \in DOMAIN macros' : macros'[k].inUse <=> Marked(k)'
  BY <1>2, <1>3, <1>4, <1>5, <1>7, <1>8 DEF UsedInv, Marked
<1>10. FileType'
  BY <1>2, AdvanceType, FileKeeps DEF UsedInv, MacroType
<1>11. /\ DOMAIN macros' \subseteq MacroNames /\ MacroId' \in Nat /\ calls' \in Nat
       /\ program' \in Seq(Stmt) /\ defining' \in DOMAIN macros'
  BY <1>2, <1>3, <1>5 DEF UsedInv, MacroType
<1>12. MacroType'
  BY <1>6, <1>7, <1>10, <1>11 DEF MacroType
<1>13. \A i \in DOMAIN outer : outer[i].def = None \/ outer[i].def \in DOMAIN macros
  BY DEF UsedInv, Open
<1> QED BY <1>2, <1>3, <1>5, <1>7, <1>8, <1>9, <1>12, <1>13 DEF UsedInv

\* One line of a definition; at .endm the macro is free.
LEMMA LineKeeps ==
  ASSUME UsedInv, MacroLine
  PROVE  UsedInv'
<1> DEFINE line == program[pos]
           l == AddLabel(macros[defining], line.lab)
           r == Absorb(l.m, line).m
<1>1. /\ defining # None /\ pos <= last /\ NextPos /\ outer' = outer
      /\ UNCHANGED <<program, file, MacroId, stack, unended, calls>>
      /\ line.op \notin {"include", "long"}
  BY DEF MacroLine, HasLine, file
<1>2. line \in Stmt /\ FileType'
  BY <1>1, LineType, FileKeeps DEF UsedInv, MacroType
<1>3. /\ defining \in DOMAIN macros /\ macros[defining] \in MacroRec /\ stack = <<>>
      /\ Active = {} /\ Active' = {} /\ stack' = <<>>
  BY <1>1 DEF UsedInv, MacroType, Active
<1>4. CASE line.op = "bad"
  <2>1. UNCHANGED <<macros, defining>>
    BY <1>4 DEF MacroLine
  <2>2. Open' = Open
    BY <1>1, <2>1 DEF Open
  <2> QED BY <1>1, <1>2, <1>3, <2>1, <2>2 DEF UsedInv, MacroType, Marked
<1>5. CASE line.op # "bad"
  <2>1. macros' = [macros EXCEPT ![defining] = r] /\ defining' = IF line.op = "endm" THEN None ELSE defining
    BY <1>5 DEF MacroLine, MacroOf
  <2>2. r \in MacroRec /\ r.inUse = (macros[defining].inUse /\ line.op # "endm")
    BY <1>1, <1>2, <1>3, <1>5, AbsorbType
  <2>3. defining \in Open /\ macros[defining].inUse
    BY <1>1, <1>3 DEF UsedInv, Open, Marked
  <2> HIDE DEF r
  <2>4. /\ DOMAIN macros' = DOMAIN macros /\ macros' \in [DOMAIN macros -> MacroRec]
        /\ \A k \in DOMAIN macros : macros'[k] = IF k = defining THEN r ELSE macros[k]
    BY <1>3, <2>1, <2>2 DEF UsedInv, MacroType
  <2>5. Open' = IF line.op = "endm" THEN Open \ {defining} ELSE Open
    BY <1>1, <2>1 DEF Open, UsedInv
  <2>6. \A k \in DOMAIN macros' : macros'[k].inUse <=> Marked(k)'
    BY <1>1, <1>3, <2>2, <2>3, <2>4, <2>5 DEF UsedInv, Marked
  <2>7. MacroType'
    BY <1>1, <1>2, <1>3, <2>1, <2>4 DEF UsedInv, MacroType
  <2>8. \A i \in DOMAIN outer' : outer'[i].def = None \/ outer'[i].def # defining'
    BY <1>1, <2>1 DEF UsedInv
  <2> QED BY <1>1, <1>3, <2>4, <2>5, <2>6, <2>7, <2>8 DEF UsedInv
<1> QED BY <1>4, <1>5

\* A definition that is given up leaves its mark.
LEMMA GivenUpKeeps ==
  ASSUME UsedInv, DefinitionFails
  PROVE  UsedInv'
<1>1. /\ defining # None /\ defining' = None /\ unended' = unended \union {defining}
      /\ UNCHANGED <<program, file, macros, MacroId, stack, calls>> /\ outer' = outer
      /\ PosAfterError
  BY DEF DefinitionFails, Abandon, file
<1>2. FileType'
  BY <1>1, FileKeeps DEF UsedInv, MacroType
<1>3. stack = <<>> /\ Active = {} /\ Active' = {} /\ defining \in DOMAIN macros
  BY <1>1 DEF UsedInv, MacroType, Active
<1>4. Open' = Open \ {defining} /\ defining \in Open
  BY <1>1 DEF Open, UsedInv
<1>5. \A k \in DOMAIN macros' : macros'[k].inUse <=> Marked(k)'
  BY <1>1, <1>3, <1>4 DEF UsedInv, Marked
<1>6. MacroType'
  BY <1>1, <1>2 DEF UsedInv, MacroType
<1> QED BY <1>1, <1>3, <1>4, <1>5, <1>6 DEF UsedInv

\* The definitions under way wait for the file that is included.
LEMMA IncludeKeeps ==
  ASSUME UsedInv, Include
  PROVE  UsedInv'
<1> DEFINE f == [last |-> last, def |-> defining]
<1>1. /\ stack = <<>> /\ stack' = <<>> /\ pos <= last /\ outer' = Append(outer, f)
      /\ defining' = None /\ pos' = pos + 1
      /\ last' = IF pos + program[pos].k < last THEN pos + program[pos].k ELSE last
      /\ UNCHANGED <<program, macros, MacroId, unended, calls>>
  BY DEF Include, HasLine, NextPos
<1>2. program[pos] \in Stmt
  BY <1>1, LineType
<1>3. program[pos].k \in Nat
  BY <1>2 DEF Stmt
<1>4. f \in Includer /\ f.last = last /\ f.def = defining
  BY DEF Includer, UsedInv, MacroType, FileType
<1> HIDE DEF f
<1>5. /\ outer' \in Seq(Includer) /\ DOMAIN outer' = 1 .. Len(outer) + 1 /\ outer' # <<>>
      /\ DOMAIN outer = 1 .. Len(outer) /\ Len(outer) \in Nat
      /\ outer'[Len(outer) + 1] = f /\ \A i \in DOMAIN outer : outer'[i] = outer[i]
  BY <1>1, <1>4 DEF UsedInv, MacroType, FileType
<1>6. \A i \in DOMAIN outer' : i \in DOMAIN outer \/ (i = Len(outer) + 1 /\ outer'[i] = f)
  BY <1>5
<1>7. FileType'
  <2>1. pos' \in Nat \ {0} /\ last' \in Nat /\ last' <= Len(program')
    BY <1>1, <1>3 DEF UsedInv, MacroType, FileType
  <2>2. \A i \in DOMAIN outer' : outer'[i].last <= Len(program')
    BY <1>1, <1>4, <1>5, <1>6 DEF UsedInv, MacroType, FileType
  <2>3. outer'[1].last = Len(program')
    <3>1. CASE outer = <<>>
      BY <1>1, <1>4, <1>5, <3>1 DEF UsedInv, MacroType, FileType
    <3>2. CASE outer # <<>>
      <4>1. 1 \in DOMAIN outer
        BY <3>2 DEF UsedInv, MacroType, FileType
      <4> QED BY <1>1, <1>5, <3>2, <4>1 DEF UsedInv, MacroType, FileType
    <3> QED BY <3>1, <3>2
  <2> QED BY <1>5, <2>1, <2>2, <2>3 DEF FileType
<1>8. Open' = Open
  <2>1. {outer'[i].def : i \in DOMAIN outer'} = {outer[i].def : i \in DOMAIN outer} \union {defining}
    BY <1>4, <1>5, <1>6
  <2> QED BY <1>1, <2>1 DEF Open
<1>9. Active = {} /\ Active' = {}
  BY <1>1 DEF Active
<1>10. MacroType'
  BY <1>1, <1>7 DEF UsedInv, MacroType
<1>11. \A i, j \in DOMAIN outer' : i # j => outer'[i].def = None \/ outer'[i].def # outer'[j].def
  BY <1>4, <1>5, <1>6 DEF UsedInv
<1>12. \A i \in DOMAIN outer' : outer'[i].def = None \/ outer'[i].def # defining'
  BY <1>1
<1> QED BY <1>1, <1>8, <1>9, <1>10, <1>11, <1>12 DEF UsedInv, Marked

\* They go on when it is done.
LEMMA IncludedKeeps ==
  ASSUME UsedInv, IncludeEnds
  PROVE  UsedInv'
<1> DEFINE k == Len(outer)
<1>1. /\ stack = <<>> /\ stack' = <<>> /\ outer # <<>> /\ defining = None
      /\ pos' = last + 1 /\ last' = Last(outer).last /\ outer' = Front(outer)
      /\ defining' = Last(outer).def
      /\ UNCHANGED <<program, macros, MacroId, unended, calls>>
  BY DEF IncludeEnds, FileOver
<1>2. /\ outer \in Seq(Includer) /\ k \in Nat \ {0} /\ DOMAIN outer = 1 .. k
      /\ Last(outer) = outer[k] /\ outer[k] \in Includer
  BY <1>1 DEF UsedInv, MacroType, FileType, Last
<1>3. /\ outer' \in Seq(Includer) /\ DOMAIN outer' = 1 .. k - 1 /\ Len(outer') = k - 1
      /\ \A i \in 1 .. k - 1 : outer'[i] = outer[i]
  BY <1>1, <1>2 DEF Front
<1>4. FileType'
  <2>1. pos' \in Nat \ {0} /\ last' \in Nat /\ last' <= Len(program')
    BY <1>1, <1>2 DEF UsedInv, MacroType, FileType, Includer
  <2>2. \A i \in DOMAIN outer' : outer'[i].last <= Len(program')
    BY <1>1, <1>2, <1>3 DEF UsedInv, MacroType, FileType
  <2>3. IF outer' = <<>> THEN last' = Len(program') ELSE outer'[1].last = Len(program')
    <3>1. outer[1].last = Len(program)
      BY <1>1 DEF UsedInv, MacroType, FileType
    <3>2. CASE k = 1
      BY <1>1, <1>2, <1>3, <3>1, <3>2
    <3>3. CASE k # 1
      BY <1>1, <1>2, <1>3, <3>1, <3>3
    <3> QED BY <3>2, <3>3
  <2> QED BY <1>3, <2>1, <2>2, <2>3 DEF FileType
<1>5. {outer[i].def : i \in DOMAIN outer} = {outer'[i].def : i \in DOMAIN outer'} \union {outer[k].def}
  BY <1>2, <1>3
<1>6. Open' = Open
  BY <1>1, <1>2, <1>5 DEF Open
<1>7. Active = {} /\ Active' = {}
  BY <1>1 DEF Active
<1>8. defining' \in DOMAIN macros \union {None}
  BY <1>1, <1>2 DEF UsedInv, Open
<1>9. MacroType'
  BY <1>1, <1>4, <1>8 DEF UsedInv, MacroType
<1>10. \A i, j \in DOMAIN outer' : i # j => outer'[i].def = None \/ outer'[i].def # outer'[j].def
  BY <1>2, <1>3 DEF UsedInv
<1>11. \A i \in DOMAIN outer' : outer'[i].def = None \/ outer'[i].def # defining'
  BY <1>1, <1>2, <1>3 DEF UsedInv
<1> QED BY <1>1, <1>6, <1>7, <1>9, <1>10, <1>11 DEF UsedInv, Marked

\* A pass ends with no macros at all.
LEMMA EndKeeps ==
  ASSUME UsedInv, EndPass
  PROVE  UsedInv'
<1>1. /\ DOMAIN macros' = {} /\ MacroId' = 0 /\ stack' = <<>> /\ defining' = None
      /\ macros' \in [DOMAIN macros' -> MacroRec] /\ UNCHANGED <<program, file, calls>>
      /\ outer = <<>> /\ outer' = <<>> /\ unended' = {}
  BY DEF EndPass, FileOver, MacroCleanup, NoMacros, file
<1>2. FileType'
  BY <1>1 DEF EndPass, UsedInv, MacroType, FileType, file
<1>3. Active' = {} /\ stack' \in Seq(Frame) /\ DOMAIN stack' = {} /\ DOMAIN outer' = {}
  BY <1>1 DEF Active
<1>4. Open' = {}
  BY <1>1, <1>3 DEF Open
<1> QED BY <1>1, <1>2, <1>3, <1>4 DEF UsedInv, MacroType

LEMMA UsedNext == UsedInv /\ [Next]_vars => UsedInv'
<1> SUFFICES ASSUME UsedInv, [Next]_vars PROVE UsedInv'
  OBVIOUS
<1>1. CASE Code
  BY <1>1, DoneKeeps, FailsKeeps DEF Code
<1>2. CASE BadLine
  <2>1. UNCHANGED <<program, file, macros, MacroId, defining, stack, unended, calls>> /\ PosAfterError
    BY <1>2 DEF BadLine, mem
  <2>2. FileType' /\ outer' = outer
    BY <2>1, FileKeeps DEF UsedInv, MacroType, file
  <2> QED BY <2>1, <2>2 DEF UsedInv, MacroType, Active, Open, Marked
<1>3. CASE Outside
  BY <1>3, FailsKeeps DEF Outside
<1>4. CASE MacroEnter
  <2>1. CASE Cur.n \in DOMAIN macros
    BY <1>4, <2>1, FailsKeeps DEF MacroEnter
  <2> QED BY <1>4, <2>1, EnterKeeps DEF MacroEnter
<1>5. CASE MacroLine
  BY <1>5, LineKeeps
<1>6. CASE DefinitionFails
  BY <1>6, GivenUpKeeps
<1>7. CASE Call
  <2>1. CASE ~Callable(Cur.n, Cur.k)
    BY <1>7, <2>1, FailsKeeps DEF Call
  <2> QED BY <1>7, <2>1, CallKeeps DEF Call
<1>8. CASE Return
  BY <1>8, ReturnKeeps
<1>9. CASE Include
  BY <1>9, IncludeKeeps
<1>10. CASE IncludeEnds
  BY <1>10, IncludedKeeps
<1>11. CASE LongLine
  <2>1. UNCHANGED <<program, file, macros, MacroId, defining, stack, unended, calls>> /\ pos' = last + 1
    BY <1>11 DEF LongLine, mem
  <2>2. FileType' /\ outer' = outer
    BY <2>1, FileKeeps DEF UsedInv, MacroType, file
  <2> QED BY <2>1, <2>2 DEF UsedInv, MacroType, Active, Open, Marked
<1>12. CASE EndPass
  BY <1>12, EndKeeps
<1>13. CASE UNCHANGED vars
  BY <1>13 DEF vars, mem, file, UsedInv, MacroType, FileType, Active, Open, Marked
<1> QED BY <1>1, <1>2, <1>3, <1>4, <1>5, <1>6, <1>7, <1>8, <1>9, <1>10, <1>11, <1>12, <1>13 DEF Next

\* A line that fails is an error.
LEMMA FailsCount ==
  ASSUME UsedInv, Errors \in Nat, LineFails
  PROVE  Errors' \in Nat /\ Errors' > Errors
<1>1. Len(stack) \in Nat /\ Reported \in 0 .. 1
  BY DEF UsedInv, MacroType, Reported
<1> QED BY <1>1 DEF LineFails

\* A line that is accepted takes none back.
LEMMA DoneCounts ==
  ASSUME Errors \in Nat, LineDone
  PROVE  Errors' \in Nat /\ Errors' >= Errors
<1>1. Reported \in 0 .. 1
  BY DEF Reported
<1> QED BY <1>1 DEF LineDone

\* Nor does a line of a definition.
LEMMA AbsorbCounts ==
  ASSUME NEW m, NEW line \in Stmt, line.op \notin {"bad", "include", "long"}
  PROVE  AddLabel(m, line.lab).errors \in Nat /\ Absorb(m, line).errors \in Nat
<1>1. AddLabel(m, line.lab).errors \in Nat
  BY DEF AddLabel
<1>2. line.op \in {"code", "call", "param", "option", "macro", "dot", "endm"}
  BY DEF Stmt
<1>3. Absorb(m, line).errors \in Nat
  <2>1. CASE line.op \in {"code", "call"}
    BY <2>1 DEF Absorb, AddLine
  <2>2. CASE line.op \in {"param", "option"}
    BY <2>2 DEF Absorb, AddArg
  <2>3. CASE line.op \in {"macro", "dot", "endm"}
    BY <2>3 DEF Absorb
  <2> QED BY <1>2, <2>1, <2>2, <2>3
<1> QED BY <1>1, <1>3

\* A definition is given up with a report, or after too many.
LEMMA GivenUpCounts ==
  ASSUME UsedInv, Errors \in Nat, DefinitionFails
  PROVE  Errors' \in Nat /\ Errors' >= Errors /\ Errors' > 0
<1>1. pos \in Nat /\ last \in Nat /\ MAX_ERRORS \in Nat \ {0}
  BY MacroAssumption DEF UsedInv, MacroType, FileType
<1>2. CASE GivenUp
  BY <1>1, <1>2 DEF DefinitionFails, Abandon, GivenUp
<1>3. CASE ~GivenUp /\ pos > last
  BY <1>1, <1>3 DEF DefinitionFails, Abandon
<1>4. CASE ~GivenUp /\ pos <= last
  BY <1>1, <1>4 DEF DefinitionFails, Abandon
<1> QED BY <1>1, <1>2, <1>3, <1>4

\* Errors are never taken back, and a definition is given up with one.
ErrInv == Errors \in Nat /\ (unended # {} => Errors > 0)

LEMMA ErrInit == Init => ErrInv
BY DEF Init, ErrInv

LEMMA ErrorsStay ==
  ASSUME UsedInv, Errors \in Nat, [Next]_vars
  PROVE  Errors' \in Nat /\ Errors' >= Errors
<1>1. CASE Code
  BY <1>1, FailsCount, DoneCounts DEF Code
<1>2. CASE BadLine
  BY <1>2 DEF BadLine
<1>3. CASE Outside
  BY <1>3, FailsCount DEF Outside
<1>4. CASE MacroEnter
  BY <1>4, FailsCount, DoneCounts DEF MacroEnter
<1>5. CASE MacroLine
  <2> DEFINE line == program[pos]
             l == AddLabel(MacroOf(defining), line.lab)
             r == Absorb(l.m, line)
  <2>1. line \in Stmt /\ line.op \notin {"include", "long"}
    BY <1>5, LineType DEF MacroLine, HasLine
  <2>2. CASE line.op = "bad"
    BY <1>5, <2>2 DEF MacroLine
  <2>3. CASE line.op # "bad"
    <3>1. Errors' = Errors + l.errors + r.errors
      BY <1>5, <2>3 DEF MacroLine
    <3>2. l.errors \in Nat /\ r.errors \in Nat
      BY <2>1, <2>3, AbsorbCounts
    <3> HIDE DEF l, r
    <3> QED BY <3>1, <3>2
  <2> QED BY <2>2, <2>3
<1>6. CASE DefinitionFails
  BY <1>6, GivenUpCounts
<1>7. CASE Call
  <2>1. Reported \in 0 .. 1
    BY DEF Reported
  <2> QED BY <1>7, <2>1, FailsCount DEF Call
<1>8. CASE Return
  BY <1>8 DEF Return
<1>9. CASE Include \/ IncludeEnds
  BY <1>9 DEF Include, IncludeEnds
<1>10. CASE LongLine
  BY <1>10 DEF LongLine
<1>11. CASE EndPass
  BY <1>11 DEF EndPass
<1>12. CASE UNCHANGED vars
  BY <1>12 DEF vars
<1> QED BY <1>1, <1>2, <1>3, <1>4, <1>5, <1>6, <1>7, <1>8, <1>9, <1>10, <1>11, <1>12 DEF Next

LEMMA ErrNext == UsedInv /\ ErrInv /\ [Next]_vars => ErrInv'
<1> SUFFICES ASSUME UsedInv, ErrInv, [Next]_vars PROVE ErrInv'
  OBVIOUS
<1>1. Errors' \in Nat /\ Errors' >= Errors /\ Errors \in Nat
  BY ErrorsStay DEF ErrInv
<1>2. CASE DefinitionFails
  BY <1>1, <1>2, GivenUpCounts DEF ErrInv
<1>3. CASE EndPass
  BY <1>1, <1>3 DEF EndPass, ErrInv
<1>4. CASE ~DefinitionFails /\ ~EndPass
  <2>1. unended' = unended
    BY <1>4 DEF Next, Code, LineDone, LineFails, BadLine, Outside, MacroEnter, MacroLine, Call,
                Return, Include, IncludeEnds, LongLine, vars, mem
  <2> QED BY <1>1, <2>1 DEF ErrInv
<1> QED BY <1>2, <1>3, <1>4

\* No macro is expanded inside its own expansion or before its .endm, and the marks
\* that prevent it are on for these macros and for those whose definition was given
\* up, of which there are none without an error (pasmmacro.c:147-148, 221, 313-318).
THEOREM MarksFitUse == Spec => []InUseWhileUsed
<1>1. UsedInv /\ ErrInv => InUseWhileUsed
  BY DEF UsedInv, ErrInv, InUseWhileUsed, Active, Marked
<1> QED BY UsedInit, UsedNext, ErrInit, ErrNext, <1>1, PTL DEF Spec

-----------------------------------------------------------------------------
(* Labels in expansions.                                                  *)

\* What a pass notes of a label: the name it gets, and the expansion it is in.
Entry == [name : {<<l>> : l \in LabelNames} \union (LabelNames \X Nat \X Nat), call : Nat]

Renamed(e) == Len(e.name) # 1

\* One expansion for a name.
OneCall(g) ==
  \A i, j \in DOMAIN g : Renamed(g[i]) /\ g[i].name = g[j].name => g[i].call = g[j].call

\* A name in g is that of a macro in ms and of an expansion that has begun.
Known(g, ms) ==
  \A i \in DOMAIN g : Renamed(g[i]) =>
    \E n \in DOMAIN ms : g[i].name[2] = ms[n].id /\ g[i].name[3] <= ms[n].expands

\* The names of the expansions under way are theirs.
Current(g, ms, st) ==
  \A i \in DOMAIN g, j \in DOMAIN st :
    Renamed(g[i]) /\ g[i].name[2] = ms[st[j].m].id /\ g[i].name[3] = ms[st[j].m].expands
      => g[i].call = st[j].call

\* No two macros have the same Id.
Ids(ms, next) ==
  \A n, k \in DOMAIN ms : ms[n].id < next /\ (ms[n].id = ms[k].id => n = k)

\* The names so far, those of this pass with the macros they come from.
NamesInv ==
  /\ Pass \in 1 .. 2 /\ given \in [1 .. 2 -> Seq(Entry)]
  /\ phase = "pass" /\ Pass = 1 => given[2] = <<>>
  /\ \A p \in 1 .. 2 : OneCall(given[p])
  /\ phase = "pass" =>
       Ids(macros, MacroId) /\ Known(given[Pass], macros) /\ Current(given[Pass], macros, stack)

LEMMA NamesInit == Init => NamesInv
<1> SUFFICES ASSUME Init PROVE NamesInv
  OBVIOUS
<1>1. given = <<<<>>, <<>>>> /\ Pass = 1 /\ DOMAIN macros = {} /\ stack = <<>>
  BY DEF Init, NoMacros
<1>2. given = [p \in 1 .. 2 |-> <<>>]
  BY <1>1
<1>3. given[1] = <<>> /\ given[2] = <<>> /\ given \in [1 .. 2 -> Seq(Entry)]
  BY <1>2
<1> QED BY <1>1, <1>3 DEF NamesInv, OneCall, Known, Current, Ids

\* What a label is called: by its name, or by its expansion.
LEMMA TextIs ==
  ASSUME UsedInv, Expanding \/ ~Expanding, NEW l \in LabelNames
  PROVE  \/ LabelText(l) = <<l>>
         \/ /\ Expanding /\ Top.m \in DOMAIN macros
            /\ LabelText(l) = <<l, macros[Top.m].id, macros[Top.m].expands>>
            /\ macros[Top.m].id \in Nat /\ macros[Top.m].expands \in Nat
<1>1. CASE Expanding /\ Contains(MacroOf(Top.m).labels, l)
  BY <1>1, TopType DEF LabelText, MacroOf, UsedInv, MacroType, MacroRec
<1>2. CASE ~(Expanding /\ Contains(MacroOf(Top.m).labels, l))
  BY <1>2 DEF LabelText
<1> QED BY <1>1, <1>2

\* A label adds to its pass a name that its expansion has or may have.
LEMMA LabelledKeeps ==
  ASSUME UsedInv, NamesInv, Ready, Labelled
  PROVE  /\ given' \in [1 .. 2 -> Seq(Entry)]
         /\ \A p \in 1 .. 2 : p # Pass => given'[p] = given[p]
         /\ OneCall(given'[Pass]) /\ Known(given'[Pass], macros)
         /\ Current(given'[Pass], macros, stack)
<1>1. CASE Cur.lab = None
  BY <1>1 DEF Labelled, NamesInv, Ready
<1>2. CASE Cur.lab # None
  <2> DEFINE g == given[Pass]
             text == LabelText(Cur.lab)
             e == [name |-> text, call |-> IF Expanding THEN Top.call ELSE 0]
  <2>1. given' = [given EXCEPT ![Pass] = Append(g, e)]
    BY <1>2 DEF Labelled
  <2>2. Cur.lab \in LabelNames
    BY <1>2, CurType DEF Stmt
  <2>3. \/ text = <<Cur.lab>>
        \/ /\ Expanding /\ Top.m \in DOMAIN macros
           /\ text = <<Cur.lab, macros[Top.m].id, macros[Top.m].expands>>
           /\ macros[Top.m].id \in Nat /\ macros[Top.m].expands \in Nat
    BY <2>2, TextIs
  <2>4. Expanding => Top.call \in Nat /\ Len(stack) \in DOMAIN stack /\ Top = stack[Len(stack)]
    BY TopType DEF Frame, Top
  <2>5. e \in Entry
    BY <2>2, <2>3, <2>4 DEF Entry
  <2>6. Renamed(e) => /\ Expanding /\ e.call = Top.call /\ Top.m \in DOMAIN macros
                      /\ e.name[2] = macros[Top.m].id /\ e.name[3] = macros[Top.m].expands
                      /\ macros[Top.m].expands \in Nat
    BY <2>3 DEF Renamed
  <2> HIDE DEF e
  <2>7. /\ g \in Seq(Entry) /\ OneCall(g) /\ Known(g, macros) /\ Current(g, macros, stack)
        /\ Ids(macros, MacroId) /\ Pass \in 1 .. 2 /\ given \in [1 .. 2 -> Seq(Entry)]
    BY DEF NamesInv, Ready
  <2> HIDE DEF g
  <2>8. /\ given'[Pass] = Append(g, e) /\ given' \in [1 .. 2 -> Seq(Entry)]
        /\ \A p \in 1 .. 2 : p # Pass => given'[p] = given[p]
    BY <2>1, <2>5, <2>7
  <2> DEFINE h == given'[Pass]
  <2>9. /\ DOMAIN h = 1 .. Len(g) + 1 /\ DOMAIN g = 1 .. Len(g) /\ Len(g) \in Nat
        /\ h[Len(g) + 1] = e /\ \A i \in DOMAIN g : h[i] = g[i]
    BY <2>5, <2>7, <2>8
  <2> HIDE DEF h
  <2>10. \A i \in DOMAIN h : h[i] = e \/ (i \in DOMAIN g /\ h[i] = g[i])
    BY <2>9
  <2>11. Known(h, macros)
    BY <2>6, <2>7, <2>10 DEF Known
  <2>12. \A i \in DOMAIN g : Renamed(g[i]) /\ g[i].name = e.name => g[i].call = e.call
    <3> SUFFICES ASSUME NEW i \in DOMAIN g, Renamed(g[i]), g[i].name = e.name
                 PROVE  g[i].call = e.call
      OBVIOUS
    <3>1. Renamed(e)
      BY DEF Renamed
    <3> QED BY <2>4, <2>6, <2>7, <3>1 DEF Current
  <2>13. OneCall(h)
    BY <2>7, <2>10, <2>12 DEF OneCall, Renamed
  <2>14. Current(h, macros, stack)
    <3>1. ASSUME NEW j \in DOMAIN stack, Renamed(e), e.name[2] = macros[stack[j].m].id
          PROVE  e.call = stack[j].call
      <4>1. stack[j].m \in DOMAIN macros
        BY DEF UsedInv, Active
      <4>2. stack[j].m = Top.m
        BY <2>6, <2>7, <3>1, <4>1 DEF Ids
      <4>3. j = Len(stack)
        BY <2>4, <2>6, <3>1, <4>2 DEF UsedInv
      <4> QED BY <2>4, <2>6, <3>1, <4>3
    <3>2. ASSUME NEW i \in DOMAIN h, NEW j \in DOMAIN stack, Renamed(h[i]),
                 h[i].name[2] = macros[stack[j].m].id, h[i].name[3] = macros[stack[j].m].expands
          PROVE  h[i].call = stack[j].call
      <4>1. CASE h[i] = e
        BY <3>1, <3>2, <4>1
      <4>2. CASE h[i] # e
        <5>1. i \in DOMAIN g /\ h[i] = g[i]
          BY <2>10, <4>2
        <5> QED BY <2>7, <3>2, <5>1 DEF Current
      <4> QED BY <4>1, <4>2
    <3> QED BY <3>2 DEF Current
  <2> QED BY <2>8, <2>11, <2>13, <2>14 DEF h
<1> QED BY <1>1, <1>2

\* Macros keep their Ids and counts, and calls end or go on: the names stay good.
LEMMA CurrentKept ==
  ASSUME NEW g, NEW ms, NEW ns, NEW st, NEW su, Known(g, ms), Current(g, ms, st),
         DOMAIN ms \subseteq DOMAIN ns,
         \A n \in DOMAIN ms : ns[n].id = ms[n].id /\ ns[n].expands = ms[n].expands,
         \A j \in DOMAIN su : \E i \in DOMAIN st :
           st[i].m \in DOMAIN ms /\ su[j].m = st[i].m /\ su[j].call = st[i].call
  PROVE  Known(g, ns) /\ Current(g, ns, su)
<1>1. Known(g, ns)
  BY DEF Known
<1>2. Current(g, ns, su)
  BY DEF Current
<1> QED BY <1>1, <1>2


\* The labels that are given so far fit the macros and calls of this state.
Fits ==
  /\ given' \in [1 .. 2 -> Seq(Entry)] /\ \A p \in 1 .. 2 : p # Pass => given'[p] = given[p]
  /\ OneCall(given'[Pass]) /\ Known(given'[Pass], macros) /\ Current(given'[Pass], macros, stack)

\* Every step but the end of a pass.
InPass == phase = "pass" /\ phase' = "pass" /\ Pass' = Pass

LEMMA StepKeeps ==
  ASSUME NamesInv, UsedInv, Fits, InPass,
         DOMAIN macros \subseteq DOMAIN macros',
         \A n \in DOMAIN macros : /\ macros'[n].id = macros[n].id
                                  /\ macros'[n].expands = macros[n].expands,
         \A j \in DOMAIN stack' : \E i \in DOMAIN stack :
           stack'[j].m = stack[i].m /\ stack'[j].call = stack[i].call,
         Ids(macros', MacroId')
  PROVE  NamesInv'
<1>1. \A i \in DOMAIN stack : stack[i].m \in DOMAIN macros
  BY DEF UsedInv, Active
<1>2. Known(given'[Pass], macros') /\ Current(given'[Pass], macros', stack')
  BY <1>1, CurrentKept DEF Fits
<1>3. \A p \in 1 .. 2 : OneCall(given'[p])
  BY DEF Fits, NamesInv
<1>4. Pass = 1 => given'[2] = <<>>
  BY DEF Fits, NamesInv, InPass
<1> QED BY <1>2, <1>3, <1>4 DEF Fits, InPass, NamesInv

\* The lines that leave the labels alone.
LEMMA SameFits == ASSUME NamesInv, phase = "pass", given' = given PROVE Fits
BY DEF NamesInv, Fits

LEMMA LabelledFits == ASSUME UsedInv, NamesInv, Ready, Labelled PROVE Fits
BY LabelledKeeps DEF Fits

\* Ids stay distinct while the macros keep them.
LEMMA IdsKept ==
  ASSUME NEW ms, NEW ns, NEW next, Ids(ms, next), DOMAIN ns = DOMAIN ms,
         \A n \in DOMAIN ms : ns[n].id = ms[n].id
  PROVE  Ids(ns, next)
BY DEF Ids

\* The next line is one of the same calls.
LEMMA AdvanceCalls ==
  ASSUME UsedInv, Advance
  PROVE  \A j \in DOMAIN stack' : \E i \in DOMAIN stack :
           stack'[j].m = stack[i].m /\ stack'[j].call = stack[i].call
<1>1. CASE Expanding
  <2> DEFINE k == Len(stack)
             f == [stack[k] EXCEPT !.line = @ + 1]
  <2>1. stack \in Seq(Frame) /\ k \in DOMAIN stack /\ DOMAIN stack = 1 .. k
    BY <1>1, TopType DEF UsedInv, MacroType
  <2>2. stack' = [stack EXCEPT ![k] = f]
    BY <1>1 DEF Advance
  <2>3. stack[k] \in Frame
    BY <2>1
  <2>4. f.m = stack[k].m /\ f.call = stack[k].call
    BY <2>3 DEF Frame
  <2> HIDE DEF f, k
  <2>5. /\ DOMAIN stack' = DOMAIN stack
        /\ \A j \in DOMAIN stack : stack'[j] = stack[j] \/ (j = k /\ stack'[j] = f)
    BY <2>1, <2>2
  <2> QED BY <2>4, <2>5
<1>2. CASE ~Expanding
  BY <1>2 DEF Advance
<1> QED BY <1>1, <1>2

\* A line that is accepted and changes no macro.
LEMMA DoneNames ==
  ASSUME UsedInv, NamesInv, Ready, Labelled, LineDone, UNCHANGED <<macros, MacroId>>
  PROVE  NamesInv'
<1>1. Fits /\ InPass /\ Advance
  BY LabelledFits DEF LineDone, Ready, InPass
<1>2. Ids(macros', MacroId')
  BY DEF NamesInv, Ready
<1> QED BY <1>1, <1>2, AdvanceCalls, StepKeeps

\* A line that fails ends every call.
LEMMA FailsNames ==
  ASSUME UsedInv, NamesInv, Ready, Labelled, LineFails, UNCHANGED MacroId
  PROVE  NamesInv'
<1>1. Fits /\ InPass /\ stack' = <<>> /\ macros' = Release
  BY LabelledFits DEF LineFails, Ready, InPass
<1>2. /\ DOMAIN macros' = DOMAIN macros
      /\ \A n \in DOMAIN macros :
           macros'[n].id = macros[n].id /\ macros'[n].expands = macros[n].expands
  BY <1>1 DEF Release, UsedInv, MacroType, MacroRec
<1>3. Ids(macros', MacroId')
  BY <1>2, IdsKept DEF NamesInv, Ready
<1>4. DOMAIN stack' = {}
  BY <1>1
<1> QED BY <1>1, <1>2, <1>3, <1>4, StepKeeps

\* A new macro gets an Id that no other has.
LEMMA EnterNames ==
  ASSUME UsedInv, NamesInv, Ready, MacroEnter, Cur.n \notin DOMAIN macros
  PROVE  NamesInv'
<1> DEFINE n == Cur.n
<1>1. Fits /\ InPass /\ Advance
  BY LabelledFits DEF MacroEnter, LineDone, Ready, InPass
<1>2. /\ macros' = [k \in DOMAIN macros \union {n} |-> IF k = n THEN NewMacro ELSE macros[k]]
      /\ MacroId' = MacroId + 1
  BY DEF MacroEnter
<1>3. n \notin DOMAIN macros
  OBVIOUS
<1> HIDE DEF n
<1>4. /\ DOMAIN macros' = DOMAIN macros \union {n} /\ macros'[n] = NewMacro
      /\ \A k \in DOMAIN macros : macros'[k] = macros[k]
  BY <1>2, <1>3
<1>5. NewMacro.id = MacroId /\ MacroId \in Nat /\ \A k \in DOMAIN macros : macros[k].id \in Nat
  BY DEF NewMacro, UsedInv, MacroType, MacroRec
<1>6. Ids(macros, MacroId)
  BY DEF NamesInv, Ready
<1>7. Ids(macros', MacroId')
  BY <1>2, <1>4, <1>5, <1>6 DEF Ids
<1> QED BY <1>1, <1>4, <1>7, AdvanceCalls, StepKeeps

\* A line of a definition changes neither the Id nor the count.
LEMMA AbsorbKeeps ==
  ASSUME NEW m \in MacroRec, NEW line \in Stmt, line.op \notin {"bad", "include", "long"}
  PROVE  LET r == Absorb(AddLabel(m, line.lab).m, line).m
         IN  r.id = m.id /\ r.expands = m.expands
<1> DEFINE l == AddLabel(m, line.lab).m
           r == Absorb(l, line).m
<1>1. l = m \/ l = [m EXCEPT !.labels = Append(m.labels, line.lab)]
  BY DEF AddLabel
<1>2. l.id = m.id /\ l.expands = m.expands /\ DOMAIN l = DOMAIN m
  BY <1>1 DEF MacroRec
<1> HIDE DEF l
<1>3. \/ r = l \/ r = [l EXCEPT !.lines = Append(l.lines, line)]
      \/ r = [l EXCEPT !.args = l.args + 1, !.required = l.required + 1]
      \/ r = [l EXCEPT !.args = l.args + 1, !.required = l.required]
      \/ r = [l EXCEPT !.inUse = FALSE]
  <2>1. CASE line.op \in {"code", "call"}
    BY <2>1 DEF Absorb, AddLine
  <2>2. CASE line.op \in {"param", "option"}
    BY <2>2 DEF Absorb, AddArg
  <2>3. CASE line.op \in {"macro", "dot", "endm"}
    BY <2>3 DEF Absorb
  <2>4. line.op \in {"code", "call", "param", "option", "macro", "dot", "endm"}
    BY DEF Stmt
  <2> QED BY <2>1, <2>2, <2>3, <2>4
<1>4. r.id = l.id /\ r.expands = l.expands
  BY <1>2, <1>3 DEF MacroRec
<1> QED BY <1>2, <1>4 DEF l

\* One line of a definition.
LEMMA LineNames ==
  ASSUME UsedInv, NamesInv, MacroLine
  PROVE  NamesInv'
<1> DEFINE line == program[pos]
           l == AddLabel(macros[defining], line.lab)
           r == Absorb(l.m, line).m
<1>1. /\ InPass /\ Fits /\ UNCHANGED <<MacroId, stack>> /\ defining # None /\ pos <= last
      /\ line.op \notin {"include", "long"}
  BY SameFits DEF MacroLine, HasLine, InPass
<1>2. line \in Stmt /\ defining \in DOMAIN macros /\ macros[defining] \in MacroRec
  BY <1>1, LineType DEF UsedInv, MacroType
<1>3. /\ DOMAIN macros' = DOMAIN macros
      /\ \A n \in DOMAIN macros :
           macros'[n].id = macros[n].id /\ macros'[n].expands = macros[n].expands
  <2>1. CASE line.op = "bad"
    BY <2>1 DEF MacroLine
  <2>2. CASE line.op # "bad"
    <3>1. macros' = [macros EXCEPT ![defining] = r]
      BY <2>2 DEF MacroLine, MacroOf
    <3>2. r.id = macros[defining].id /\ r.expands = macros[defining].expands
      BY <1>1, <1>2, <2>2, AbsorbKeeps
    <3> HIDE DEF r
    <3> QED BY <1>2, <3>1, <3>2
  <2> QED BY <2>1, <2>2
<1>4. Ids(macros', MacroId')
  BY <1>1, <1>3, IdsKept DEF NamesInv, InPass
<1> QED BY <1>1, <1>3, <1>4, StepKeeps

\* The innermost call ends.
LEMMA ReturnNames ==
  ASSUME UsedInv, NamesInv, Return
  PROVE  NamesInv'
<1> DEFINE n == Top.m
<1>1. /\ InPass /\ Fits /\ Expanding /\ macros' = [macros EXCEPT ![n].inUse = FALSE]
      /\ UNCHANGED MacroId
  BY SameFits DEF Return, InPass
<1>2. n \in DOMAIN macros /\ macros[n] \in MacroRec
  BY <1>1, TopType DEF UsedInv, MacroType
<1> HIDE DEF n
<1>3. /\ DOMAIN macros' = DOMAIN macros
      /\ \A k \in DOMAIN macros :
           macros'[k].id = macros[k].id /\ macros'[k].expands = macros[k].expands
  BY <1>1, <1>2 DEF MacroRec
<1>4. Ids(macros', MacroId')
  BY <1>1, <1>3, IdsKept DEF NamesInv, InPass
<1>5. \A j \in DOMAIN stack' : \E i \in DOMAIN stack :
        stack'[j].m = stack[i].m /\ stack'[j].call = stack[i].call
  <2>1. CASE Len(stack) = 1
    <3>1. stack' = <<>>
      BY <2>1 DEF Return
    <3> QED BY <3>1
  <2>2. CASE Len(stack) # 1
    <3> DEFINE g == Front(stack)
               k == Len(stack) - 1
               f == [g[k] EXCEPT !.line = @ + 1]
    <3>1. stack' = [g EXCEPT ![k] = f]
      BY <2>2 DEF Return
    <3>2. /\ stack \in Seq(Frame) /\ DOMAIN stack = 1 .. Len(stack) /\ Len(stack) \in Nat \ {0, 1}
      BY <1>1, <2>2 DEF UsedInv, MacroType, Expanding
    <3>3. g \in Seq(Frame) /\ Len(g) = k /\ k \in Nat \ {0} /\ \A i \in 1 .. k : g[i] = stack[i]
      BY <3>2 DEF Front
    <3>4. g[k] \in Frame /\ DOMAIN g = 1 .. k
      BY <3>3
    <3> HIDE DEF g
    <3>5. f.m = g[k].m /\ f.call = g[k].call
      BY <3>4 DEF Frame
    <3> HIDE DEF f
    <3>6. DOMAIN stack' = 1 .. k /\ \A j \in 1 .. k : stack'[j] = g[j] \/ (j = k /\ stack'[j] = f)
      BY <3>1, <3>4
    <3>7. \A j \in 1 .. k : /\ j \in DOMAIN stack
                            /\ stack'[j].m = stack[j].m /\ stack'[j].call = stack[j].call
      <4>1. \A j \in 1 .. k : stack'[j].m = g[j].m /\ stack'[j].call = g[j].call
        BY <3>5, <3>6
      <4>2. \A j \in 1 .. k : j \in DOMAIN stack
        BY <3>2, <3>3
      <4> QED BY <3>3, <4>1, <4>2
    <3> QED BY <3>6, <3>7
  <2> QED BY <2>1, <2>2
<1> QED BY <1>1, <1>3, <1>4, <1>5, StepKeeps

\* The expansion that begins counts one more than any that is known.
LEMMA CallNames ==
  ASSUME UsedInv, NamesInv, Ready, Call, Callable(Cur.n, Cur.k)
  PROVE  NamesInv'
<1> DEFINE n == Cur.n
           f == [m |-> n, line |-> 1, call |-> calls + 1]
           r == [macros[n] EXCEPT !.expands = @ + 1, !.inUse = TRUE]
           g == given'[Pass]
<1>1. /\ Fits /\ InPass /\ macros' = [macros EXCEPT ![n].expands = @ + 1, ![n].inUse = TRUE]
      /\ stack' = Append(stack, f) /\ MacroId' = MacroId
  BY LabelledFits DEF Call, Ready, InPass
<1>2. n \in DOMAIN macros /\ ~macros[n].inUse /\ macros[n] \in MacroRec
  BY DEF Callable, UsedInv, MacroType
<1>3. f \in Frame /\ f.m = n /\ stack \in Seq(Frame)
  BY <1>2 DEF Frame, UsedInv, MacroType
<1>4. n \notin Active
  BY <1>2 DEF UsedInv, Marked
<1> HIDE DEF n
<1>5. r.id = macros[n].id /\ r.expands = macros[n].expands + 1 /\ macros[n].expands \in Nat
  BY <1>2 DEF MacroRec
<1>6. macros' = [macros EXCEPT ![n] = r]
  BY <1>1, <1>2
<1> HIDE DEF r, f
<1>7. /\ DOMAIN macros' = DOMAIN macros /\ macros'[n] = r
      /\ \A k \in DOMAIN macros : k # n => macros'[k] = macros[k]
  BY <1>2, <1>6
<1>8. Ids(macros, MacroId)
  BY <1>1 DEF NamesInv, InPass
<1>9. Ids(macros', MacroId')
  <2>1. \A k \in DOMAIN macros : macros'[k].id = macros[k].id
    BY <1>5, <1>7
  <2> QED BY <1>1, <1>7, <1>8, <2>1, IdsKept
<1>10. g \in Seq(Entry) /\ OneCall(g) /\ Known(g, macros) /\ Current(g, macros, stack)
  BY <1>1 DEF Fits, NamesInv
<1> HIDE DEF g
<1>11. \A i \in DOMAIN g : Renamed(g[i]) => g[i].name[3] \in Nat
  <2>1. \A i \in DOMAIN g : g[i] \in Entry
    BY <1>10
  <2>2. \A e \in Entry : Renamed(e) => e.name[3] \in Nat
    BY DEF Entry, Renamed
  <2> QED BY <2>1, <2>2
<1>12. Known(g, macros')
  BY <1>5, <1>7, <1>10, <1>11 DEF Known
<1>13. /\ DOMAIN stack' = 1 .. Len(stack) + 1 /\ stack'[Len(stack) + 1] = f /\ Len(stack) \in Nat
       /\ DOMAIN stack = 1 .. Len(stack) /\ \A j \in DOMAIN stack : stack'[j] = stack[j]
  BY <1>1, <1>3
<1>14. Current(g, macros', stack')
  <2> SUFFICES ASSUME NEW i \in DOMAIN g, NEW j \in DOMAIN stack', Renamed(g[i]),
                      g[i].name[2] = macros'[stack'[j].m].id,
                      g[i].name[3] = macros'[stack'[j].m].expands
               PROVE  g[i].call = stack'[j].call
    BY DEF Current
  <2>1. CASE j \in DOMAIN stack
    <3>1. stack'[j] = stack[j] /\ stack[j].m \in DOMAIN macros /\ stack[j].m # n
      BY <1>4, <1>13, <2>1 DEF UsedInv, Active
    <3> QED BY <1>7, <1>10, <2>1, <3>1 DEF Current
  <2>2. CASE j \notin DOMAIN stack
    <3>1. stack'[j] = f
      BY <1>13, <2>2
    <3>2. g[i].name[2] = macros[n].id /\ g[i].name[3] = macros[n].expands + 1
      BY <1>3, <1>5, <1>7, <3>1
    <3>3. PICK k \in DOMAIN macros :
            g[i].name[2] = macros[k].id /\ g[i].name[3] <= macros[k].expands
      BY <1>10 DEF Known
    <3>4. k = n
      BY <1>2, <1>8, <3>2, <3>3 DEF Ids
    <3> QED BY <1>5, <3>2, <3>3, <3>4
  <2> QED BY <2>1, <2>2
<1> HIDE DEF Fits, InPass
<1>15. Fits /\ InPass /\ g = given'[Pass]
  BY <1>1 DEF g
<1>16. \A p \in 1 .. 2 : OneCall(given'[p])
  BY <1>15 DEF Fits, NamesInv
<1>17. Pass = 1 => given'[2] = <<>>
  BY <1>15 DEF Fits, NamesInv, InPass
<1> QED BY <1>9, <1>12, <1>14, <1>15, <1>16, <1>17 DEF Fits, InPass, NamesInv

\* The next pass begins without names and macros.
LEMMA EndNames == ASSUME NamesInv, EndPass PROVE NamesInv'
<1>1. /\ given' = given /\ DOMAIN macros' = {} /\ stack' = <<>> /\ phase = "pass"
      /\ \/ Pass = 1 /\ Pass' = 2 /\ phase' = phase
         \/ Pass' = Pass /\ phase' = "done"
  BY DEF EndPass, FileOver, MacroCleanup, NoMacros
<1>2. DOMAIN stack' = {} /\ (phase' = "pass" => given'[2] = <<>> /\ Pass' = 2)
  BY <1>1 DEF NamesInv
<1>3. phase' = "pass" => DOMAIN given'[Pass'] = {}
  BY <1>2
<1> QED BY <1>1, <1>2, <1>3 DEF NamesInv, Ids, Known, Current

LEMMA NamesNext == UsedInv /\ NamesInv /\ [Next]_vars => NamesInv'
<1> SUFFICES ASSUME UsedInv, NamesInv, [Next]_vars PROVE NamesInv'
  OBVIOUS
<1>1. CASE Code
  BY <1>1, DoneNames, FailsNames DEF Code
<1>2. CASE BadLine
  BY <1>2 DEF BadLine, mem, NamesInv, Ready
<1>3. CASE Outside
  BY <1>3, FailsNames DEF Outside
<1>4. CASE MacroEnter
  <2>1. CASE Cur.n \in DOMAIN macros
    BY <1>4, <2>1, FailsNames DEF MacroEnter
  <2> QED BY <1>4, <2>1, EnterNames DEF MacroEnter
<1>5. CASE MacroLine
  BY <1>5, LineNames
<1>6. CASE Call
  <2>1. CASE ~Callable(Cur.n, Cur.k)
    BY <1>6, <2>1, FailsNames DEF Call
  <2> QED BY <1>6, <2>1, CallNames DEF Call
<1>7. CASE Return
  BY <1>7, ReturnNames
<1>8. CASE DefinitionFails \/ LongLine
  BY <1>8 DEF DefinitionFails, Abandon, LongLine, HasLine, mem, NamesInv
<1>9. CASE Include \/ IncludeEnds
  BY <1>9 DEF Include, IncludeEnds, HasLine, FileOver, NamesInv
<1>10. CASE EndPass
  BY <1>10, EndNames
<1>11. CASE UNCHANGED vars
  BY <1>11 DEF vars, mem, NamesInv
<1> QED BY <1>1, <1>2, <1>3, <1>4, <1>5, <1>6, <1>7, <1>8, <1>9, <1>10, <1>11 DEF Next

-----------------------------------------------------------------------------
(* The second pass: without errors it does what the first did.             *)

\* The calls without their numbers.
Frames(st) == [j \in DOMAIN st |-> [m |-> st[j].m, line |-> st[j].line]]

Names(g) == [i \in DOMAIN g |-> g[i].name]

Seen(ps, files, ms, id, def, frames, names) ==
  [pos |-> ps, file |-> files, macros |-> ms, id |-> id, defining |-> def, frames |-> frames,
   names |-> names]

\* What both passes have in common: all but the numbers of the expansions.
View == Seen(pos, file, macros, MacroId, defining, Frames(stack), Names(given[Pass]))

Start(p) == Seen(1, <<Len(p), <<>>>>, NoMacros, 0, None, Frames(<<>>), Names(<<>>))

\* The line that is processed, and the name of one of its labels, as Cur and LabelText.
Inner(v) == v.frames[Len(v.frames)]
CurIn(p, v) == IF v.frames # <<>> THEN v.macros[Inner(v).m].lines[Inner(v).line] ELSE p[v.pos]
NameIn(v, l) ==
  IF v.frames # <<>> /\ Contains(v.macros[Inner(v).m].labels, l)
  THEN <<l, v.macros[Inner(v).m].id, v.macros[Inner(v).m].expands>>
  ELSE <<l>>

\* The first k calls, the last of them at its next line.
NextLine(frames, k) ==
  [j \in 1 .. k |-> IF j = k THEN [m |-> frames[k].m, line |-> frames[k].line + 1] ELSE frames[j]]
Deeper(frames, n) ==
  [j \in 1 .. Len(frames) + 1 |-> IF j = Len(frames) + 1 THEN [m |-> n, line |-> 1] ELSE frames[j]]

OnPos(v) == IF v.frames # <<>> THEN v.pos ELSE v.pos + 1
OnFrames(v) == IF v.frames # <<>> THEN NextLine(v.frames, Len(v.frames)) ELSE v.frames
OnNames(p, v) == IF CurIn(p, v).lab = None THEN v.names
                 ELSE Append(v.names, NameIn(v, CurIn(p, v).lab))

Plain(p, v) == Seen(OnPos(v), v.file, v.macros, v.id, None, OnFrames(v), OnNames(p, v))

Fresh(id) == [inUse |-> TRUE, id |-> id, args |-> 0, required |-> 0,
              labels |-> <<>>, lines |-> <<>>, expands |-> 0]
Begun(p, v) ==
  LET n == CurIn(p, v).n
  IN  Seen(OnPos(v), v.file,
           [k \in DOMAIN v.macros \union {n} |-> IF k = n THEN Fresh(v.id) ELSE v.macros[k]],
           v.id + 1, n, OnFrames(v), OnNames(p, v))

Absorbed(p, v) ==
  LET line == p[v.pos]
      l == AddLabel(v.macros[v.defining], line.lab)
  IN  Seen(v.pos + 1, v.file, [v.macros EXCEPT ![v.defining] = Absorb(l.m, line).m], v.id,
           IF line.op = "endm" THEN None ELSE v.defining, v.frames, v.names)

Called(p, v) ==
  LET n == CurIn(p, v).n
  IN  Seen(v.pos, v.file, [v.macros EXCEPT ![n].expands = @ + 1, ![n].inUse = TRUE], v.id, None,
           Deeper(v.frames, n), OnNames(p, v))

Back(v) ==
  Seen(IF Len(v.frames) = 1 THEN v.pos + 1 ELSE v.pos, v.file,
       [v.macros EXCEPT ![Inner(v).m].inUse = FALSE], v.id, None,
       NextLine(v.frames, Len(v.frames) - 1), v.names)

Over(v) == v.frames # <<>> /\ Inner(v).line > Len(v.macros[Inner(v).m].lines)

\* A file is entered, and left.
Entered(p, v) ==
  Seen(v.pos + 1,
       <<IF v.pos + p[v.pos].k < v.file[1] THEN v.pos + p[v.pos].k ELSE v.file[1],
         Append(v.file[2], [last |-> v.file[1], def |-> v.defining])>>,
       v.macros, v.id, None, v.frames, v.names)
Left(v) ==
  Seen(v.file[1] + 1, <<Last(v.file[2]).last, Front(v.file[2])>>, v.macros, v.id,
       Last(v.file[2]).def, v.frames, v.names)

Entering(p, v) == v.frames = <<>> /\ v.pos <= v.file[1] /\ p[v.pos].op = "include"
Leaving(v) == v.frames = <<>> /\ v.defining = None /\ v.pos > v.file[1]

\* The one step that is possible without an error.
Forward(p, v) ==
  IF Entering(p, v) THEN Entered(p, v)
  ELSE IF Leaving(v) THEN Left(v)
  ELSE IF v.defining # None THEN Absorbed(p, v)
  ELSE IF Over(v) THEN Back(v)
  ELSE IF CurIn(p, v).op = "macro" THEN Begun(p, v)
  ELSE IF CurIn(p, v).op = "call" THEN Called(p, v)
  ELSE Plain(p, v)

\* s begins u.
Starts(s, u) ==
  /\ Len(s) \in Nat /\ Len(u) \in Nat /\ Len(s) <= Len(u)
  /\ \A i \in 1 .. Len(s) : s[i] = u[i]

\* What is seen next is the one step from what is seen.
Follows == View' = Forward(program, View)

\* The calls are seen one by one.
LEMMA FramesAre ==
  ASSUME NEW st \in Seq(Frame)
  PROVE  /\ DOMAIN Frames(st) = 1 .. Len(st) /\ Len(Frames(st)) = Len(st) /\ Len(st) \in Nat
         /\ Frames(st) = <<>> <=> st = <<>>
         /\ \A j \in 1 .. Len(st) : Frames(st)[j] = [m |-> st[j].m, line |-> st[j].line]
<1> DEFINE f == Frames(st)
           S == [m : MacroNames, line : Nat \ {0}]
<1>1. DOMAIN st = 1 .. Len(st) /\ Len(st) \in Nat /\ \A j \in 1 .. Len(st) : st[j] \in Frame
  OBVIOUS
<1>2. DOMAIN f = 1 .. Len(st) /\ \A j \in 1 .. Len(st) : f[j] = [m |-> st[j].m, line |-> st[j].line]
  BY <1>1 DEF Frames
<1>3. f \in [1 .. Len(st) -> S]
  <2>1. \A d \in Frame : [m |-> d.m, line |-> d.line] \in S
    BY DEF Frame
  <2>2. f = [j \in 1 .. Len(st) |-> [m |-> st[j].m, line |-> st[j].line]]
    BY <1>1 DEF Frames
  <2> HIDE DEF S, f
  <2> QED BY <1>1, <2>1, <2>2
<1> DEFINE n == Len(st)
<1> HIDE DEF f, S, n
<1>4. f \in Seq(S) /\ Len(f) = n
  <2>1. n \in Nat /\ f \in [1 .. n -> S]
    BY <1>1, <1>3 DEF n
  <2> QED BY <2>1
<1>5. f = <<>> <=> st = <<>>
  BY <1>1, <1>4 DEF n
<1> QED BY <1>1, <1>2, <1>4, <1>5 DEF f, n

\* The view shows the state.
LEMMA SeenIs ==
  ASSUME UsedInv
  PROVE  /\ View.pos = pos /\ View.macros = macros /\ View.id = MacroId
         /\ View.file = file /\ View.file[1] = last /\ View.file[2] = outer
         /\ View.defining = defining /\ View.frames = Frames(stack)
         /\ View.names = Names(given[Pass])
         /\ View.frames # <<>> <=> Expanding
         /\ Len(View.frames) = Len(stack)
         /\ Expanding => Inner(View).m = Top.m /\ Inner(View).line = Top.line
<1>1. /\ View.pos = pos /\ View.macros = macros /\ View.id = MacroId
      /\ View.file = file /\ View.file[1] = last /\ View.file[2] = outer
      /\ View.defining = defining /\ View.frames = Frames(stack)
      /\ View.names = Names(given[Pass])
  BY DEF View, Seen, file
<1>2. stack \in Seq(Frame)
  BY DEF UsedInv, MacroType
<1>3. (View.frames # <<>> <=> Expanding) /\ Len(View.frames) = Len(stack)
  BY <1>1, <1>2, FramesAre DEF Expanding
<1>4. ASSUME Expanding PROVE Inner(View).m = Top.m /\ Inner(View).line = Top.line
  <2>1. Len(stack) \in 1 .. Len(stack)
    BY <1>2, <1>4, TopType
  <2>2. Frames(stack)[Len(stack)] = [m |-> Top.m, line |-> Top.line]
    BY <1>2, <2>1, FramesAre DEF Top
  <2> QED BY <1>1, <1>3, <2>2 DEF Inner
<1> QED BY <1>1, <1>3, <1>4

\* The line that is processed is seen.
LEMMA CurSeen ==
  ASSUME UsedInv, Ready
  PROVE  /\ CurIn(program, View) = Cur /\ ~Over(View) /\ View.defining = None
         /\ ~Leaving(View) /\ (Cur.op # "include" => ~Entering(program, View))
<1>1. CurIn(program, View) = Cur
  BY SeenIs DEF CurIn, Cur, MacroOf
<1>2. ASSUME Expanding PROVE ~(Top.line > Len(macros[Top.m].lines))
  <2>1. Top \in Frame /\ macros[Top.m].lines \in Seq(Kept)
    BY <1>2, TopType DEF UsedInv, MacroType, MacroRec
  <2>2. Len(macros[Top.m].lines) \in Nat /\ Top.line \in Nat
    BY <2>1 DEF Frame
  <2> QED BY <1>2, <2>2 DEF Ready, MacroOf
<1>3. ~Leaving(View)
  <2>1. pos \in Nat /\ last \in Nat
    BY DEF UsedInv, MacroType, FileType
  <2> QED BY <2>1, SeenIs DEF Leaving, Ready
<1>4. Cur.op # "include" => ~Entering(program, View)
  BY SeenIs DEF Entering, Cur
<1> QED BY <1>1, <1>2, <1>3, <1>4, SeenIs DEF Over, Ready

\* Names of a sequence of entries.
LEMMA NamesAre ==
  ASSUME NEW g \in Seq(Entry), NEW e \in Entry
  PROVE  /\ Names(g) \in Seq({d.name : d \in Entry}) /\ Len(Names(g)) = Len(g)
         /\ Names(Append(g, e)) = Append(Names(g), e.name)
         /\ Starts(Names(g), Append(Names(g), e.name))
<1> DEFINE S == {d.name : d \in Entry}
           s == Names(g)
           h == Append(g, e)
           u == Names(h)
<1>1. /\ DOMAIN g = 1 .. Len(g) /\ Len(g) \in Nat /\ h \in Seq(Entry) /\ Len(h) = Len(g) + 1
      /\ DOMAIN h = 1 .. Len(g) + 1 /\ h[Len(g) + 1] = e /\ \A i \in 1 .. Len(g) : h[i] = g[i]
  OBVIOUS
<1>2. s \in [1 .. Len(g) -> S] /\ u \in [1 .. Len(h) -> S]
  BY <1>1 DEF Names
<1>3. s \in Seq(S) /\ u \in Seq(S) /\ Len(s) = Len(g) /\ Len(u) = Len(g) + 1 /\ e.name \in S
  BY <1>1, <1>2
<1>4. (\A i \in 1 .. Len(g) : u[i] = s[i]) /\ u[Len(g) + 1] = e.name
  BY <1>1 DEF Names
<1> HIDE DEF s, u, h, S
<1>5. /\ Append(s, e.name) \in Seq(S) /\ Len(Append(s, e.name)) = Len(g) + 1
      /\ Append(s, e.name)[Len(g) + 1] = e.name
      /\ \A i \in 1 .. Len(g) : Append(s, e.name)[i] = s[i]
  BY <1>3
<1>6. \A i \in 1 .. Len(g) + 1 : u[i] = Append(s, e.name)[i]
  BY <1>1, <1>4, <1>5
<1>7. u = Append(s, e.name)
  BY <1>1, <1>3, <1>5, <1>6, SeqEqual
<1>8. Starts(s, Append(s, e.name))
  BY <1>1, <1>3, <1>5 DEF Starts
<1> QED BY <1>3, <1>7, <1>8 DEF s, u, h, S

\* A call that goes on to its next line is seen to do so.
LEMMA NextLineIs ==
  ASSUME NEW st \in Seq(Frame), NEW k \in 0 .. Len(st), NEW su, DOMAIN su = 1 .. k,
         \A j \in 1 .. k : /\ su[j].m = st[j].m
                           /\ su[j].line = IF j = k THEN st[j].line + 1 ELSE st[j].line
  PROVE  Frames(su) = NextLine(Frames(st), k)
<1>1. \A j \in 1 .. k : Frames(st)[j] = [m |-> st[j].m, line |-> st[j].line]
  BY FramesAre
<1>2. \A j \in 1 .. k : Frames(st)[j].m = st[j].m /\ Frames(st)[j].line = st[j].line
  <2>1. \A a, b : [m |-> a, line |-> b].m = a /\ [m |-> a, line |-> b].line = b
    OBVIOUS
  <2> SUFFICES ASSUME NEW j \in 1 .. k
               PROVE  Frames(st)[j].m = st[j].m /\ Frames(st)[j].line = st[j].line
    OBVIOUS
  <2>2. Frames(st)[j] = [m |-> st[j].m, line |-> st[j].line]
    BY <1>1
  <2> QED BY <2>1, <2>2
<1>3. Frames(su) = [j \in 1 .. k |-> [m |-> su[j].m, line |-> su[j].line]]
  BY DEF Frames
<1>4. NextLine(Frames(st), k) = [j \in 1 .. k |-> IF j = k THEN [m |-> su[k].m, line |-> su[k].line]
                                                 ELSE [m |-> su[j].m, line |-> su[j].line]]
  BY <1>1, <1>2 DEF NextLine
<1> QED BY <1>3, <1>4

\* Only the line of one call changes.
LEMMA TopMoved ==
  ASSUME NEW st \in Seq(Frame), NEW k \in 1 .. Len(st), NEW su,
         su = [st EXCEPT ![k].line = @ + 1]
  PROVE  /\ DOMAIN su = 1 .. Len(st)
         /\ \A j \in 1 .. Len(st) : /\ su[j].m = st[j].m
                                    /\ su[j].line = IF j = k THEN st[j].line + 1 ELSE st[j].line
<1> DEFINE f == [st[k] EXCEPT !.line = @ + 1]
<1>1. st[k] \in Frame /\ DOMAIN st = 1 .. Len(st) /\ su = [st EXCEPT ![k] = f]
  OBVIOUS
<1>2. f.m = st[k].m /\ f.line = st[k].line + 1
  BY <1>1 DEF Frame
<1> HIDE DEF f
<1> QED BY <1>1, <1>2

\* Advance, as it is seen.
LEMMA AdvanceSeen ==
  ASSUME UsedInv, Advance
  PROVE  pos' = OnPos(View) /\ Frames(stack') = OnFrames(View)
<1>1. stack \in Seq(Frame)
  BY DEF UsedInv, MacroType
<1>2. CASE Expanding
  <2>1. Len(stack) \in 1 .. Len(stack) /\ Len(stack) \in 0 .. Len(stack)
    BY <1>1, <1>2, TopType
  <2>2. stack' = [stack EXCEPT ![Len(stack)].line = @ + 1] /\ pos' = pos
    BY <1>2 DEF Advance
  <2> DEFINE k == Len(stack)
  <2>3. /\ DOMAIN stack' = 1 .. k
        /\ \A j \in 1 .. k : /\ stack'[j].m = stack[j].m
                             /\ stack'[j].line = IF j = k THEN stack[j].line + 1 ELSE stack[j].line
    BY <1>1, <2>1, <2>2, TopMoved
  <2>4. k \in 0 .. Len(stack)
    BY <2>1
  <2> HIDE DEF k
  <2>5. Frames(stack') = NextLine(Frames(stack), k)
    BY <1>1, <2>3, <2>4, NextLineIs
  <2>6. OnFrames(View) = NextLine(Frames(stack), k)
    BY <1>2, SeenIs DEF OnFrames, k
  <2> QED BY <1>2, <2>2, <2>5, <2>6, SeenIs DEF OnPos
<1>3. CASE ~Expanding
  BY <1>3, SeenIs DEF Advance, NextPos, OnPos, OnFrames
<1> QED BY <1>2, <1>3

\* The names begin themselves.
LEMMA StartsItself ==
  ASSUME NEW g \in Seq(Entry)
  PROVE  Len(Names(g)) = Len(g) /\ Starts(Names(g), Names(g))
<1>1. CASE g = <<>>
  BY <1>1 DEF Names, Starts
<1>2. CASE g # <<>>
  <2>1. PICK e \in Entry : e = g[1]
    BY <1>2
  <2>2. Len(Names(g)) = Len(g)
    BY <2>1, NamesAre
  <2>3. Len(g) \in Nat
    OBVIOUS
  <2> QED BY <2>2, <2>3 DEF Starts
<1> QED BY <1>1, <1>2

\* Both passes call a label the same.
LEMMA LabelledSeen ==
  ASSUME UsedInv, NamesInv, Ready, Labelled, Pass' = Pass
  PROVE  /\ Names(given'[Pass']) = OnNames(program, View)
         /\ Starts(View.names, Names(given'[Pass']))
<1> DEFINE g == given[Pass]
<1>1. /\ CurIn(program, View) = Cur /\ View.names = Names(g) /\ g \in Seq(Entry)
      /\ Pass \in 1 .. 2 /\ given \in [1 .. 2 -> Seq(Entry)]
  BY SeenIs, CurSeen DEF NamesInv
<1>2. CASE Cur.lab = None
  <2>1. given'[Pass'] = g
    BY <1>2 DEF Labelled
  <2>2. Starts(Names(g), Names(g))
    BY <1>1, StartsItself
  <2> QED BY <1>1, <1>2, <2>1, <2>2 DEF OnNames
<1>3. CASE Cur.lab # None
  <2> DEFINE text == LabelText(Cur.lab)
             e == [name |-> text, call |-> IF Expanding THEN Top.call ELSE 0]
  <2>1. given'[Pass'] = Append(g, e)
    BY <1>1, <1>3 DEF Labelled
  <2>2. Cur.lab \in LabelNames
    BY <1>3, CurType DEF Stmt
  <2>3. \/ text = <<Cur.lab>>
        \/ /\ text = <<Cur.lab, macros[Top.m].id, macros[Top.m].expands>>
           /\ macros[Top.m].id \in Nat /\ macros[Top.m].expands \in Nat
    BY <2>2, TextIs
  <2>4. Expanding => Top.call \in Nat
    BY TopType DEF Frame
  <2>5. e \in Entry /\ e.name = text
    BY <2>2, <2>3, <2>4 DEF Entry
  <2>6. text = NameIn(View, Cur.lab)
    BY SeenIs DEF LabelText, NameIn, MacroOf
  <2> HIDE DEF text, e, g
  <2>7. Names(given'[Pass']) = Append(Names(g), text) /\ Starts(Names(g), Append(Names(g), text))
    BY <1>1, <2>1, <2>5, NamesAre
  <2> QED BY <1>1, <1>3, <2>6, <2>7 DEF OnNames
<1> QED BY <1>2, <1>3

\* What the next state shows.
LEMMA ViewNext ==
  View' = Seen(pos', file', macros', MacroId', defining', Frames(stack'), Names(given'[Pass']))
BY DEF View, Seen, Frames, Names

\* A step is seen, and takes no name back.
Shows == Follows /\ Starts(View.names, View'.names)

\* Lines of the source or of an expansion that define and call nothing.
LEMMA PlainSeen ==
  ASSUME UsedInv, NamesInv, Ready, Labelled, LineDone, Cur.op \notin {"macro", "call", "include"},
         UNCHANGED <<macros, MacroId, defining>>
  PROVE  Shows
<1>1. Advance /\ Pass' = Pass /\ defining' = None /\ file' = file
  BY DEF LineDone, Ready
<1>2. Forward(program, View) = Plain(program, View)
  BY CurSeen DEF Forward
<1>3. View'.names = Names(given'[Pass'])
  BY ViewNext DEF Seen
<1>4. Follows
  BY <1>1, <1>2, AdvanceSeen, LabelledSeen, SeenIs, ViewNext DEF Plain, Follows
<1> QED BY <1>1, <1>3, <1>4, LabelledSeen DEF Shows

\* A definition begins.
LEMMA BegunSeen ==
  ASSUME UsedInv, NamesInv, MacroEnter, Cur.n \notin DOMAIN macros
  PROVE  Shows
<1>1. /\ Advance /\ Pass' = Pass /\ file' = file /\ Ready /\ Labelled /\ Cur.op = "macro"
      /\ macros' = [k \in DOMAIN macros \union {Cur.n} |->
                      IF k = Cur.n THEN NewMacro ELSE macros[k]]
      /\ MacroId' = MacroId + 1 /\ defining' = Cur.n
  BY DEF MacroEnter, LineDone
<1>2. Forward(program, View) = Begun(program, View)
  BY <1>1, CurSeen DEF Forward
<1>3. View'.names = Names(given'[Pass'])
  BY ViewNext DEF Seen
<1>4. NewMacro = Fresh(MacroId)
  BY DEF NewMacro, Fresh
<1>5. CurIn(program, View).n = Cur.n
  BY <1>1, CurSeen
<1>6. macros' = [k \in DOMAIN View.macros \union {Cur.n} |->
                   IF k = Cur.n THEN Fresh(View.id) ELSE View.macros[k]]
  BY <1>1, <1>4, SeenIs
<1>7. Begun(program, View)
        = Seen(OnPos(View), file', macros', View.id + 1, Cur.n, OnFrames(View), OnNames(program, View))
  BY <1>1, <1>5, <1>6, SeenIs DEF Begun
<1>8. Follows
  BY <1>1, <1>2, <1>7, AdvanceSeen, LabelledSeen, SeenIs, ViewNext DEF Follows
<1> QED BY <1>1, <1>3, <1>8, LabelledSeen DEF Shows

\* An expansion begins.
LEMMA CalledSeen ==
  ASSUME UsedInv, NamesInv, Call, Callable(Cur.n, Cur.k)
  PROVE  Shows
<1> DEFINE f == [m |-> Cur.n, line |-> 1, call |-> calls + 1]
<1>1. /\ Pass' = Pass /\ file' = file /\ Ready /\ Labelled /\ Cur.op = "call"
      /\ macros' = [macros EXCEPT ![Cur.n].expands = @ + 1, ![Cur.n].inUse = TRUE]
      /\ pos' = pos /\ MacroId' = MacroId /\ defining' = None /\ stack' = Append(stack, f)
  BY DEF Call, Ready
<1>2. Forward(program, View) = Called(program, View)
  BY <1>1, CurSeen DEF Forward
<1>3. View'.names = Names(given'[Pass'])
  BY ViewNext DEF Seen
<1>4. CurIn(program, View).n = Cur.n
  BY <1>1, CurSeen
<1>5. Frames(stack') = Deeper(View.frames, Cur.n)
  <2>1. /\ stack \in Seq(Frame) /\ Len(stack) \in Nat /\ DOMAIN stack = 1 .. Len(stack)
        /\ Len(View.frames) = Len(stack) /\ View.frames = Frames(stack)
        /\ \A j \in 1 .. Len(stack) : Frames(stack)[j] = [m |-> stack[j].m, line |-> stack[j].line]
    BY SeenIs, FramesAre DEF UsedInv, MacroType
  <2>2. f.m = Cur.n /\ f.line = 1
    OBVIOUS
  <2> HIDE DEF f
  <2>3. /\ DOMAIN stack' = 1 .. Len(stack) + 1 /\ stack'[Len(stack) + 1] = f
        /\ \A j \in 1 .. Len(stack) : stack'[j] = stack[j]
    BY <1>1, <2>1
  <2>4. Frames(stack') = [j \in 1 .. Len(stack) + 1 |->
                            [m |-> stack'[j].m, line |-> stack'[j].line]]
    BY <2>3 DEF Frames
  <2>5. \A j \in 1 .. Len(stack) + 1 :
          (IF j = Len(stack) + 1 THEN [m |-> Cur.n, line |-> 1] ELSE View.frames[j])
            = [m |-> stack'[j].m, line |-> stack'[j].line]
    BY <2>1, <2>2, <2>3
  <2>6. Deeper(View.frames, Cur.n) = [j \in 1 .. Len(stack) + 1 |->
          IF j = Len(stack) + 1 THEN [m |-> Cur.n, line |-> 1] ELSE View.frames[j]]
    BY <2>1 DEF Deeper
  <2> QED BY <2>4, <2>5, <2>6
<1>6. Called(program, View)
        = Seen(pos', file', macros', MacroId', None, Frames(stack'), OnNames(program, View))
  BY <1>1, <1>4, <1>5, SeenIs DEF Called
<1>7. Follows
  BY <1>1, <1>2, <1>6, LabelledSeen, ViewNext DEF Follows
<1> QED BY <1>1, <1>3, <1>7, LabelledSeen DEF Shows

\* The innermost expansion ends.
LEMMA BackSeen ==
  ASSUME UsedInv, NamesInv, Return
  PROVE  Shows
<1>1. /\ Pass' = Pass /\ file' = file /\ Expanding
      /\ macros' = [macros EXCEPT ![Top.m].inUse = FALSE]
      /\ MacroId' = MacroId /\ defining' = None /\ given' = given /\ defining = None
      /\ Top.line > Len(macros[Top.m].lines)
  BY DEF Return, MacroOf, UsedInv, Expanding
<1>2. /\ stack \in Seq(Frame) /\ Len(stack) \in Nat \ {0} /\ DOMAIN stack = 1 .. Len(stack)
  BY <1>1 DEF UsedInv, MacroType, Expanding
<1>3. Forward(program, View) = Back(View)
  BY <1>1, SeenIs DEF Forward, Over, Entering, Leaving
<1>4. Frames(stack') = NextLine(Frames(stack), Len(stack) - 1)
  <2>1. CASE Len(stack) = 1
    <3>1. stack' = <<>> /\ Len(stack) - 1 = 0 /\ 1 .. 0 = {}
      BY <2>1 DEF Return
    <3>2. DOMAIN stack' = 1 .. 0 /\ 0 \in 0 .. Len(stack) /\ \A j \in 1 .. 0 : FALSE
      BY <1>2, <3>1
    <3>3. Frames(stack') = NextLine(Frames(stack), 0)
      BY <1>2, <3>2, NextLineIs
    <3> QED BY <3>1, <3>3
  <2>2. CASE Len(stack) # 1
    <3> DEFINE g == Front(stack)
               k == Len(stack) - 1
    <3>1. stack' = [g EXCEPT ![k].line = @ + 1]
      BY <2>2 DEF Return
    <3>2. g \in Seq(Frame) /\ Len(g) = k /\ k \in Nat \ {0} /\ \A i \in 1 .. k : g[i] = stack[i]
      BY <1>2, <2>2 DEF Front
    <3> HIDE DEF g
    <3>3. /\ DOMAIN stack' = 1 .. k
          /\ \A j \in 1 .. k : /\ stack'[j].m = g[j].m
                               /\ stack'[j].line = IF j = k THEN g[j].line + 1 ELSE g[j].line
      BY <3>1, <3>2, TopMoved
    <3>4. \A j \in 1 .. k : /\ stack'[j].m = stack[j].m
                            /\ stack'[j].line = IF j = k THEN stack[j].line + 1 ELSE stack[j].line
      BY <3>2, <3>3
    <3>5. k \in 0 .. Len(stack)
      BY <1>2
    <3> HIDE DEF k
    <3>6. Frames(stack') = NextLine(Frames(stack), k)
      BY <1>2, <3>3, <3>4, <3>5, NextLineIs
    <3> QED BY <3>6 DEF k
  <2> QED BY <2>1, <2>2
<1>5. pos' = IF Len(stack) = 1 THEN pos + 1 ELSE pos
  BY DEF Return, NextPos
<1>6. View'.names = Names(given'[Pass']) /\ View.names = Names(given[Pass])
  BY ViewNext, SeenIs DEF Seen
<1>7. Back(View) = Seen(pos', file', macros', MacroId', None, Frames(stack'), Names(given[Pass]))
  BY <1>1, <1>4, <1>5, SeenIs DEF Back
<1>8. given'[Pass'] = given[Pass]
  BY <1>1
<1>9. Follows
  BY <1>1, <1>3, <1>7, <1>8, ViewNext DEF Follows
<1>10. given[Pass] \in Seq(Entry)
  BY DEF NamesInv
<1> QED BY <1>6, <1>8, <1>9, <1>10, StartsItself DEF Shows

\* One line of a definition.
LEMMA KeptSeen ==
  ASSUME UsedInv, NamesInv, MacroLine, program[pos].op # "bad"
  PROVE  Shows
<1> DEFINE line == program[pos]
<1>1. /\ Pass' = Pass /\ defining # None /\ pos' = pos + 1 /\ given' = given /\ stack' = stack
      /\ file' = file /\ line.op # "include"
      /\ macros' = [macros EXCEPT ![defining] =
                      Absorb(AddLabel(macros[defining], line.lab).m, line).m]
      /\ MacroId' = MacroId /\ defining' = IF line.op = "endm" THEN None ELSE defining
  BY DEF MacroLine, MacroOf, NextPos
<1>2. Forward(program, View) = Absorbed(program, View)
  BY <1>1, SeenIs DEF Forward, Entering, Leaving
<1>3. View'.names = Names(given'[Pass']) /\ View.names = Names(given[Pass])
  BY ViewNext, SeenIs DEF Seen
<1>4. Absorbed(program, View)
        = Seen(pos', file', macros', MacroId', defining', Frames(stack), Names(given[Pass]))
  BY <1>1, SeenIs DEF Absorbed
<1>5. given'[Pass'] = given[Pass] /\ given[Pass] \in Seq(Entry)
  BY <1>1 DEF NamesInv
<1>6. Follows
  BY <1>1, <1>2, <1>4, <1>5, ViewNext DEF Follows
<1> QED BY <1>3, <1>5, <1>6, StartsItself DEF Shows

\* A file is included, in a definition or not.
LEMMA EnteredSeen ==
  ASSUME UsedInv, NamesInv, Include
  PROVE  Shows
<1> DEFINE line == program[pos]
<1>1. /\ Pass' = Pass /\ stack = <<>> /\ pos <= last /\ line.op = "include" /\ defining' = None
      /\ outer' = Append(outer, [last |-> last, def |-> defining])
      /\ last' = IF pos + line.k < last THEN pos + line.k ELSE last
      /\ pos' = pos + 1 /\ UNCHANGED <<macros, MacroId, stack, given>>
  BY DEF Include, HasLine, NextPos
<1>2. Forward(program, View) = Entered(program, View)
  BY <1>1, SeenIs DEF Forward, Entering, Expanding
<1>3. View'.names = Names(given'[Pass']) /\ View.names = Names(given[Pass])
  BY ViewNext, SeenIs DEF Seen
<1>4. file' = <<last', outer'>>
  BY DEF file
<1>5. Entered(program, View)
        = Seen(pos', file', macros', MacroId', defining', Frames(stack), Names(given[Pass]))
  BY <1>1, <1>4, SeenIs DEF Entered
<1>6. given'[Pass'] = given[Pass] /\ given[Pass] \in Seq(Entry)
  BY <1>1 DEF NamesInv
<1>7. Follows
  BY <1>1, <1>2, <1>5, <1>6, ViewNext DEF Follows
<1> QED BY <1>3, <1>6, <1>7, StartsItself DEF Shows

\* The includer goes on.
LEMMA LeftSeen ==
  ASSUME UsedInv, NamesInv, IncludeEnds, ~GivenUp
  PROVE  Shows
<1>1. /\ Pass' = Pass /\ stack = <<>> /\ pos > last /\ defining = None
      /\ outer' = Front(outer) /\ last' = Last(outer).last /\ defining' = Last(outer).def
      /\ pos' = last + 1 /\ UNCHANGED <<macros, MacroId, stack, given>>
  BY DEF IncludeEnds, FileOver
<1>2. pos \in Nat /\ last \in Nat
  BY DEF UsedInv, MacroType, FileType
<1>3. Forward(program, View) = Left(View)
  BY <1>1, <1>2, SeenIs DEF Forward, Entering, Leaving, Expanding
<1>4. View'.names = Names(given'[Pass']) /\ View.names = Names(given[Pass])
  BY ViewNext, SeenIs DEF Seen
<1>5. file' = <<last', outer'>>
  BY DEF file
<1>6. Left(View) = Seen(pos', file', macros', MacroId', defining', Frames(stack), Names(given[Pass]))
  BY <1>1, <1>5, SeenIs DEF Left
<1>7. given'[Pass'] = given[Pass] /\ given[Pass] \in Seq(Entry)
  BY <1>1 DEF NamesInv
<1>8. Follows
  BY <1>1, <1>3, <1>6, <1>7, ViewNext DEF Follows
<1> QED BY <1>4, <1>7, <1>8, StartsItself DEF Shows

\* Every step without an error, in either pass, is the one the view tells.
LEMMA NoErrorShows ==
  ASSUME UsedInv, NamesInv, Errors = 0, Errors' = 0, Next, ~EndPass
  PROVE  /\ Shows /\ InPass /\ program' = program
         /\ \A p \in 1 .. 2 : p # Pass => given'[p] = given[p]
<1>1. ~LineFails /\ ~DefinitionFails
  BY FailsCount, GivenUpCounts
<1>2. CASE Code
  <2>1. Ready /\ Labelled /\ LineDone /\ Cur.op \notin {"macro", "call", "include"}
        /\ UNCHANGED <<macros, MacroId, defining>>
    BY <1>1, <1>2 DEF Code
  <2>2. Fits
    BY <2>1, LabelledFits
  <2> QED BY <2>1, <2>2, PlainSeen DEF Fits, InPass, Ready, LineDone
<1>3. CASE BadLine
  BY <1>3 DEF BadLine
<1>4. CASE Outside
  BY <1>1, <1>4 DEF Outside
<1>5. CASE MacroEnter
  <2>1. Cur.n \notin DOMAIN macros /\ Ready /\ Labelled /\ LineDone
    BY <1>1, <1>5 DEF MacroEnter
  <2>2. Fits
    BY <2>1, LabelledFits
  <2> QED BY <1>5, <2>1, <2>2, BegunSeen DEF Fits, InPass, Ready, LineDone
<1>6. CASE MacroLine
  <2>1. program[pos].op # "bad"
    BY <1>6 DEF MacroLine
  <2> QED BY <1>6, <2>1, KeptSeen DEF MacroLine, HasLine, InPass
<1>7. CASE Call
  <2>1. Callable(Cur.n, Cur.k) /\ Ready /\ Labelled
    BY <1>1, <1>7 DEF Call
  <2>2. Fits
    BY <2>1, LabelledFits
  <2> QED BY <1>7, <2>1, <2>2, CalledSeen DEF Fits, InPass, Ready, Call
<1>8. CASE Return
  BY <1>8, BackSeen DEF Return, InPass
<1>9. CASE Include
  BY <1>9, EnteredSeen DEF Include, HasLine, InPass
<1>10. CASE IncludeEnds
  <2>1. ~GivenUp
    BY MacroAssumption DEF GivenUp
  <2> QED BY <1>10, <2>1, LeftSeen DEF IncludeEnds, FileOver, InPass
<1>11. CASE LongLine
  BY <1>11 DEF LongLine
<1> QED BY <1>1, <1>2, <1>3, <1>4, <1>5, <1>6, <1>7, <1>8, <1>9, <1>10, <1>11 DEF Next

\* The states t[0] to t[n] of a pass without errors.
Run(p, t, n) ==
  /\ t[0] = Start(p)
  /\ \A i \in 0 .. n - 1 : t[i + 1] = Forward(p, t[i])
  /\ \A i \in 0 .. n : Starts(t[i].names, t[n].names)

Finished(v) ==
  v.frames = <<>> /\ v.defining = None /\ v.pos > v.file[1] /\ v.file[2] = <<>>

\* The second pass is in a state the first was in; once the first has ended,
\* nothing can follow its last state.
Where(t, n) ==
  \/ phase = "pass" /\ Pass = 1 /\ View = t[n]
  \/ /\ phase = "pass" /\ Pass = 2 /\ Finished(t[n]) /\ Names(given[1]) = t[n].names
     /\ \E k \in 0 .. n : View = t[k]
  \/ phase = "done" /\ Starts(Names(given[2]), Names(given[1]))

\* Without errors, both passes take the same steps.
SameInv ==
  /\ Errors \in Nat /\ phase \in {"pass", "done"}
  /\ Errors = 0 => \E n \in Nat : \E t : Run(program, t, n) /\ Where(t, n)

LEMMA SameInit == Init => SameInv
<1> SUFFICES ASSUME Init PROVE SameInv
  OBVIOUS
<1> DEFINE t == [i \in {0} |-> View]
<1>1. View = Start(program)
  <2>1. given[Pass] = <<>>
    BY DEF Init
  <2> QED BY <2>1 DEF Init, View, Start, file
<1>2. <<>> \in Seq(Entry)
  OBVIOUS
<1>3. View.names = Names(<<>>)
  BY <1>1 DEF Start, Seen
<1>4. Starts(View.names, View.names)
  BY <1>2, <1>3, StartsItself
<1>5. t[0] = View
  OBVIOUS
<1> HIDE DEF t
<1>6. Run(program, t, 0)
  BY <1>1, <1>4, <1>5 DEF Run
<1>7. Where(t, 0)
  BY <1>5 DEF Where, Init
<1>8. \E n \in Nat : \E u : Run(program, u, n) /\ Where(u, n)
  BY <1>6, <1>7
<1> QED BY <1>8 DEF Init, SameInv

\* What begins a beginning is a beginning.
LEMMA Further ==
  ASSUME NEW s, NEW u, NEW w, Starts(s, u), Starts(u, w)
  PROVE  Starts(s, w)
BY DEF Starts

\* Nothing but the end of the pass is possible at its end.
LEMMA FinishedEnds ==
  ASSUME UsedInv, Next, Finished(View), phase = "pass"
  PROVE  EndPass
<1>1. stack = <<>> /\ defining = None /\ pos > last /\ outer = <<>>
  BY SeenIs DEF Finished, Expanding
<1>2. last \in Nat /\ pos \in Nat
  BY DEF UsedInv, MacroType, FileType
<1>3. ~Ready /\ ~HasLine
  BY <1>1, <1>2 DEF Ready, HasLine, Expanding
<1> QED BY <1>1, <1>3 DEF Next, Code, BadLine, Outside, MacroEnter, MacroLine, DefinitionFails,
                         Abandon, Call, Return, Include, IncludeEnds, LongLine, Expanding

LEMMA SameNext == UsedInv /\ NamesInv /\ SameInv /\ [Next]_vars => SameInv'
<1> SUFFICES ASSUME UsedInv, NamesInv, SameInv, [Next]_vars PROVE SameInv'
  OBVIOUS
<1>1. Errors' \in Nat /\ Errors' >= Errors /\ Errors \in Nat
  BY ErrorsStay DEF SameInv
<1>2. phase' \in {"pass", "done"}
  BY DEF SameInv, Next, Code, LineFails, LineDone, BadLine, Outside, MacroEnter, MacroLine,
         DefinitionFails, Abandon, Call, Return, Include, IncludeEnds, LongLine, EndPass, vars
<1>3. ASSUME Errors' = 0 PROVE \E n \in Nat : \E t : Run(program', t, n) /\ Where(t, n)'
  <2>1. Errors = 0
    BY <1>1, <1>3
  <2>2. PICK n \in Nat : \E t : Run(program, t, n) /\ Where(t, n)
    BY <2>1 DEF SameInv
  <2>3. PICK t : Run(program, t, n) /\ Where(t, n)
    BY <2>2
  <2>4. CASE UNCHANGED vars
    <3>1. Where(t, n)' /\ program' = program
      <4>1. View' = View
        BY <2>4 DEF vars, mem, file, View, Seen, Frames, Names
      <4> QED BY <2>3, <2>4, <4>1 DEF vars, mem, Where
    <3> QED BY <2>3, <3>1
  <2>5. CASE Next /\ ~EndPass
    <3>1. /\ Shows /\ InPass /\ program' = program /\ Pass \in 1 .. 2
          /\ \A p \in 1 .. 2 : p # Pass => given'[p] = given[p]
      BY <1>3, <2>1, <2>5, NoErrorShows DEF NamesInv
    <3>2. CASE Pass = 1
      <4>1. View = t[n]
        BY <2>3, <3>1, <3>2 DEF Where, InPass
      <4>2. PICK u : u[n + 1] = View' /\ \A i \in 0 .. n : u[i] = t[i]
        <5> DEFINE w == [i \in 0 .. n + 1 |-> IF i = n + 1 THEN View' ELSE t[i]]
        <5>1. w[n + 1] = View' /\ \A i \in 0 .. n : w[i] = t[i]
          OBVIOUS
        <5> HIDE DEF w
        <5> QED BY <5>1
      <4>3. Starts(View'.names, View'.names)
        BY <3>1 DEF Shows, Starts
      <4>4. Run(program', u, n + 1)
        <5>1. u[0] = Start(program)
          BY <2>3, <4>2 DEF Run
        <5>2. ASSUME NEW i \in 0 .. n PROVE u[i + 1] = Forward(program, u[i])
          <6>1. CASE i = n
            BY <3>1, <4>1, <4>2, <6>1 DEF Shows, Follows
          <6>2. CASE i # n
            <7>1. i \in 0 .. n - 1 /\ i + 1 \in 0 .. n
              BY <6>2
            <7> QED BY <2>3, <4>2, <7>1 DEF Run
          <6> QED BY <6>1, <6>2
        <5>3. ASSUME NEW i \in 0 .. n + 1 PROVE Starts(u[i].names, u[n + 1].names)
          <6>1. CASE i = n + 1
            BY <4>2, <4>3, <6>1
          <6>2. CASE i # n + 1
            <7>1. i \in 0 .. n /\ u[i] = t[i]
              BY <4>2, <6>2
            <7>2. Starts(u[i].names, t[n].names)
              BY <2>3, <7>1 DEF Run
            <7> QED BY <3>1, <4>1, <4>2, <7>2, Further DEF Shows
          <6> QED BY <6>1, <6>2
        <5>4. 0 .. (n + 1) - 1 = 0 .. n
          OBVIOUS
        <5> QED BY <3>1, <5>1, <5>2, <5>3, <5>4 DEF Run
      <4>5. Where(u, n + 1)'
        BY <3>1, <3>2, <4>2 DEF Where, InPass
      <4> QED BY <4>4, <4>5
    <3>3. CASE Pass = 2
      <4>1. /\ Finished(t[n]) /\ Names(given[1]) = t[n].names
            /\ \E k \in 0 .. n : View = t[k]
        BY <2>3, <3>1, <3>3 DEF Where, InPass
      <4>2. PICK k \in 0 .. n : View = t[k]
        BY <4>1
      <4>3. k # n
        BY <2>5, <3>1, <4>1, <4>2, FinishedEnds DEF InPass
      <4>4. k \in 0 .. n - 1 /\ k + 1 \in 0 .. n
        BY <4>3
      <4>5. View' = t[k + 1]
        BY <2>3, <3>1, <4>2, <4>4 DEF Run, Shows, Follows
      <4>6. given'[1] = given[1]
        BY <3>1, <3>3
      <4>7. Where(t, n)'
        BY <3>1, <3>3, <4>1, <4>4, <4>5, <4>6 DEF Where, InPass
      <4> QED BY <2>3, <3>1, <4>7
    <3> QED BY <3>1, <3>2, <3>3
  <2>6. CASE EndPass
    <3>1. /\ phase = "pass" /\ stack = <<>> /\ program' = program /\ given' = given
          /\ defining' = None /\ stack' = <<>> /\ macros' = NoMacros /\ MacroId' = 0
          /\ Pass \in 1 .. 2
      BY <2>6 DEF EndPass, FileOver, MacroCleanup, NamesInv
    <3>2. ~GivenUp
      BY <2>1, MacroAssumption DEF GivenUp
    <3>3. /\ defining = None /\ pos > last /\ outer = <<>>
          /\ file' = file /\ file = <<Len(program), <<>>>>
      BY <2>6, <3>2 DEF EndPass, FileOver, UsedInv, MacroType, FileType, file
    <3>4. CASE Pass = 1
      <4>1. Pass' = 2 /\ pos' = 1 /\ phase' = "pass"
        BY <1>3, <2>6, <3>1, <3>4 DEF EndPass
      <4>2. given'[2] = <<>>
        BY <3>1, <3>4 DEF NamesInv
      <4>3. View' = Start(program)
        BY <3>1, <3>3, <4>1, <4>2, ViewNext DEF Start
      <4>4. View = t[n]
        BY <2>3, <3>1, <3>4 DEF Where
      <4>5. Finished(t[n]) /\ Names(given[1]) = t[n].names
        BY <3>1, <3>3, <3>4, <4>4, SeenIs DEF Finished, Expanding
      <4>6. View' = t[0] /\ 0 \in 0 .. n
        BY <2>3, <4>3 DEF Run
      <4>7. Where(t, n)'
        BY <3>1, <4>1, <4>5, <4>6 DEF Where
      <4> QED BY <2>3, <3>1, <4>7
    <3>5. CASE Pass = 2
      <4>1. phase' = "done"
        BY <2>6, <3>5 DEF EndPass
      <4>2. PICK k \in 0 .. n : View = t[k]
        BY <2>3, <3>1, <3>5 DEF Where
      <4>3. Names(given[1]) = t[n].names
        BY <2>3, <3>1, <3>5 DEF Where
      <4>4. Starts(Names(given[2]), Names(given[1]))
        BY <2>3, <3>5, <4>2, <4>3, SeenIs DEF Run
      <4>5. Where(t, n)'
        BY <3>1, <4>1, <4>4 DEF Where
      <4> QED BY <2>3, <3>1, <4>5
    <3> QED BY <3>1, <3>4, <3>5
  <2> QED BY <2>4, <2>5, <2>6
<1> QED BY <1>1, <1>2, <1>3 DEF SameInv

\* IsPrefix, by the names.
LEMMA StartsIsPrefix ==
  ASSUME NEW g \in Seq(Entry), NEW h \in Seq(Entry), Starts(Names(g), Names(h))
  PROVE  IsPrefix(Names(g), Names(h))
<1> DEFINE s == Names(g)
           u == Names(h)
           S == {d.name : d \in Entry}
<1>1. s \in Seq(S) /\ u \in Seq(S)
  <2>1. s \in [1 .. Len(g) -> S] /\ u \in [1 .. Len(h) -> S] /\ Len(g) \in Nat /\ Len(h) \in Nat
    BY DEF Names
  <2> HIDE DEF s, u, S
  <2> QED BY <2>1
<1>2. Starts(s, u)
  OBVIOUS
<1> HIDE DEF s, u, S
<1>3. SubSeq(s, 1, Len(s)) = [i \in 1 .. Len(s) |-> s[i]]
  BY <1>1, <1>2 DEF Starts
<1>4. SubSeq(u, 1, Len(s)) = [i \in 1 .. Len(s) |-> u[i]]
  BY <1>1, <1>2 DEF Starts
<1>5. IsPrefix(s, u)
  BY <1>2, <1>3, <1>4 DEF Starts, IsPrefix
<1> QED BY <1>5 DEF s, u

LEMMA NamesLocal == NamesInv /\ SameInv => LocalLabels
<1> SUFFICES ASSUME NamesInv, SameInv PROVE LocalLabels
  OBVIOUS
<1>1. ASSUME NEW p \in 1 .. 2, NEW i \in DOMAIN given[p], NEW j \in DOMAIN given[p],
             given[p][i].call # given[p][j].call, given[p][i].name = given[p][j].name
      PROVE  Len(given[p][i].name) = 1
  BY <1>1 DEF NamesInv, OneCall, Renamed
<1>2. ASSUME Errors = 0 PROVE IsPrefix(Names(given[2]), Names(given[1]))
  <2>1. PICK n \in Nat : \E t : Run(program, t, n) /\ Where(t, n)
    BY <1>2 DEF SameInv
  <2>2. PICK t : Run(program, t, n) /\ Where(t, n)
    BY <2>1
  <2>3. /\ given[1] \in Seq(Entry) /\ given[2] \in Seq(Entry)
        /\ phase \in {"pass", "done"} /\ Pass \in 1 .. 2
    BY DEF NamesInv, SameInv
  <2>4. CASE phase = "pass" /\ Pass = 1
    <3>1. Names(given[2]) = <<>> /\ Len(Names(given[1])) \in Nat
      BY <2>3, <2>4, StartsItself DEF NamesInv, Names
    <3>2. Starts(Names(given[2]), Names(given[1]))
      BY <3>1 DEF Starts
    <3> QED BY <2>3, <3>2, StartsIsPrefix
  <2>5. CASE phase = "pass" /\ Pass = 2
    <3>1. PICK k \in 0 .. n : View = t[k]
      BY <2>2, <2>5 DEF Where
    <3>2. Names(given[1]) = t[n].names /\ t[k].names = Names(given[2])
      BY <2>2, <2>5, <3>1 DEF Where, View, Seen
    <3>3. Starts(Names(given[2]), Names(given[1]))
      BY <2>2, <3>2 DEF Run
    <3> QED BY <2>3, <3>3, StartsIsPrefix
  <2>6. CASE phase = "done"
    BY <2>2, <2>3, <2>6, StartsIsPrefix DEF Where
  <2> QED BY <2>3, <2>4, <2>5, <2>6
<1> QED BY <1>1, <1>2 DEF LocalLabels, Names

\* Two expansions never give the same name to their labels, and the second pass
\* gives the names of the first, in their order (pasmmacro.c:289, 331-336): a name
\* has the Id and count of its expansion, and without errors the second pass goes
\* through the states of the first.
THEOREM LabelsAreLocal == Spec => []LocalLabels
BY UsedInit, UsedNext, NamesInit, NamesNext, SameInit, SameNext, NamesLocal, PTL DEF Spec
=============================================================================
