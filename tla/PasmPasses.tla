------------------------------ MODULE PasmPasses ------------------------------
(***************************************************************************)
(* The two-pass engine of the assembler: main's pass loop, ProcessSource-  *)
(* File, ProcessSourceLine, the directives that move or read the code      *)
(* offset, GenOp, and the decision whether to write an image.  One action  *)
(* is one statement of the source program, processed to the end.           *)
(***************************************************************************)
EXTENDS PasmProgram

CONSTANTS
  Programs,      \* the source programs assembled
  MAX_ERRORS     \* ProcessSourceFile gives up at this many errors (25)

ASSUME PassesAssumption ==
  /\ Programs \subseteq Seq(Stmt)
  /\ MAX_ERRORS \in Nat \ {0}

VARIABLES
  program,         \* the source text; never changes
  phase,           \* "between" passes, inside the "file", or "done"
  Pass, pos,       \* pass number and the next statement
  CodeOffset, CodeOffsetPass1, EntryPoint, HaveEntry,
  Errors, FatalError,
  labels,          \* pLabelList: kept from pass 1 to pass 2
  RetReg, RetSet,  \* RetRegValue and OPTION_RETREGSET: set once per run
  image,           \* ProgramImage: cleared once, not per pass
  written,         \* the image, labels and entry point went to the output files
  at,              \* history: at[p][i] is CodeOffset before statement i in pass p
  fresh            \* history: image words emitted in the current pass

engine == <<CodeOffset, EntryPoint, HaveEntry, labels, RetReg, RetSet, image, fresh>>
control == <<program, phase, Pass, pos, CodeOffsetPass1, written>>
vars == <<engine, control, Errors, FatalError, at>>

Addrs == 0 .. MAX_PROGRAM - 1

ControlOK ==
  /\ program \in Programs
  /\ phase \in {"between", "file", "done"}
  /\ Pass \in 0 .. 2 /\ (phase = "file" => Pass # 0)
  /\ pos \in 1 .. Len(program) + 1
  /\ CodeOffsetPass1 \in Int
  /\ written \in BOOLEAN
  /\ at \in [1 .. 2 -> [1 .. Len(program) + 1 -> Int]]

EngineOK ==
  /\ CodeOffset \in Int /\ CodeOffset >= NoOffset
  /\ EntryPoint \in Int /\ HaveEntry \in BOOLEAN
  /\ labels \in LabelTable
  /\ RetReg \in Nat /\ RetSet \in BOOLEAN
  /\ image \in [Addrs -> Words]
  /\ fresh \subseteq Addrs

ErrorsOK == Errors \in Nat /\ FatalError \in BOOLEAN

TypeOK == ControlOK /\ EngineOK /\ ErrorsOK

Init ==
  /\ program \in Programs
  /\ phase = "between" /\ Pass = 0 /\ pos = 1
  /\ CodeOffset = NoOffset /\ CodeOffsetPass1 = 0
  /\ EntryPoint = NoOffset /\ HaveEntry = FALSE
  /\ Errors = 0 /\ FatalError = FALSE
  /\ labels = [n \in Names |-> NoOffset]
  /\ RetReg = DefaultReg /\ RetSet = FALSE
  /\ image = [a \in Addrs |-> Zero]
  /\ written = FALSE
  /\ at = [p \in 1 .. 2 |-> [i \in 1 .. Len(program) + 1 |-> NoOffset]]
  /\ fresh = {}

-----------------------------------------------------------------------------
(* Passes.                                                                 *)

\* Mutant: the code offset of pass 1 is carried into pass 2.
StartPassKeepsOffset(opened) ==
  /\ phase = "between" /\ Errors = 0 /\ Pass < 2
  /\ Pass' = Pass + 1
  /\ EntryPoint' = NoOffset /\ HaveEntry' = FALSE /\ pos' = 1 /\ fresh' = {}
  /\ phase' = "file"
  /\ UNCHANGED <<CodeOffset, Errors, FatalError, program, CodeOffsetPass1, written,
                 labels, RetReg, RetSet, image, at>>

\* The while loop of main starts another pass: everything but the labels,
\* the image, the call register and the error count starts over.
StartPass(opened) ==
  /\ phase = "between" /\ Errors = 0 /\ Pass < 2
  /\ Pass' = Pass + 1
  /\ CodeOffset' = NoOffset /\ EntryPoint' = NoOffset /\ HaveEntry' = FALSE
  /\ pos' = 1 /\ fresh' = {}
  /\ IF opened
     THEN phase' = "file" /\ UNCHANGED <<Errors, FatalError>>
     ELSE UNCHANGED phase /\ Errors' = Errors + 1 /\ FatalError' = TRUE
  /\ UNCHANGED <<program, CodeOffsetPass1, written, labels, RetReg, RetSet,
                 image, at>>

BeginPass == StartPass(TRUE)

\* InitSourceFile cannot open the main file: main breaks out of the loop.
OpenFails == StartPass(FALSE)

GivenUp == FatalError \/ Errors >= MAX_ERRORS

\* Mutant: ProcessSourceFile reads on whatever the errors.
EndPassAtEnd ==
  /\ phase = "file" /\ pos > Len(program)
  /\ phase' = "between"
  /\ CodeOffsetPass1' = IF Pass = 1 THEN CodeOffset ELSE CodeOffsetPass1
  /\ UNCHANGED <<engine, program, Pass, pos, Errors, FatalError, written, at>>

\* End of the main file, or ProcessSourceFile gave up.
EndPass ==
  /\ phase = "file"
  /\ GivenUp \/ pos > Len(program)
  /\ phase' = "between"
  /\ CodeOffsetPass1' = IF Pass = 1 THEN CodeOffset ELSE CodeOffsetPass1
  /\ UNCHANGED <<engine, program, Pass, pos, Errors, FatalError, written, at>>

\* After the passes: the offset check, then the output files or nothing.
Moved == IF CodeOffsetPass1 # CodeOffset THEN 1 ELSE 0

Finish ==
  /\ phase = "between" /\ (Errors > 0 \/ Pass = 2)
  /\ phase' = "done"
  /\ Errors' = Errors + Moved
  /\ written' = (Errors' = 0 /\ CodeOffset > 0)
  /\ UNCHANGED <<engine, program, Pass, pos, CodeOffsetPass1, FatalError, at>>

-----------------------------------------------------------------------------
(* Statements.                                                             *)

Cur == program[pos]
V == Value(Cur.e, labels)

\* Only pass 2 objects to a label that is not in the list.
NotFound == Pass = 2 /\ Cur.e.sym # NoSym /\ labels[Cur.e.sym] = NoOffset

Reading(op) == /\ phase = "file" /\ ~GivenUp /\ pos <= Len(program)
               /\ Cur.op = op

\* Mutant: a line that fails takes the next one with it.
NextLineSkips(failed) ==
  /\ pos' = pos + (IF failed THEN 2 ELSE 1)
  /\ at' = [at EXCEPT ![Pass][pos + 1] = CodeOffset']
  /\ UNCHANGED <<program, phase, Pass, CodeOffsetPass1, written>>

\* The next line; a line that fails ends the file in pass 2 only.
NextLine(failed) ==
  /\ IF failed /\ Pass = 2
     THEN phase' = "between" /\ UNCHANGED pos
     ELSE pos' = pos + 1 /\ UNCHANGED phase
  /\ at' = [at EXCEPT ![Pass][pos + 1] = CodeOffset']
  /\ UNCHANGED <<program, Pass, CodeOffsetPass1, written>>

\* A line that reports n errors and changes nothing else.
Rejected(n) ==
  /\ Errors' = Errors + n
  /\ UNCHANGED <<engine, FatalError>>
  /\ NextLine(TRUE)

\* ValidateOffset: sets an unset offset, and the entry point with it.
EntryAfterUse == IF CodeOffset = NoOffset /\ EntryPoint < 0
                 THEN DefaultOrigin ELSE EntryPoint

\* GenOp once per word: each needs room, and reports a fatal error without it.
Emit(words, reported) ==
  LET base   == Ready(CodeOffset)
      room   == IF base < MAX_PROGRAM THEN MAX_PROGRAM - base ELSE 0
      stored == IF Len(words) <= room THEN Len(words) ELSE room
      slots  == {a \in Addrs : base <= a /\ a < base + stored}
  IN /\ image' = [a \in Addrs |-> IF a \in slots THEN words[a - base + 1] ELSE image[a]]
     /\ fresh' = fresh \union slots
     /\ CodeOffset' = base + stored
     /\ EntryPoint' = EntryAfterUse
     /\ Errors' = Errors + reported + (Len(words) - stored)
     /\ FatalError' = (FatalError \/ stored < Len(words))
     /\ UNCHANGED <<HaveEntry, labels, RetReg, RetSet>>

\* ProcessOp: a rejected opcode still takes a word, the error pattern.
Opcode(op, bad, n) ==
  /\ Reading(op)
  /\ IF bad
     THEN Emit(<<ErrWord>>, n) /\ NextLine(TRUE)
     ELSE Emit(WordsOf(Cur, CodeOffset, labels, RetReg), 0) /\ NextLine(FALSE)

\* The errors of an expression: Expression and its caller both report.
ExprErrors == IF NotFound THEN 2 ELSE 0

\* name: is created in pass 1 only; a name in use is an error there.
Label ==
  /\ Reading("label")
  /\ CodeOffset' = Ready(CodeOffset) /\ EntryPoint' = EntryAfterUse
  /\ LET full == CodeOffset' >= MAX_PROGRAM
         used == ~full /\ Pass = 1 /\ labels[Cur.e.sym] # NoOffset
     IN /\ labels' = IF ~full /\ Pass = 1 /\ ~used
                     THEN [labels EXCEPT ![Cur.e.sym] = CodeOffset']
                     ELSE labels
        /\ Errors' = Errors + (IF full \/ used THEN 1 ELSE 0)
        /\ FatalError' = (FatalError \/ full)
        /\ NextLine(full)
  /\ UNCHANGED <<HaveEntry, RetReg, RetSet, image, fresh>>

\* Mutant: .origin goes anywhere.
OriginAnywhere ==
  /\ Reading("origin")
  /\ CodeOffset' = V
  /\ EntryPoint' = IF EntryPoint < 0 THEN V ELSE EntryPoint
  /\ NextLine(FALSE)
  /\ UNCHANGED <<HaveEntry, labels, RetReg, RetSet, image, fresh, Errors, FatalError>>

\* .origin never moves backwards, but is not held to MAX_PROGRAM.
Origin ==
  /\ Reading("origin")
  /\ IF NotFound \/ V < CodeOffset
     THEN Rejected(IF NotFound THEN 2 ELSE 1)
     ELSE /\ CodeOffset' = V
          /\ EntryPoint' = IF EntryPoint < 0 THEN V ELSE EntryPoint
          /\ NextLine(FALSE)
          /\ UNCHANGED <<HaveEntry, labels, RetReg, RetSet, image, fresh,
                         Errors, FatalError>>

Entrypoint ==
  /\ Reading("entry")
  /\ IF NotFound \/ HaveEntry
     THEN Rejected(IF NotFound THEN 2 ELSE 1)
     ELSE /\ EntryPoint' = V /\ HaveEntry' = TRUE
          /\ UNCHANGED <<CodeOffset, labels, RetReg, RetSet, image, fresh,
                         Errors, FatalError>>
          /\ NextLine(FALSE)

\* .setcallreg: once, and before any code; the register outlives the pass.
SetCallReg ==
  /\ Reading("setcall")
  /\ IF (Pass = 1 /\ RetSet) \/ CodeOffset >= 0
     THEN Rejected(1)
     ELSE /\ RetReg' = Cur.e.add /\ RetSet' = TRUE
          /\ UNCHANGED <<CodeOffset, EntryPoint, HaveEntry, labels, image, fresh,
                         Errors, FatalError>>
          /\ NextLine(FALSE)

\* Mutant: .ret does not look at the call register.
DotRetAlways == Reading("dotret") /\ Opcode("dotret", FALSE, 0)

\* .ret becomes "jmp r30.w0" unless a call register was chosen.
DotRet ==
  /\ Reading("dotret")
  /\ IF RetSet THEN Rejected(1) ELSE Opcode("dotret", FALSE, 0)

Plain == Opcode("plain", FALSE, 0)
Ret   == Opcode("ret", FALSE, 0)
Mov   == Opcode("mov", NotFound, ExprErrors)

\* GetJmpOffset: the reach is checked in pass 2 only.
OutOfReach == Pass = 2 /\ (V - CodeOffset < -QB_REACH \/ V - CodeOffset > QB_REACH - 1)

QuickBranch == Opcode("qb", NotFound \/ OutOfReach, IF NotFound THEN 2 ELSE 1)

Jmp  == Opcode("jmp",  NotFound \/ V > IMM16, IF NotFound THEN 2 ELSE 1)
Call == Opcode("call", NotFound \/ V > IMM16, IF NotFound THEN 2 ELSE 1)

\* .codeword emits nothing when its expression fails.
CodeWord ==
  /\ Reading("codeword")
  /\ IF NotFound THEN Rejected(2) ELSE Opcode("codeword", FALSE, 0)

\* A line ParseSourceLine or DotCommand rejects, and an opcode ProcessOp rejects.
BadLine == Reading("badline") /\ Rejected(1)
BadOp   == Opcode("badop", TRUE, 1)

Statement ==
  \/ Label \/ Origin \/ Entrypoint \/ SetCallReg \/ DotRet \/ Plain \/ Ret
  \/ Mov \/ QuickBranch \/ Jmp \/ Call \/ CodeWord \/ BadLine \/ BadOp

Next == BeginPass \/ OpenFails \/ Statement \/ EndPass \/ Finish

Spec == Init /\ [][Next]_vars

\* One process runs to its end: main never waits for anything.
FairSpec == Spec /\ WF_vars(Next)

-----------------------------------------------------------------------------
(* Properties.                                                             *)

\* Every statement is met at the same code offset in both passes when the
\* sizes are settled, although pass 1 reads labels it has not met as zero and
\* pass 2 re-reads them from the list (pasm.c:347-373, pasmexp.c:293-300).
PassesAgree ==
  Pass = 2 /\ Errors = 0 /\ SettledSizes(program) =>
    \A i \in 1 .. pos : at[2][i] = at[1][i]

\* The code offset never moves back within a pass, so no word is overwritten
\* (pasmdot.c:262, pasm.c:939).
NeverOverwrites ==
  [][Pass' = Pass => /\ CodeOffset' >= CodeOffset
                     /\ \A a \in fresh : image'[a] = image[a]]_vars

\* PASM ends on every program, with the output or with an error reported.
Terminates == <>(phase = "done" /\ (written \/ Errors > 0 \/ CodeOffset <= 0))

\* The output as the abstract specification sees it.
Output == IF written
          THEN << [loc |-> at[2], labels |-> labels, image |-> image,
                   size |-> CodeOffset, entry |-> EntryPoint] >>
          ELSE << >>

Abstract == INSTANCE Assembly WITH output <- Output, finished <- (phase = "done")

\* Whatever is written is a correct assembly of the program.
ImplementsAssembly == Abstract!Spec

\* "Validates that the current offset is ready to be used" (pasm.c:1131): the
\* offset a quick branch is computed from is the offset it is stored at.
BranchesLand ==
  written => \A i \in 1 .. Len(program) :
    program[i].op = "qb" =>
      Ready(at[2][i]) + image[Ready(at[2][i])].val = Value(program[i].e, labels)

\* "Error: Offset changed between pass 1 and pass 2" (pasm.c:382): no label of
\* a written image is at another offset in pass 2 than pass 1 gave it.
LabelsStand ==
  written => \A i \in 1 .. Len(program) :
    program[i].op = "label" => labels[program[i].e.sym] = Ready(at[2][i])

\* "Max instruction count" (pasm.c:83): the words written are in ProgramImage.
ImageInBounds == written => CodeOffset <= MAX_PROGRAM
=============================================================================
