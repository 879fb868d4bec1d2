--------------------------- MODULE PasmPasses_proofs ---------------------------
(***************************************************************************)
(* Theorems about the two-pass engine.                                     *)
(***************************************************************************)
EXTENDS PasmPasses, TLAPS

USE ProgramAssumption, PassesAssumption

LEMMA ValueType ==
  ASSUME NEW e \in Expr, NEW lab \in LabelTable
  PROVE  Value(e, lab) \in Int
BY DEF Value, Expr, LabelTable, NoOffset

LEMMA WordsType ==
  ASSUME NEW s \in Stmt, NEW co \in Int, NEW lab \in LabelTable, NEW r \in Int
  PROVE  /\ Len(WordsOf(s, co, lab, r)) = Size(s, lab)
         /\ \A k \in 1 .. Size(s, lab) : WordsOf(s, co, lab, r)[k] \in Words
<1> DEFINE v == Value(s.e, lab)
<1>1. v \in Int
  BY ValueType DEF Stmt
<1>2. v \div (IMM16 + 1) \in Int /\ v % (IMM16 + 1) \in Int
  BY <1>1 DEF IMM16
<1>3. v - co \in Int
  BY <1>1
<1>4. \A k \in WordKinds, x, y \in Int : Word(k, x, y) \in Words
  BY DEF Word, Words
<1> HIDE DEF v
<1>5. CASE s.op = "mov"
  <2>1. CASE Wide(s, lab)
    <3>1. WordsOf(s, co, lab, r) = << Word("ldi", v \div (IMM16 + 1), NoReg),
                                     Word("ldi", v % (IMM16 + 1), NoReg) >>
      BY <1>5, <2>1 DEF WordsOf, v
    <3> QED BY <3>1, <2>1, <1>2, <1>4 DEF Size, NoReg, WordKinds
  <2>2. CASE ~Wide(s, lab)
    <3>1. WordsOf(s, co, lab, r) = << Word("ldi", v, NoReg) >>
      BY <1>5, <2>2 DEF WordsOf, v
    <3> QED BY <3>1, <2>2, <1>1, <1>4 DEF Size, NoReg, WordKinds
  <2> QED BY <2>1, <2>2
<1>6. CASE s.op # "mov"
  <2>1. Size(s, lab) = 1
    BY <1>6 DEF Size, Wide
  <2> DEFINE W == WordsOf(s, co, lab, r)
  <2>2. CASE s.op = "qb"
    <3>1. W = << Word("qb", v - co, NoReg) >>  BY <2>2 DEF WordsOf, v
    <3> QED BY <3>1, <2>1, <1>3, <1>4 DEF NoReg, WordKinds
  <2>3. CASE s.op = "jmp"
    <3>1. W = << Word("jmp", v, NoReg) >>  BY <2>3 DEF WordsOf, v
    <3> QED BY <3>1, <2>1, <1>1, <1>4 DEF NoReg, WordKinds
  <2>4. CASE s.op = "call"
    <3>1. W = << Word("call", v, r) >>  BY <2>4 DEF WordsOf, v
    <3> QED BY <3>1, <2>1, <1>1, <1>4 DEF WordKinds
  <2>5. CASE s.op = "ret"
    <3>1. W = << Word("ret", 0, r) >>  BY <2>5 DEF WordsOf
    <3> QED BY <3>1, <2>1, <1>4 DEF WordKinds
  <2>6. CASE s.op = "dotret"
    <3>1. W = << Word("ret", 0, DefaultReg) >>  BY <2>6 DEF WordsOf
    <3> QED BY <3>1, <2>1, <1>4 DEF DefaultReg, WordKinds
  <2>7. CASE s.op = "codeword"
    <3>1. W = << Word("data", v, NoReg) >>  BY <2>7 DEF WordsOf, v
    <3> QED BY <3>1, <2>1, <1>1, <1>4 DEF NoReg, WordKinds
  <2>8. CASE s.op \notin {"qb", "jmp", "call", "ret", "dotret", "codeword"}
    <3>1. W = << Word("op", 0, NoReg) >>  BY <1>6, <2>8 DEF WordsOf
    <3> QED BY <3>1, <2>1, <1>4 DEF NoReg, WordKinds
  <2> QED BY <2>2, <2>3, <2>4, <2>5, <2>6, <2>7, <2>8
<1> QED BY <1>5, <1>6

-----------------------------------------------------------------------------
(* Types.                                                                  *)

LEMMA CurType ==
  ASSUME TypeOK, pos <= Len(program)
  PROVE  /\ Len(program) \in Nat
         /\ pos \in 1 .. Len(program)
         /\ Cur \in Stmt
         /\ V \in Int
<1>1. program \in Seq(Stmt)
  BY DEF TypeOK, ControlOK
<1>2. Cur \in Stmt
  BY <1>1 DEF TypeOK, ControlOK, Cur
<1>3. Cur.e \in Expr
  BY <1>2 DEF Stmt
<1> QED BY <1>1, <1>2, <1>3, ValueType DEF TypeOK, ControlOK, EngineOK, V

\* What any line does to the control state.
LEMMA NextLineType ==
  ASSUME TypeOK, pos <= Len(program), phase = "file", NEW failed, NextLine(failed),
         CodeOffset' \in Int
  PROVE  ControlOK'
<1>1. Len(program) \in Nat /\ pos \in 1 .. Len(program)
  BY CurType
<1>2. at' \in [1 .. 2 -> [1 .. Len(program) + 1 -> Int]]
  BY <1>1 DEF NextLine, TypeOK, ControlOK
<1> QED BY <1>1, <1>2 DEF NextLine, TypeOK, ControlOK

LEMMA EmitType ==
  ASSUME TypeOK, NEW words, NEW reported \in Nat,
         Len(words) \in 1 .. 2, \A k \in 1 .. Len(words) : words[k] \in Words,
         Emit(words, reported)
  PROVE  EngineOK' /\ ErrorsOK'
<1> DEFINE base   == Ready(CodeOffset)
           room   == IF base < MAX_PROGRAM THEN MAX_PROGRAM - base ELSE 0
           stored == IF Len(words) <= room THEN Len(words) ELSE room
           slots  == {a \in Addrs : base <= a /\ a < base + stored}
<1>1. base \in Nat
  BY DEF Ready, TypeOK, EngineOK, NoOffset, DefaultOrigin
<1>2. stored \in 0 .. Len(words)
  BY <1>1
<1>3. \A a \in slots : a - base + 1 \in 1 .. Len(words)
  BY <1>1, <1>2 DEF Addrs
<1>4. image' = [a \in Addrs |-> IF a \in slots THEN words[a - base + 1] ELSE image[a]]
  BY DEF Emit
<1>5. image' \in [Addrs -> Words]
  BY <1>3, <1>4 DEF TypeOK, EngineOK
<1>6. CodeOffset' \in Int /\ CodeOffset' >= NoOffset
  BY <1>1, <1>2 DEF Emit, NoOffset
<1>7. fresh' \subseteq Addrs
  BY DEF Emit, TypeOK, EngineOK
<1>8. EntryPoint' \in Int
  BY DEF Emit, EntryAfterUse, TypeOK, EngineOK, DefaultOrigin
<1>9. ErrorsOK'
  BY <1>2 DEF Emit, ErrorsOK, TypeOK
<1> QED BY <1>5, <1>6, <1>7, <1>8, <1>9 DEF Emit, EngineOK, TypeOK

LEMMA RejectedType ==
  ASSUME TypeOK, pos <= Len(program), phase = "file", NEW n \in Nat, Rejected(n)
  PROVE  TypeOK'
<1>1. EngineOK' /\ ErrorsOK'
  BY DEF Rejected, TypeOK, EngineOK, ErrorsOK, engine
<1>2. CodeOffset' \in Int
  BY <1>1 DEF EngineOK
<1> QED BY <1>1, <1>2, NextLineType DEF Rejected, TypeOK

LEMMA OpcodeType ==
  ASSUME TypeOK, NEW op, NEW bad, NEW n \in Nat, Opcode(op, bad, n)
  PROVE  TypeOK'
<1>1. pos <= Len(program) /\ phase = "file"
  BY DEF Opcode, Reading
<1>2. EngineOK' /\ ErrorsOK'
  <2>1. CASE bad
    <3>1. ErrWord \in Words
      BY DEF ErrWord, Word, Words, WordKinds, NoReg
    <3> QED BY <2>1, <3>1, EmitType DEF Opcode
  <2>2. CASE ~bad
    <3> DEFINE W == WordsOf(Cur, CodeOffset, labels, RetReg)
    <3>1. Len(W) = Size(Cur, labels) /\ \A k \in 1 .. Size(Cur, labels) : W[k] \in Words
      BY <1>1, CurType, WordsType DEF TypeOK, EngineOK
    <3>2. Size(Cur, labels) \in 1 .. 2
      BY DEF Size
    <3>3. Emit(W, 0)
      BY <2>2 DEF Opcode
    <3> HIDE DEF W
    <3> QED BY <3>1, <3>2, <3>3, EmitType
  <2> QED BY <2>1, <2>2
<1>3. CodeOffset' \in Int
  BY <1>2 DEF EngineOK
<1>4. ControlOK'
  BY <1>1, <1>3, NextLineType DEF Opcode
<1> QED BY <1>2, <1>4 DEF TypeOK

LEMMA TypeInit == Init => TypeOK
<1> SUFFICES ASSUME Init PROVE TypeOK
  OBVIOUS
<1>1. Len(program) \in Nat
  BY DEF Init
<1>2. at \in [1 .. 2 -> [1 .. Len(program) + 1 -> Int]]
  BY <1>1 DEF Init, NoOffset
<1>b. written \in BOOLEAN /\ HaveEntry \in BOOLEAN /\ RetSet \in BOOLEAN /\ FatalError \in BOOLEAN
  BY DEF Init
<1>3. ControlOK
  BY <1>1, <1>2, <1>b DEF Init, ControlOK
<1>4. Zero \in Words
  BY DEF Zero, Word, Words, WordKinds, NoReg
<1>5. EngineOK
  BY <1>4, <1>b DEF Init, EngineOK, LabelTable, NoOffset, DefaultReg
<1>6. ErrorsOK
  BY <1>b DEF Init, ErrorsOK
<1> QED BY <1>3, <1>5, <1>6 DEF TypeOK

LEMMA TypeStep == TypeOK /\ [Next]_vars => TypeOK'
<1> SUFFICES ASSUME TypeOK, [Next]_vars PROVE TypeOK'
  OBVIOUS
<1>1. ASSUME NEW opened \in BOOLEAN, StartPass(opened) PROVE TypeOK'
  <2>1. Len(program) \in Nat
    BY DEF TypeOK, ControlOK
  <2>2. ControlOK'
    BY <1>1, <2>1 DEF StartPass, TypeOK, ControlOK
  <2>b. HaveEntry' \in BOOLEAN
    BY <1>1 DEF StartPass
  <2>f. FatalError' \in BOOLEAN
    <3>1. FatalError' = FatalError \/ FatalError' = TRUE
      BY <1>1 DEF StartPass
    <3> QED BY <3>1 DEF TypeOK, ErrorsOK
  <2>3. EngineOK'
    BY <1>1, <2>b DEF StartPass, TypeOK, EngineOK, NoOffset
  <2>4. ErrorsOK'
    BY <1>1, <2>f DEF StartPass, TypeOK, ErrorsOK
  <2> QED BY <2>2, <2>3, <2>4 DEF TypeOK
<1>2. CASE EndPass
  <2>1. CodeOffsetPass1' \in Int
    BY <1>2 DEF EndPass, TypeOK, ControlOK, EngineOK
  <2>2. ControlOK'
    BY <1>2, <2>1 DEF EndPass, TypeOK, ControlOK
  <2> QED BY <1>2, <2>2 DEF EndPass, TypeOK, EngineOK, ErrorsOK, engine
<1>3. CASE Finish
  <2>1. Errors' \in Nat
    BY <1>3 DEF Finish, Moved, TypeOK, ErrorsOK
  <2>2. written' \in BOOLEAN
    BY <1>3 DEF Finish
  <2>3. ControlOK'
    BY <1>3, <2>2 DEF Finish, TypeOK, ControlOK
  <2> QED BY <1>3, <2>1, <2>3 DEF Finish, TypeOK, EngineOK, ErrorsOK, engine
<1>4. CASE Label
  <2>1. pos <= Len(program) /\ phase = "file" /\ Cur \in Stmt
    BY <1>4, CurType DEF Label, Reading
  <2>2. CodeOffset' \in Int /\ CodeOffset' >= NoOffset /\ EntryPoint' \in Int
    BY <1>4 DEF Label, EntryAfterUse, Ready, TypeOK, EngineOK, NoOffset, DefaultOrigin
  <2>3. labels' \in LabelTable
    BY <1>4, <2>2 DEF Label, TypeOK, EngineOK, LabelTable
  <2>4. ErrorsOK'
    BY <1>4 DEF Label, TypeOK, ErrorsOK
  <2>5. ControlOK'
    <3>1. \/ CodeOffset' >= MAX_PROGRAM /\ NextLine(CodeOffset' >= MAX_PROGRAM)
          \/ ~(CodeOffset' >= MAX_PROGRAM) /\ NextLine(CodeOffset' >= MAX_PROGRAM)
      BY <1>4 DEF Label
    <3>2. NextLine(TRUE) \/ NextLine(FALSE)
      BY <3>1 DEF NextLine
    <3> QED BY <2>1, <2>2, <3>2, NextLineType
  <2> QED BY <1>4, <2>2, <2>3, <2>4, <2>5 DEF Label, TypeOK, EngineOK
<1>5. CASE Origin
  <2>1. pos <= Len(program) /\ phase = "file" /\ V \in Int
    BY <1>5, CurType DEF Origin, Reading
  <2>2. CASE NotFound \/ V < CodeOffset
    BY <1>5, <2>1, <2>2, RejectedType DEF Origin
  <2>3. CASE ~(NotFound \/ V < CodeOffset)
    <3>1. CodeOffset' = V /\ NextLine(FALSE) /\ EntryPoint' \in Int
      BY <1>5, <2>1, <2>3 DEF Origin, TypeOK, EngineOK
    <3>2. ControlOK'
      BY <3>1, <2>1, NextLineType
    <3> QED BY <1>5, <2>1, <2>3, <3>1, <3>2 DEF Origin, TypeOK, EngineOK, ErrorsOK, NoOffset
  <2> QED BY <2>2, <2>3
<1>6. CASE Entrypoint
  <2>1. pos <= Len(program) /\ phase = "file" /\ V \in Int
    BY <1>6, CurType DEF Entrypoint, Reading
  <2>2. CASE NotFound \/ HaveEntry
    BY <1>6, <2>1, <2>2, RejectedType DEF Entrypoint
  <2>3. CASE ~(NotFound \/ HaveEntry)
    <3>1. CodeOffset' = CodeOffset /\ NextLine(FALSE)
      BY <1>6, <2>3 DEF Entrypoint
    <3>2. ControlOK'
      BY <3>1, <2>1, NextLineType DEF TypeOK, EngineOK
    <3> QED BY <1>6, <2>1, <2>3, <3>2 DEF Entrypoint, TypeOK, EngineOK, ErrorsOK
  <2> QED BY <2>2, <2>3
<1>7. CASE SetCallReg
  <2>1. pos <= Len(program) /\ phase = "file" /\ Cur.e.add \in Nat
    BY <1>7, CurType DEF SetCallReg, Reading, Stmt, Expr
  <2> DEFINE refused == (Pass = 1 /\ RetSet) \/ CodeOffset >= 0
  <2>2. CASE refused
    BY <1>7, <2>1, <2>2, RejectedType DEF SetCallReg
  <2>3. CASE ~refused
    <3>1. CodeOffset' = CodeOffset /\ NextLine(FALSE)
      BY <1>7, <2>3 DEF SetCallReg
    <3>2. ControlOK'
      BY <3>1, <2>1, NextLineType DEF TypeOK, EngineOK
    <3> QED BY <1>7, <2>1, <2>3, <3>2 DEF SetCallReg, TypeOK, EngineOK, ErrorsOK
  <2> QED BY <2>2, <2>3
<1>8. ASSUME NEW n \in Nat, NEW op, Reading(op), Rejected(n) PROVE TypeOK'
  BY <1>8, RejectedType DEF Reading
<1>9. ASSUME NEW op, NEW bad, NEW n \in Nat, Opcode(op, bad, n) PROVE TypeOK'
  BY <1>9, OpcodeType
<1>10. CASE DotRet \/ CodeWord \/ BadLine
  BY <1>8, <1>9, <1>10 DEF DotRet, CodeWord, BadLine
<1>11. CASE Plain \/ Ret \/ Mov \/ QuickBranch \/ Jmp \/ Call \/ BadOp
  BY <1>9, <1>11 DEF Plain, Ret, Mov, QuickBranch, Jmp, Call, BadOp, ExprErrors
<1>12. CASE UNCHANGED vars
  BY <1>12 DEF vars, engine, control, TypeOK, ControlOK, EngineOK, ErrorsOK
<1> QED BY <1>1, <1>2, <1>3, <1>4, <1>5, <1>6, <1>7, <1>10, <1>11, <1>12
       DEF Next, BeginPass, OpenFails, Statement

\* Every variable keeps its range, on every program and for every image size.
THEOREM TypeCorrect == Spec => []TypeOK
<1> QED BY TypeInit, TypeStep, PTL DEF Spec

-----------------------------------------------------------------------------
(* Both passes meet every statement at the same offset.                    *)

\* The statements pass 1 has been through.
Seen1 == IF Pass = 1 THEN pos - 1 ELSE IF Pass = 2 THEN Len(program) ELSE 0

\* While no error is reported: where the passes stand, that the history agrees
\* with the offset, and that the list holds the labels seen, at their offsets.
AgreeInv ==
  Errors = 0 =>
    /\ ~FatalError
    /\ phase = "between" /\ Pass = 1 => pos = Len(program) + 1
    /\ \A q \in 1 .. 2 : at[q][1] = NoOffset
    /\ phase = "file" => at[Pass][pos] = CodeOffset
    /\ \A i \in 1 .. Seen1 :
         program[i].op = "label" =>
           /\ labels[program[i].e.sym] = Ready(at[1][i])
           /\ Ready(at[1][i]) # NoOffset
    /\ SettledSizes(program) =>
         /\ \A i \in 1 .. Seen1 : at[1][i + 1] = After(program[i], at[1][i], labels)
         /\ Pass = 2 => \A i \in 1 .. pos : at[2][i] = at[1][i]

\* Only the value of its own symbol, and only in a sized statement, moves After.
LEMMA AfterStable ==
  ASSUME NEW s, NEW co, NEW lab, NEW lab2,
         s.op \in SizedOps => s.e.sym = NoSym \/ lab[s.e.sym] = lab2[s.e.sym]
  PROVE  After(s, co, lab) = After(s, co, lab2)
<1>1. CASE s.op \in SizedOps
  BY <1>1 DEF After, Size, Wide, Value
<1>2. CASE s.op \notin SizedOps
  BY <1>2 DEF After, Size, Wide, SizedOps
<1> QED BY <1>1, <1>2

\* A statement without an error: the next line, the offset After gives, and a
\* label list that changes by one new name at most.
CleanStep ==
  /\ phase = "file" /\ pos <= Len(program)
  /\ pos' = pos + 1 /\ phase' = phase
  /\ UNCHANGED <<program, Pass>>
  /\ CodeOffset' = After(Cur, CodeOffset, labels)
  /\ at' = [at EXCEPT ![Pass][pos + 1] = CodeOffset']
  /\ FatalError' = FatalError
  /\ IF Cur.op = "label" /\ Pass = 1
     THEN /\ labels[Cur.e.sym] = NoOffset
          /\ labels' = [labels EXCEPT ![Cur.e.sym] = CodeOffset']
     ELSE labels' = labels

LEMMA CleanOpcode ==
  ASSUME TypeOK, NEW op \in EmitOps, NEW bad \in BOOLEAN, NEW n \in Nat, bad => n > 0,
         Opcode(op, bad, n), Errors' = 0
  PROVE  CleanStep
<1>1. Reading(op) /\ Cur.op = op /\ Cur \in Stmt /\ pos <= Len(program) /\ phase = "file"
  BY CurType DEF Opcode, Reading
<1> DEFINE W == WordsOf(Cur, CodeOffset, labels, RetReg)
           base   == Ready(CodeOffset)
<1>2. Len(W) = Size(Cur, labels) /\ Size(Cur, labels) \in 1 .. 2
  BY <1>1, WordsType DEF TypeOK, EngineOK, Size
<1>3. base \in Nat
  BY DEF Ready, TypeOK, EngineOK, NoOffset, DefaultOrigin
<1>4. ~bad
  <2> SUFFICES ASSUME bad PROVE FALSE
    OBVIOUS
  <2>1. Len(<<ErrWord>>) = 1
    OBVIOUS
  <2>2. Emit(<<ErrWord>>, n)
    BY DEF Opcode
  <2>3. Errors' >= Errors + n
    BY <2>1, <2>2, <1>3 DEF Emit, TypeOK, ErrorsOK
  <2> QED BY <2>3 DEF TypeOK, ErrorsOK
<1>5. Emit(W, 0) /\ NextLine(FALSE)
  BY <1>4 DEF Opcode
<1> HIDE DEF W
<1>6. CodeOffset' = base + Len(W) /\ FatalError' = FatalError
  BY <1>2, <1>3, <1>5 DEF Emit, TypeOK, ErrorsOK
<1>7. CodeOffset' = After(Cur, CodeOffset, labels)
  BY <1>1, <1>2, <1>6 DEF After, EmitOps
<1>8. labels' = labels /\ Cur.op # "label"
  BY <1>1, <1>5 DEF Emit, EmitOps
<1> QED BY <1>1, <1>5, <1>6, <1>7, <1>8 DEF CleanStep, NextLine

LEMMA CleanStatement ==
  ASSUME TypeOK, Statement, Errors' = 0
  PROVE  CleanStep
<1>1. ~Rejected(1) /\ ~Rejected(2)
  <2>1. Errors' # Errors + 1 /\ Errors' # Errors + 2
    BY DEF TypeOK, ErrorsOK
  <2> QED BY <2>1 DEF Rejected
<1>2. CASE Label
  <2>1. Cur.op = "label" /\ phase = "file" /\ pos <= Len(program) /\ Cur \in Stmt
    BY <1>2, CurType DEF Label, Reading
  <2>2. ~(CodeOffset' >= MAX_PROGRAM)
    BY <1>2 DEF Label, TypeOK, ErrorsOK
  <2>3. ~(Pass = 1 /\ labels[Cur.e.sym] # NoOffset)
    BY <1>2, <2>2 DEF Label, TypeOK, ErrorsOK
  <2>4. NextLine(FALSE) /\ FatalError' = FatalError
    BY <1>2, <2>2 DEF Label, NextLine, TypeOK, ErrorsOK
  <2>5. CodeOffset' = After(Cur, CodeOffset, labels)
    BY <1>2, <2>1 DEF Label, After, EmitOps
  <2> QED BY <1>2, <2>1, <2>2, <2>3, <2>4, <2>5 DEF CleanStep, Label, NextLine
<1>3. CASE Origin
  <2>1. Cur.op = "origin" /\ phase = "file" /\ pos <= Len(program)
    BY <1>3 DEF Origin, Reading
  <2>2. ~(NotFound \/ V < CodeOffset)
    BY <1>1, <1>3 DEF Origin
  <2>3. CodeOffset' = V /\ NextLine(FALSE) /\ UNCHANGED <<labels, FatalError>>
    BY <1>3, <2>2 DEF Origin
  <2>4. CodeOffset' = After(Cur, CodeOffset, labels)
    BY <2>1, <2>3 DEF After, V, EmitOps
  <2> QED BY <2>1, <2>3, <2>4 DEF CleanStep, NextLine
<1>4. CASE Entrypoint
  <2>1. Cur.op = "entry" /\ phase = "file" /\ pos <= Len(program)
    BY <1>4 DEF Entrypoint, Reading
  <2>2. ~(NotFound \/ HaveEntry)
    BY <1>1, <1>4 DEF Entrypoint
  <2>3. NextLine(FALSE) /\ UNCHANGED <<CodeOffset, labels, FatalError>>
    BY <1>4, <2>2 DEF Entrypoint
  <2>4. CodeOffset' = After(Cur, CodeOffset, labels)
    BY <2>1, <2>3 DEF After, EmitOps
  <2> QED BY <2>1, <2>3, <2>4 DEF CleanStep, NextLine
<1>5. CASE SetCallReg
  <2>1. Cur.op = "setcall" /\ phase = "file" /\ pos <= Len(program)
    BY <1>5 DEF SetCallReg, Reading
  <2>2. ~((Pass = 1 /\ RetSet) \/ CodeOffset >= 0)
    BY <1>1, <1>5 DEF SetCallReg
  <2>3. NextLine(FALSE) /\ UNCHANGED <<CodeOffset, labels, FatalError>>
    BY <1>5, <2>2 DEF SetCallReg
  <2>4. CodeOffset' = After(Cur, CodeOffset, labels)
    BY <2>1, <2>3 DEF After, EmitOps
  <2> QED BY <2>1, <2>3, <2>4 DEF CleanStep, NextLine
<1>6. ASSUME NEW op \in EmitOps, Opcode(op, FALSE, 0) PROVE CleanStep
  BY <1>6, CleanOpcode
<1>7. ASSUME NEW op \in EmitOps, NEW n \in 1 .. 2, Opcode(op, TRUE, n) PROVE CleanStep
  <2>1. n \in Nat /\ n > 0
    BY <1>7
  <2>2. TRUE \in BOOLEAN
    OBVIOUS
  <2> QED BY <2>1, <2>2, <1>7, CleanOpcode, Zenon
<1>8. CASE DotRet \/ CodeWord \/ BadLine \/ Plain \/ Ret
  BY <1>1, <1>6, <1>8 DEF DotRet, CodeWord, BadLine, Plain, Ret, EmitOps
<1>11. CASE Mov
  <2>1. CASE NotFound
    BY <1>11, <2>1, <1>7 DEF Mov, ExprErrors, EmitOps, Opcode
  <2>2. CASE ~NotFound
    BY <1>11, <2>2, <1>6 DEF Mov, ExprErrors, EmitOps, Opcode
  <2> QED BY <2>1, <2>2
<1>12. CASE QuickBranch \/ Jmp \/ Call
  <2>1. \E op \in {"qb", "jmp", "call"}, n \in 1 .. 2 :
          Opcode(op, TRUE, n) \/ Opcode(op, FALSE, 0)
    <3> DEFINE n == IF NotFound THEN 2 ELSE 1
               b(op) == NotFound \/ (IF op = "qb" THEN OutOfReach ELSE V > IMM16)
    <3>n. n \in 1 .. 2
      OBVIOUS
    <3>1. \E op \in {"qb", "jmp", "call"} : Opcode(op, b(op), n)
      BY <1>12 DEF QuickBranch, Jmp, Call
    <3>2. PICK op \in {"qb", "jmp", "call"} : Opcode(op, b(op), n)
      BY <3>1
    <3>3. CASE b(op)
      <4>1. Opcode(op, TRUE, n)
        BY <3>2, <3>3 DEF Opcode
      <4> QED BY <4>1, <3>n
    <3>4. CASE ~b(op)
      <4>1. Opcode(op, FALSE, 0)
        BY <3>2, <3>4 DEF Opcode
      <4> QED BY <4>1, <3>n
    <3> QED BY <3>3, <3>4
  <2> QED BY <2>1, <1>6, <1>7 DEF EmitOps
<1>9. CASE BadOp
  <2>1. Emit(<<ErrWord>>, 1) /\ Len(<<ErrWord>>) = 1
    BY <1>9 DEF BadOp, Opcode
  <2>2. Ready(CodeOffset) \in Int
    BY DEF Ready, TypeOK, EngineOK, NoOffset, DefaultOrigin
  <2>3. Errors' >= Errors + 1
    BY <2>1, <2>2 DEF Emit, TypeOK, ErrorsOK
  <2> QED BY <2>3 DEF TypeOK, ErrorsOK
<1> QED BY <1>2, <1>3, <1>4, <1>5, <1>8, <1>9, <1>11, <1>12 DEF Statement

LEMMA AgreeStatement ==
  ASSUME TypeOK, AgreeInv, CleanStep, Errors = 0, Errors' = 0
  PROVE  AgreeInv'
<1> DEFINE n == Cur.e.sym
           L == Len(program)
<1>1. /\ pos \in 1 .. L /\ L \in Nat /\ Cur \in Stmt /\ Cur = program[pos]
      /\ phase = "file" /\ Pass \in 1 .. 2
  BY CurType DEF CleanStep, TypeOK, ControlOK, Cur
<1>2. /\ at \in [1 .. 2 -> [1 .. L + 1 -> Int]]
      /\ at' = [at EXCEPT ![Pass][pos + 1] = CodeOffset']
      /\ program' = program /\ Pass' = Pass /\ pos' = pos + 1 /\ phase' = phase
  BY DEF CleanStep, TypeOK, ControlOK
<1>3. \A q \in 1 .. 2, i \in 1 .. L + 1 :
        at'[q][i] = IF q = Pass /\ i = pos + 1 THEN CodeOffset' ELSE at[q][i]
  BY <1>1, <1>2
<1>4. at[Pass][pos] = CodeOffset
  BY <1>1 DEF AgreeInv
<1>5. Seen1 = (IF Pass = 1 THEN pos - 1 ELSE L) /\ Seen1' = IF Pass = 1 THEN pos ELSE L
  BY <1>1, <1>2 DEF Seen1
<1>6. labels \in LabelTable /\ CodeOffset \in Int
  BY DEF TypeOK, EngineOK
\* A name already seen keeps its offset.
<1>7. \A i \in 1 .. Seen1 : program[i].op = "label" =>
        labels'[program[i].e.sym] = labels[program[i].e.sym]
  <2> SUFFICES ASSUME NEW i \in 1 .. Seen1, program[i].op = "label"
               PROVE  labels'[program[i].e.sym] = labels[program[i].e.sym]
    OBVIOUS
  <2>1. labels[program[i].e.sym] # NoOffset
    BY DEF AgreeInv
  <2>2. CASE Cur.op = "label" /\ Pass = 1
    <3>1. labels[n] = NoOffset /\ labels' = [labels EXCEPT ![n] = CodeOffset']
      BY <2>2, <1>1 DEF CleanStep
    <3>2. program[i].e.sym # n
      BY <3>1, <2>1
    <3>3. program[i] \in Stmt /\ program[i].e.sym \in Names
      <4>1. i \in 1 .. L
        BY <1>1, <1>5
      <4>2. program[i] \in Stmt
        BY <4>1 DEF TypeOK, ControlOK, PassesAssumption, Cur
      <4> QED BY <4>2 DEF Stmt
    <3> QED BY <3>1, <3>2, <3>3, <1>6 DEF LabelTable
  <2>3. CASE ~(Cur.op = "label" /\ Pass = 1)
    BY <2>3 DEF CleanStep
  <2> QED BY <2>2, <2>3
<1>8. \A i \in 1 .. Seen1' : program[i].op = "label" =>
        /\ labels'[program[i].e.sym] = Ready(at'[1][i])
        /\ Ready(at'[1][i]) # NoOffset
  <2> SUFFICES ASSUME NEW i \in 1 .. Seen1', program[i].op = "label"
               PROVE  /\ labels'[program[i].e.sym] = Ready(at'[1][i])
                      /\ Ready(at'[1][i]) # NoOffset
    OBVIOUS
  <2>1. at'[1][i] = at[1][i]
    BY <1>1, <1>3, <1>5
  <2>2. CASE i \in 1 .. Seen1
    BY <2>1, <2>2, <1>7 DEF AgreeInv
  <2>3. CASE i \notin 1 .. Seen1
    <3>1. i = pos /\ Pass = 1
      BY <2>3, <1>1, <1>5
    <3>2. labels' = [labels EXCEPT ![n] = CodeOffset'] /\ Cur.op = "label"
      BY <3>1, <1>1 DEF CleanStep
    <3>3. CodeOffset' = Ready(CodeOffset)
      BY <3>2 DEF CleanStep, After, EmitOps
    <3>4. labels'[n] = CodeOffset'
      <4>1. n \in Names
        BY <1>1, <3>2 DEF Stmt
      <4> QED BY <4>1, <3>2, <1>6 DEF LabelTable
    <3>5. Ready(CodeOffset) # NoOffset
      BY DEF Ready, NoOffset, DefaultOrigin
    <3> QED BY <3>1, <3>3, <3>4, <3>5, <2>1, <1>1, <1>4
  <2> QED BY <2>2, <2>3
\* What is settled for a statement already seen stays settled.
<1>9. ASSUME SettledSizes(program), NEW i \in 1 .. Seen1
      PROVE  After(program[i], at[1][i], labels) = After(program[i], at[1][i], labels')
  <2>1. i \in 1 .. L
    BY <1>1, <1>5
  <2>2. CASE program[i].op \in SizedOps /\ program[i].e.sym # NoSym
    <3>1. PICK j \in 1 .. i - 1 : program[j].op = "label" /\ program[j].e.sym = program[i].e.sym
      BY <1>9, <2>1, <2>2 DEF SettledSizes, DefinesBefore
    <3>2. j \in 1 .. Seen1
      BY <1>1, <1>5, <2>1
    <3>3. labels'[program[i].e.sym] = labels[program[i].e.sym]
      BY <1>7, <3>1, <3>2
    <3> QED BY <3>3, AfterStable
  <2>3. CASE ~(program[i].op \in SizedOps /\ program[i].e.sym # NoSym)
    BY <2>3, AfterStable
  <2> QED BY <2>2, <2>3
<1>10. ASSUME SettledSizes(program)
       PROVE  After(Cur, CodeOffset, labels) = After(Cur, CodeOffset, labels')
  <2>1. CASE Cur.op = "label" /\ Pass = 1
    BY <2>1, AfterStable DEF SizedOps
  <2>2. CASE ~(Cur.op = "label" /\ Pass = 1)
    BY <2>2 DEF CleanStep
  <2> QED BY <2>1, <2>2
<1>11. ASSUME SettledSizes(program), NEW i \in 1 .. Seen1'
       PROVE  at'[1][i + 1] = After(program[i], at'[1][i], labels')
  <2>1. at'[1][i] = at[1][i]
    BY <1>1, <1>3, <1>5
  <2>2. CASE i \in 1 .. Seen1
    <3>1. at'[1][i + 1] = at[1][i + 1]
      BY <1>1, <1>3, <1>5, <2>2
    <3>2. at[1][i + 1] = After(program[i], at[1][i], labels)
      BY <2>2, <1>11 DEF AgreeInv
    <3> QED BY <2>1, <2>2, <3>1, <3>2, <1>9, <1>11
  <2>3. CASE i \notin 1 .. Seen1
    <3>1. i = pos /\ Pass = 1
      BY <2>3, <1>1, <1>5
    <3>2. at'[1][i + 1] = CodeOffset'
      BY <3>1, <1>1, <1>3
    <3>3. CodeOffset' = After(Cur, CodeOffset, labels)
      BY DEF CleanStep
    <3> QED BY <3>1, <3>2, <3>3, <2>1, <1>1, <1>4, <1>10, <1>11
  <2> QED BY <2>2, <2>3
<1>12. ASSUME SettledSizes(program), Pass = 2, NEW i \in 1 .. pos + 1
       PROVE  at'[2][i] = at'[1][i]
  <2>1. labels' = labels
    BY <1>12 DEF CleanStep
  <2>2. \A k \in 1 .. pos : at[2][k] = at[1][k]
    BY <1>12 DEF AgreeInv
  <2>3. at'[1][i] = at[1][i]
    BY <1>1, <1>3, <1>12
  <2>4. CASE i \in 1 .. pos
    BY <1>1, <1>3, <1>12, <2>2, <2>3, <2>4
  <2>5. CASE i = pos + 1
    <3>1. at[1][pos + 1] = After(program[pos], at[1][pos], labels)
      BY <1>1, <1>5, <1>12 DEF AgreeInv
    <3>2. at'[2][i] = CodeOffset'
      BY <1>1, <1>3, <1>12, <2>5
    <3>3. CodeOffset' = After(Cur, CodeOffset, labels)
      BY DEF CleanStep
    <3>4. at[1][pos] = CodeOffset
      BY <1>1, <1>4, <1>12, <2>2
    <3> QED BY <3>1, <3>2, <3>3, <3>4, <2>3, <2>5, <1>1
  <2> QED BY <2>4, <2>5, <1>1, <1>12
<1>13. \A q \in 1 .. 2 : at'[q][1] = NoOffset
  BY <1>1, <1>3 DEF AgreeInv
<1>14. at'[Pass'][pos'] = CodeOffset'
  BY <1>1, <1>2, <1>3
<1>15. ~FatalError'
  BY DEF CleanStep, AgreeInv
<1>16. phase' # "between"
  BY <1>1, <1>2
<1>17. SettledSizes(program') => SettledSizes(program)
  BY <1>2
<1> QED BY <1>2, <1>8, <1>11, <1>12, <1>13, <1>14, <1>15, <1>16, <1>17 DEF AgreeInv

\* Errors are counted, never taken back.
LEMMA ErrorsKept ==
  ASSUME TypeOK, Statement
  PROVE  Errors' >= Errors
<1>1. Errors \in Nat
  BY DEF TypeOK, ErrorsOK
<1>2. ASSUME NEW n \in Nat, Rejected(n) PROVE Errors' >= Errors
  BY <1>1, <1>2 DEF Rejected
<1>3. ASSUME NEW op, NEW bad, NEW n \in Nat, Opcode(op, bad, n) PROVE Errors' >= Errors
  <2>1. Ready(CodeOffset) \in Int
    BY DEF Ready, TypeOK, EngineOK, NoOffset, DefaultOrigin
  <2>2. ASSUME NEW W, Len(W) \in Nat, NEW k \in Nat, Emit(W, k) PROVE Errors' >= Errors
    <3> DEFINE room   == IF Ready(CodeOffset) < MAX_PROGRAM
                         THEN MAX_PROGRAM - Ready(CodeOffset) ELSE 0
               stored == IF Len(W) <= room THEN Len(W) ELSE room
    <3>1. Errors' = Errors + k + (Len(W) - stored)
      BY <2>2 DEF Emit
    <3>2. room \in Int /\ stored \in Int /\ stored <= Len(W)
      BY <2>1, <2>2
    <3> HIDE DEF stored
    <3> QED BY <3>1, <3>2, <2>2, <1>1
  <2>3. Cur \in Stmt /\ CodeOffset \in Int /\ labels \in LabelTable /\ RetReg \in Int
    BY <1>3, CurType DEF Opcode, Reading, TypeOK, EngineOK
  <2>4. Len(WordsOf(Cur, CodeOffset, labels, RetReg)) \in Nat
    BY <2>3, WordsType DEF Size
  <2>5. Len(<<ErrWord>>) \in Nat
    OBVIOUS
  <2> QED BY <1>3, <2>2, <2>4, <2>5 DEF Opcode
<1>4. CASE Label
  BY <1>1, <1>4 DEF Label
<1>5. CASE Origin \/ Entrypoint \/ SetCallReg
  <2>1. (\E n \in {1, 2} : Rejected(n)) \/ Errors' = Errors
    BY <1>5, Zenon DEF Origin, Entrypoint, SetCallReg
  <2>2. \A n \in {1, 2} : n \in Nat
    OBVIOUS
  <2> QED BY <2>1, <2>2, <1>1, <1>2
<1>6. CASE DotRet \/ CodeWord \/ BadLine
  BY <1>2, <1>3, <1>6 DEF DotRet, CodeWord, BadLine
<1>7. CASE Plain \/ Ret \/ Mov \/ QuickBranch \/ Jmp \/ Call \/ BadOp
  BY <1>3, <1>7 DEF Plain, Ret, Mov, QuickBranch, Jmp, Call, BadOp, ExprErrors
<1> QED BY <1>4, <1>5, <1>6, <1>7 DEF Statement

LEMMA AgreeInit == Init => AgreeInv
<1> SUFFICES ASSUME Init PROVE AgreeInv
  OBVIOUS
<1>1. program \in Seq(Stmt)
  BY DEF Init
<1>2. \A q \in 1 .. 2 : at[q][1] = NoOffset
  BY <1>1 DEF Init
<1> QED BY <1>1, <1>2 DEF Init, AgreeInv, Seen1

LEMMA AgreeStep == TypeOK /\ AgreeInv /\ [Next]_vars => AgreeInv'
<1> SUFFICES ASSUME TypeOK, AgreeInv, [Next]_vars, Errors' = 0 PROVE AgreeInv'
  BY DEF AgreeInv
<1>t. /\ program \in Seq(Stmt) /\ Len(program) \in Nat
      /\ phase \in {"between", "file", "done"}
      /\ Pass \in 0 .. 2 /\ (phase = "file" => Pass # 0)
      /\ pos \in 1 .. Len(program) + 1
      /\ Errors \in Nat
  BY DEF TypeOK, ControlOK, ErrorsOK
<1>1. ASSUME NEW opened \in BOOLEAN, StartPass(opened) PROVE AgreeInv'
  <2>1. /\ opened /\ Errors = 0 /\ phase = "between" /\ phase' = "file"
        /\ Pass < 2 /\ Pass' = Pass + 1 /\ pos' = 1 /\ CodeOffset' = NoOffset
        /\ UNCHANGED <<program, labels, at, FatalError>>
    BY <1>1 DEF StartPass
  <2>2. /\ ~FatalError
        /\ Pass = 1 => pos = Len(program) + 1
        /\ \A q \in 1 .. 2 : at[q][1] = NoOffset
    BY <2>1 DEF AgreeInv
  <2>3. at'[Pass'][pos'] = CodeOffset'
    BY <2>1, <2>2, <1>t
  <2>4. Seen1' = Seen1
    BY <2>1, <2>2, <1>t DEF Seen1
  <2>5. \A i \in 1 .. Seen1' :
          program'[i].op = "label" =>
            /\ labels'[program'[i].e.sym] = Ready(at'[1][i])
            /\ Ready(at'[1][i]) # NoOffset
    BY <2>1, <2>4 DEF AgreeInv
  <2>6. SettledSizes(program') =>
          \A i \in 1 .. Seen1' : at'[1][i + 1] = After(program'[i], at'[1][i], labels')
    BY <2>1, <2>4 DEF AgreeInv
  <2>7. \A i \in 1 .. pos' : at'[2][i] = at'[1][i]
    BY <2>1, <2>2
  <2> QED BY <2>1, <2>2, <2>3, <2>5, <2>6, <2>7 DEF AgreeInv
<1>2. CASE Statement
  <2>1. Errors = 0 /\ CleanStep
    BY <1>2, <1>t, CleanStatement, ErrorsKept
  <2> QED BY <2>1, AgreeStatement
<1>3. CASE EndPass
  <2>1. /\ phase = "file" /\ phase' = "between" /\ Errors = 0
        /\ UNCHANGED <<program, labels, at, FatalError, Pass, pos, CodeOffset>>
    BY <1>3 DEF EndPass, engine
  <2>2. pos = Len(program) + 1
    <3>1. ~GivenUp
      BY <2>1 DEF GivenUp, AgreeInv
    <3> QED BY <3>1, <1>3, <1>t DEF EndPass
  <2> QED BY <2>1, <2>2 DEF AgreeInv, Seen1
<1>4. CASE Finish
  <2>1. /\ phase = "between" /\ phase' = "done" /\ Errors = 0
        /\ UNCHANGED <<program, labels, at, FatalError, Pass, pos, CodeOffset>>
    <3>1. Moved \in 0 .. 1 /\ Errors' = Errors + Moved
      BY <1>4 DEF Finish, Moved
    <3> QED BY <3>1, <1>4, <1>t DEF Finish, engine
  <2> QED BY <2>1 DEF AgreeInv, Seen1
<1>5. CASE UNCHANGED vars
  BY <1>5 DEF vars, engine, control, AgreeInv, Seen1
<1> QED BY <1>1, <1>2, <1>3, <1>4, <1>5 DEF Next, BeginPass, OpenFails

\* As long as no error is reported, pass 2 meets every statement at the offset
\* pass 1 met it at: what main's comparison of the final offsets stands for.
THEOREM PassesAgreement == Spec => []PassesAgree
<1>1. Init => TypeOK /\ AgreeInv
  BY TypeInit, AgreeInit
<1>2. (TypeOK /\ AgreeInv) /\ [Next]_vars => (TypeOK /\ AgreeInv)'
  BY TypeStep, AgreeStep
<1>3. AgreeInv => PassesAgree
  BY DEF AgreeInv, PassesAgree
<1> QED BY <1>1, <1>2, <1>3, PTL DEF Spec

-----------------------------------------------------------------------------
(* The offset of a pass never moves back.                                  *)

\* The words of this pass lie below the code offset.
FreshBelow == \A a \in fresh : a < CodeOffset

\* What an emission, or a line that emits nothing, does to the offset and to
\* the words already there.
Forward ==
  /\ CodeOffset' >= CodeOffset
  /\ \A a \in fresh : image'[a] = image[a]
  /\ FreshBelow'

LEMMA EmitForward ==
  ASSUME TypeOK, FreshBelow, NEW words, Len(words) \in Nat, NEW reported,
         Emit(words, reported)
  PROVE  Forward
<1> DEFINE base   == Ready(CodeOffset)
           room   == IF base < MAX_PROGRAM THEN MAX_PROGRAM - base ELSE 0
           stored == IF Len(words) <= room THEN Len(words) ELSE room
           slots  == {a \in Addrs : base <= a /\ a < base + stored}
<1>1. base \in Nat /\ base >= CodeOffset /\ CodeOffset \in Int
  BY DEF Ready, TypeOK, EngineOK, NoOffset, DefaultOrigin
<1>3. /\ image' = [a \in Addrs |-> IF a \in slots THEN words[a - base + 1] ELSE image[a]]
      /\ fresh' = fresh \union slots
      /\ CodeOffset' = base + stored
  BY DEF Emit
<1>2. stored \in Nat
  BY <1>1
<1>4. \A a \in fresh : a \in Addrs /\ a \in Int /\ a < CodeOffset
  BY DEF FreshBelow, TypeOK, EngineOK, Addrs
<1>5. \A a \in slots : a < base + stored
  OBVIOUS
<1>6. \A a \in fresh : a \notin slots
  BY <1>1, <1>4
<1> HIDE DEF base, stored, slots
<1>7. \A a \in fresh : image'[a] = image[a]
  BY <1>3, <1>4, <1>6
<1>8. CodeOffset' >= CodeOffset /\ \A a \in fresh' : a < CodeOffset'
  BY <1>1, <1>2, <1>3, <1>4, <1>5
<1> QED BY <1>7, <1>8 DEF Forward, FreshBelow

LEMMA OpcodeForward ==
  ASSUME TypeOK, FreshBelow, NEW op, NEW bad, NEW n, Opcode(op, bad, n)
  PROVE  Forward
<1>1. pos <= Len(program) /\ CodeOffset \in Int /\ labels \in LabelTable /\ RetReg \in Int
  BY DEF Opcode, Reading, TypeOK, EngineOK
<1>2. Len(WordsOf(Cur, CodeOffset, labels, RetReg)) \in Nat
  BY <1>1, CurType, WordsType DEF Size
<1>3. Len(<<ErrWord>>) \in Nat
  OBVIOUS
<1> QED BY <1>2, <1>3, EmitForward DEF Opcode

LEMMA RejectedForward ==
  ASSUME TypeOK, FreshBelow, NEW n, Rejected(n)
  PROVE  Forward
BY DEF Rejected, engine, Forward, FreshBelow, TypeOK, EngineOK

LEMMA StatementForward ==
  ASSUME TypeOK, FreshBelow, Statement
  PROVE  Forward
<1>1. CodeOffset \in Int /\ \A a \in fresh : a \in Int /\ a < CodeOffset
  BY DEF FreshBelow, TypeOK, EngineOK, Addrs
<1>2. CASE Label
  <2>1. CodeOffset' \in Int /\ CodeOffset' >= CodeOffset /\ UNCHANGED <<image, fresh>>
    BY <1>1, <1>2 DEF Label, Ready, NoOffset, DefaultOrigin
  <2> QED BY <1>1, <2>1 DEF Forward, FreshBelow
<1>3. CASE Origin
  <2>1. V \in Int
    BY <1>3, CurType DEF Origin, Reading
  <2>2. CASE NotFound \/ V < CodeOffset
    BY <1>3, <2>2, RejectedForward DEF Origin
  <2>3. CASE ~(NotFound \/ V < CodeOffset)
    <3>1. CodeOffset' = V /\ UNCHANGED <<image, fresh>>
      BY <1>3, <2>3 DEF Origin
    <3> QED BY <1>1, <2>1, <2>3, <3>1 DEF Forward, FreshBelow
  <2> QED BY <2>2, <2>3
<1>4. CASE Entrypoint \/ SetCallReg
  <2>1. \/ \E n \in {1, 2} : Rejected(n)
        \/ UNCHANGED <<CodeOffset, image, fresh>>
    BY <1>4, Zenon DEF Entrypoint, SetCallReg
  <2> QED BY <1>1, <2>1, RejectedForward DEF Forward, FreshBelow
<1>5. CASE DotRet \/ CodeWord \/ BadLine
  BY <1>5, OpcodeForward, RejectedForward DEF DotRet, CodeWord, BadLine
<1>6. CASE Plain \/ Ret \/ Mov \/ QuickBranch \/ Jmp \/ Call \/ BadOp
  BY <1>6, OpcodeForward DEF Plain, Ret, Mov, QuickBranch, Jmp, Call, BadOp
<1> QED BY <1>2, <1>3, <1>4, <1>5, <1>6 DEF Statement

LEMMA FreshInit == Init => FreshBelow
BY DEF Init, FreshBelow

LEMMA FreshStep == TypeOK /\ FreshBelow /\ [Next]_vars => FreshBelow'
<1> SUFFICES ASSUME TypeOK, FreshBelow, [Next]_vars PROVE FreshBelow'
  OBVIOUS
<1>1. CASE BeginPass \/ OpenFails
  BY <1>1 DEF BeginPass, OpenFails, StartPass, FreshBelow
<1>2. CASE Statement
  BY <1>2, StatementForward DEF Forward
<1>3. CASE EndPass \/ Finish \/ UNCHANGED vars
  BY <1>3 DEF EndPass, Finish, vars, engine, FreshBelow
<1> QED BY <1>1, <1>2, <1>3 DEF Next

\* Within a pass the code offset only grows and no word is stored twice, on
\* every program: ".origin" is the one statement that could, and is held back.
THEOREM OffsetsGrow == Spec => NeverOverwrites
<1> DEFINE Grows == Pass' = Pass => /\ CodeOffset' >= CodeOffset
                                    /\ \A a \in fresh : image'[a] = image[a]
<1>1. Init => TypeOK /\ FreshBelow
  BY TypeInit, FreshInit
<1>2. (TypeOK /\ FreshBelow) /\ [Next]_vars => (TypeOK /\ FreshBelow)'
  BY TypeStep, FreshStep
<1>3. TypeOK /\ FreshBelow /\ [Next]_vars => [Grows]_vars
  <2> SUFFICES ASSUME TypeOK, FreshBelow, Next PROVE Grows
    OBVIOUS
  <2>1. CASE BeginPass \/ OpenFails
    BY <2>1 DEF BeginPass, OpenFails, StartPass, TypeOK, ControlOK
  <2>2. CASE Statement
    BY <2>2, StatementForward DEF Forward
  <2>3. CASE EndPass \/ Finish
    BY <2>3 DEF EndPass, Finish, engine, TypeOK, EngineOK
  <2> QED BY <2>1, <2>2, <2>3 DEF Next
<1> QED BY <1>1, <1>2, <1>3, PTL DEF Spec, NeverOverwrites

-----------------------------------------------------------------------------
(* What is written is a correct assembly.                                  *)

\* An unset offset is the only negative one, in the label list and the history.
Placed ==
  /\ \A n \in Names : labels[n] >= NoOffset
  /\ \A q \in 1 .. 2, i \in 1 .. Len(program) + 1 : at[q][i] >= NoOffset

\* Nothing is written before main has compared the passes.
WrittenLast == written => phase = "done"

\* Statement i stores a word at a, as pass q lays it out.
Spans(q, i, a) ==
  /\ program[i].op \in EmitOps
  /\ Ready(at[q][i]) <= a /\ a < at[q][i + 1]

\* The call register is the one of the only .setcallreg pass 1 has met, and no
\* .ret is accepted in pass 2 next to one.
CallInv ==
  /\ \/ /\ RetSet
        /\ \E i \in 1 .. Seen1 :
             /\ program[i].op = "setcall" /\ program[i].e.add = RetReg
             /\ \A j \in 1 .. Seen1 : program[j].op = "setcall" => j = i
     \/ /\ ~RetSet /\ RetReg = DefaultReg
        /\ \A i \in 1 .. Seen1 : program[i].op # "setcall"
  /\ Pass = 2 => \A i \in 1 .. pos - 1 : program[i].op = "dotret" => ~RetSet

\* A pass ends at the end of the program, and its history is ordered.
PlaceInv ==
  /\ phase = "between" /\ Pass # 0 => pos = Len(program) + 1
  /\ Pass # 0 => /\ at[Pass][pos] = CodeOffset
                 /\ \A i \in 1 .. pos : at[Pass][i] <= CodeOffset

\* What the image holds: only words pass 1 made room for, and in pass 2 the
\* words of the statements read so far.
ImageInv ==
  /\ \A a \in Addrs : image[a] # Zero => \E i \in 1 .. Seen1 : Spans(1, i, a)
  /\ Pass = 2 /\ Anchored(program) =>
       \A i \in 1 .. pos - 1, a \in Addrs :
         Spans(2, i, a) =>
           image[a] = WordsOf(program[i], Ready(at[2][i]), labels, RetReg)
                        [a - Ready(at[2][i]) + 1]

\* Only an .origin that nothing follows leaves the image.
RoomInv ==
  Pass = 2 /\ CodeOffset > MAX_PROGRAM =>
    \E i \in 1 .. pos - 1 :
      /\ program[i].op = "origin"
      /\ \A j \in i + 1 .. pos - 1 : program[j].op \notin EmitOps \union {"label"}

\* The entry point is that of .entrypoint, or of the first offset set.
EntryInv ==
  Pass = 2 =>
    \/ /\ HaveEntry
       /\ \E i \in 1 .. pos - 1 :
            program[i].op = "entry" /\ EntryPoint = Value(program[i].e, labels)
    \/ /\ ~HaveEntry /\ \A i \in 1 .. pos - 1 : program[i].op # "entry"
       /\ \/ CodeOffset = NoOffset /\ EntryPoint = NoOffset
          \/ /\ CodeOffset # NoOffset
             /\ \E i \in 1 .. pos - 1 :
                  /\ at[2][i] = NoOffset /\ at[2][i + 1] # NoOffset
                  /\ EntryPoint = IF program[i].op = "origin" THEN at[2][i + 1]
                                  ELSE DefaultOrigin

OutputInv ==
  /\ Placed /\ WrittenLast
  /\ Errors = 0 =>
       /\ CallInv /\ PlaceInv
       /\ SettledSizes(program) => ImageInv /\ RoomInv /\ EntryInv

\* What a statement without an error does to the rest of the engine.
EmitEffect ==
  /\ Cur.op \in EmitOps /\ (Cur.op = "dotret" => ~RetSet)
  /\ CodeOffset' <= MAX_PROGRAM /\ CodeOffset' > Ready(CodeOffset)
  /\ EntryPoint' = EntryAfterUse
  /\ \A a \in Addrs :
       image'[a] = IF Ready(CodeOffset) <= a /\ a < CodeOffset'
                   THEN WordsOf(Cur, CodeOffset, labels, RetReg)[a - Ready(CodeOffset) + 1]
                   ELSE image[a]
  /\ UNCHANGED <<HaveEntry, RetReg, RetSet>>

LabelEffect ==
  /\ Cur.op = "label"
  /\ CodeOffset' = Ready(CodeOffset) /\ CodeOffset' < MAX_PROGRAM
  /\ EntryPoint' = EntryAfterUse
  /\ UNCHANGED <<HaveEntry, RetReg, RetSet, image>>

OriginEffect ==
  /\ Cur.op = "origin"
  /\ CodeOffset' = V /\ V >= CodeOffset
  /\ EntryPoint' = (IF EntryPoint < 0 THEN V ELSE EntryPoint)
  /\ UNCHANGED <<HaveEntry, RetReg, RetSet, image>>

EntryEffect ==
  /\ Cur.op = "entry" /\ ~HaveEntry /\ HaveEntry' /\ EntryPoint' = V
  /\ UNCHANGED <<CodeOffset, RetReg, RetSet, image>>

CallRegEffect ==
  /\ Cur.op = "setcall" /\ ~(Pass = 1 /\ RetSet)
  /\ RetReg' = Cur.e.add /\ RetSet'
  /\ UNCHANGED <<CodeOffset, EntryPoint, HaveEntry, image>>

CleanEffect == EmitEffect \/ LabelEffect \/ OriginEffect \/ EntryEffect \/ CallRegEffect

LEMMA OpcodeEffect ==
  ASSUME TypeOK, NEW op \in EmitOps, NEW bad \in BOOLEAN, NEW n \in Nat, bad => n > 0,
         op = "dotret" => ~RetSet, Opcode(op, bad, n), Errors = 0, Errors' = 0
  PROVE  EmitEffect
<1>1. Reading(op) /\ Cur.op = op /\ Cur \in Stmt /\ pos <= Len(program) /\ phase = "file"
  BY CurType DEF Opcode, Reading
<1> DEFINE W      == WordsOf(Cur, CodeOffset, labels, RetReg)
           base   == Ready(CodeOffset)
           room   == IF base < MAX_PROGRAM THEN MAX_PROGRAM - base ELSE 0
           stored == IF Len(W) <= room THEN Len(W) ELSE room
           slots  == {a \in Addrs : base <= a /\ a < base + stored}
<1>2. Len(W) = Size(Cur, labels) /\ Size(Cur, labels) \in 1 .. 2
  BY <1>1, WordsType DEF TypeOK, EngineOK, Size
<1>3. base \in Nat
  BY DEF Ready, TypeOK, EngineOK, NoOffset, DefaultOrigin
<1>4. ~bad
  <2> SUFFICES ASSUME bad PROVE FALSE
    OBVIOUS
  <2>1. Len(<<ErrWord>>) = 1
    OBVIOUS
  <2>2. Emit(<<ErrWord>>, n)
    BY DEF Opcode
  <2>3. Errors' >= Errors + n
    BY <2>1, <2>2, <1>3 DEF Emit
  <2> QED BY <2>3
<1>5. Emit(W, 0)
  BY <1>4 DEF Opcode
<1>6. /\ image' = [a \in Addrs |-> IF a \in slots THEN W[a - base + 1] ELSE image[a]]
      /\ CodeOffset' = base + stored /\ EntryPoint' = EntryAfterUse
      /\ Errors' = Errors + 0 + (Len(W) - stored)
      /\ UNCHANGED <<HaveEntry, RetReg, RetSet>>
  BY <1>5 DEF Emit
<1> HIDE DEF W
<1>7. stored = Len(W)
  BY <1>2, <1>3, <1>6
<1>8. CodeOffset' <= MAX_PROGRAM /\ CodeOffset' > base
  <2>1. Len(W) \in Nat /\ Len(W) >= 1
    BY <1>2
  <2>2. room >= Len(W)
    BY <1>2, <1>3, <1>7
  <2>3. base + Len(W) <= MAX_PROGRAM
    BY <2>1, <2>2, <1>3
  <2>4. CodeOffset' = base + Len(W)
    BY <1>6, <1>7
  <2> HIDE DEF base
  <2> QED BY <2>1, <2>3, <2>4, <1>3
<1>9. \A a \in Addrs : image'[a] = IF base <= a /\ a < CodeOffset' THEN W[a - base + 1]
                                   ELSE image[a]
  BY <1>6
<1> QED BY <1>1, <1>6, <1>8, <1>9 DEF EmitEffect, W

LEMMA StatementEffect ==
  ASSUME TypeOK, Statement, Errors = 0, Errors' = 0
  PROVE  CleanEffect
<1>1. ~Rejected(1) /\ ~Rejected(2)
  BY DEF Rejected
<1>2. CASE Label
  <2>1. ~(CodeOffset' >= MAX_PROGRAM) /\ Cur.op = "label"
    BY <1>2 DEF Label, Reading
  <2>2. CodeOffset' \in Int
    BY <1>2 DEF Label, Ready, TypeOK, EngineOK, DefaultOrigin
  <2> QED BY <1>2, <2>1, <2>2 DEF CleanEffect, LabelEffect, Label
<1>3. CASE Origin
  <2>1. ~(NotFound \/ V < CodeOffset) /\ Cur.op = "origin" /\ V \in Int /\ CodeOffset \in Int
    BY <1>1, <1>3, CurType DEF Origin, Reading, TypeOK, EngineOK
  <2> QED BY <1>3, <2>1 DEF CleanEffect, OriginEffect, Origin
<1>4. CASE Entrypoint
  <2>1. ~(NotFound \/ HaveEntry) /\ Cur.op = "entry"
    BY <1>1, <1>4 DEF Entrypoint, Reading
  <2> QED BY <1>4, <2>1 DEF CleanEffect, EntryEffect, Entrypoint
<1>5. CASE SetCallReg
  <2>1. ~((Pass = 1 /\ RetSet) \/ CodeOffset >= 0) /\ Cur.op = "setcall"
    BY <1>1, <1>5 DEF SetCallReg, Reading
  <2> QED BY <1>5, <2>1 DEF CleanEffect, CallRegEffect, SetCallReg
<1>6. ASSUME NEW op \in EmitOps, op = "dotret" => ~RetSet, NEW bad \in BOOLEAN,
             NEW n \in Nat, bad => n > 0, Opcode(op, bad, n)
      PROVE  CleanEffect
  BY <1>6, OpcodeEffect DEF CleanEffect
<1>7. CASE DotRet
  <2>1. ~RetSet /\ Opcode("dotret", FALSE, 0)
    BY <1>1, <1>7 DEF DotRet
  <2> QED BY <2>1, <1>6 DEF EmitOps
<1>8. CASE CodeWord \/ Plain \/ Ret
  BY <1>1, <1>6, <1>8 DEF CodeWord, Plain, Ret, EmitOps
<1>9. CASE Mov
  <2>1. NotFound \in BOOLEAN /\ ExprErrors \in Nat /\ (NotFound => ExprErrors > 0)
    BY DEF NotFound, ExprErrors
  <2> QED BY <2>1, <1>6, <1>9 DEF Mov, EmitOps
<1>10. CASE QuickBranch \/ Jmp \/ Call
  <2> DEFINE n == IF NotFound THEN 2 ELSE 1
             b(op) == NotFound \/ (IF op = "qb" THEN OutOfReach ELSE V > IMM16)
  <2>1. n \in Nat /\ n > 0
    OBVIOUS
  <2>2. PICK op \in {"qb", "jmp", "call"} : Opcode(op, b(op), n)
    BY <1>10 DEF QuickBranch, Jmp, Call
  <2>3. b(op) \in BOOLEAN /\ op \in EmitOps /\ op # "dotret"
    BY DEF NotFound, OutOfReach, EmitOps
  <2> HIDE DEF n, b
  <2> QED BY <2>1, <2>2, <2>3, <1>6
<1>11. CASE BadLine
  BY <1>1, <1>11 DEF BadLine
<1>12. CASE BadOp
  <2>1. Emit(<<ErrWord>>, 1) /\ Len(<<ErrWord>>) = 1
    BY <1>12 DEF BadOp, Opcode
  <2>2. Ready(CodeOffset) \in Int
    BY DEF Ready, TypeOK, EngineOK, NoOffset, DefaultOrigin
  <2>3. Errors' >= Errors + 1
    BY <2>1, <2>2 DEF Emit
  <2> QED BY <2>3
<1> QED BY <1>2, <1>3, <1>4, <1>5, <1>7, <1>8, <1>9, <1>10, <1>11, <1>12 DEF Statement

\* Where a clean statement leaves the program counter and the history.
LEMMA CleanFacts ==
  ASSUME TypeOK, CleanStep
  PROVE  /\ Len(program) \in Nat /\ pos \in 1 .. Len(program)
         /\ Cur \in Stmt /\ Cur = program[pos]
         /\ Pass \in 1 .. 2 /\ Pass' = Pass /\ pos' = pos + 1
         /\ program' = program /\ phase = "file" /\ phase' = "file"
         /\ \A q \in 1 .. 2, i \in 1 .. Len(program) + 1 :
              at'[q][i] = IF q = Pass /\ i = pos + 1 THEN CodeOffset' ELSE at[q][i]
         /\ Pass = 1 => Seen1 = pos - 1 /\ Seen1' = pos
         /\ Pass = 2 => Seen1 = Len(program) /\ Seen1' = Len(program)
<1>1. /\ pos \in 1 .. Len(program) /\ Len(program) \in Nat /\ Cur \in Stmt
      /\ Cur = program[pos] /\ phase = "file" /\ Pass \in 1 .. 2
  BY CurType DEF CleanStep, TypeOK, ControlOK, Cur
<1>2. /\ at \in [1 .. 2 -> [1 .. Len(program) + 1 -> Int]]
      /\ at' = [at EXCEPT ![Pass][pos + 1] = CodeOffset']
      /\ program' = program /\ Pass' = Pass /\ pos' = pos + 1 /\ phase' = phase
  BY DEF CleanStep, TypeOK, ControlOK
<1>3. \A q \in 1 .. 2, i \in 1 .. Len(program) + 1 :
        at'[q][i] = IF q = Pass /\ i = pos + 1 THEN CodeOffset' ELSE at[q][i]
  BY <1>1, <1>2
<1>4. Pass = 1 => Seen1 = pos - 1 /\ Seen1' = pos
  BY <1>1, <1>2 DEF Seen1
<1>5. Pass = 2 => Seen1 = Len(program) /\ Seen1' = Len(program)
  BY <1>1, <1>2 DEF Seen1
<1> QED BY <1>1, <1>2, <1>3, <1>4, <1>5

\* Values are never negative where the labels are placed.
LEMMA ValuePlaced ==
  ASSUME NEW e \in Expr, NEW lab \in LabelTable, \A n \in Names : lab[n] >= NoOffset
  PROVE  Value(e, lab) \in Nat
<1>1. CASE e.sym = NoSym
  BY <1>1 DEF Value, Expr
<1>2. CASE e.sym # NoSym
  <2> DEFINE l == IF lab[e.sym] = NoOffset THEN 0 ELSE lab[e.sym]
  <2>1. e.sym \in Names /\ e.mul \in Nat /\ e.add \in Nat
    BY <1>2 DEF Expr
  <2>2. l \in Nat
    BY <2>1 DEF LabelTable, NoOffset
  <2>3. Value(e, lab) = e.mul * l + e.add
    BY <1>2 DEF Value
  <2> HIDE DEF l
  <2>4. \A x, y, z \in Nat : x * y + z \in Nat
    OBVIOUS
  <2> QED BY <2>1, <2>2, <2>3, <2>4
<1> QED BY <1>1, <1>2

LEMMA PlacedStep == TypeOK /\ Placed /\ [Next]_vars => Placed'
<1> SUFFICES ASSUME TypeOK, Placed, [Next]_vars PROVE Placed'
  OBVIOUS
<1>1. /\ TypeOK' /\ CodeOffset' \in Int /\ CodeOffset' >= NoOffset
      /\ Len(program) \in Nat /\ labels \in LabelTable
      /\ at \in [1 .. 2 -> [1 .. Len(program) + 1 -> Int]]
  BY TypeStep DEF TypeOK, ControlOK, EngineOK
<1>2. program' = program
  BY DEF Next, BeginPass, OpenFails, StartPass, EndPass, Finish, vars, control, Statement,
         Label, Origin, Entrypoint, SetCallReg, DotRet, Plain, Ret, Mov, QuickBranch, Jmp,
         Call, CodeWord, BadLine, BadOp, Opcode, Rejected, NextLine
<1>3. ASSUME NEW failed, NextLine(failed), Pass \in 1 .. 2, pos \in 1 .. Len(program)
      PROVE  \A q \in 1 .. 2, i \in 1 .. Len(program') + 1 : at'[q][i] >= NoOffset
  <2>1. at' = [at EXCEPT ![Pass][pos + 1] = CodeOffset']
    BY <1>3 DEF NextLine
  <2>2. \A q \in 1 .. 2, i \in 1 .. Len(program) + 1 :
          at'[q][i] = IF q = Pass /\ i = pos + 1 THEN CodeOffset' ELSE at[q][i]
    BY <1>1, <1>3, <2>1
  <2> QED BY <1>1, <1>2, <2>2 DEF Placed
<1>4. ASSUME NEW op, Reading(op) PROVE Pass \in 1 .. 2 /\ pos \in 1 .. Len(program)
  BY <1>4, CurType DEF Reading, TypeOK, ControlOK
<1>5. CASE Label
  <2>1. labels' = labels \/ labels' = [labels EXCEPT ![Cur.e.sym] = CodeOffset']
    BY <1>5 DEF Label
  <2>2. \A n \in Names : labels'[n] >= NoOffset
    BY <1>1, <2>1 DEF Placed, LabelTable
  <2>3. \E failed : NextLine(failed)
    BY <1>5 DEF Label
  <2>4. Pass \in 1 .. 2 /\ pos \in 1 .. Len(program)
    BY <1>4, <1>5 DEF Label
  <2> QED BY <1>3, <2>2, <2>3, <2>4 DEF Placed
<1>6. CASE Statement /\ ~Label
  <2>1. labels' = labels
    BY <1>6 DEF Statement, Origin, Entrypoint, SetCallReg, DotRet, Plain, Ret, Mov,
                QuickBranch, Jmp, Call, CodeWord, BadLine, BadOp, Opcode, Rejected,
                Emit, engine
  <2>2. \E op : Reading(op)
    BY <1>6 DEF Statement, Origin, Entrypoint, SetCallReg, DotRet, Plain, Ret, Mov,
                QuickBranch, Jmp, Call, CodeWord, BadLine, BadOp, Opcode
  <2>3. NextLine(TRUE) \/ NextLine(FALSE)
    BY <1>6 DEF Statement, Origin, Entrypoint, SetCallReg, DotRet, Plain, Ret, Mov,
                QuickBranch, Jmp, Call, CodeWord, BadLine, BadOp, Opcode, Rejected
  <2> QED BY <1>3, <1>4, <2>1, <2>2, <2>3 DEF Placed
<1>7. CASE BeginPass \/ OpenFails \/ EndPass \/ Finish \/ UNCHANGED vars
  <2>1. labels' = labels /\ at' = at
    BY <1>7 DEF BeginPass, OpenFails, StartPass, EndPass, Finish, vars, engine
  <2> QED BY <1>2, <2>1 DEF Placed
<1> QED BY <1>5, <1>6, <1>7 DEF Next

LEMMA CallStatement ==
  ASSUME TypeOK, CleanStep, CleanEffect, CallInv
  PROVE  CallInv'
<1> USE CleanFacts
<1>1. CASE Cur.op = "setcall"
  <2>1. /\ ~(Pass = 1 /\ RetSet) /\ RetReg' = Cur.e.add /\ RetSet'
    BY <1>1 DEF CleanEffect, EmitEffect, LabelEffect, OriginEffect, EntryEffect,
                CallRegEffect, EmitOps
  <2>2. CASE Pass = 1
    <3>1. ~RetSet /\ \A i \in 1 .. pos - 1 : program[i].op # "setcall"
      BY <2>1, <2>2 DEF CallInv
    <3>2. /\ pos \in 1 .. Seen1' /\ program'[pos].op = "setcall"
          /\ program'[pos].e.add = RetReg'
          /\ \A j \in 1 .. Seen1' : program'[j].op = "setcall" => j = pos
      BY <1>1, <2>1, <2>2, <3>1
    <3> QED BY <2>1, <2>2, <3>2 DEF CallInv
  <2>3. CASE Pass = 2
    <3>1. pos \in 1 .. Seen1 /\ program[pos].op = "setcall"
      BY <1>1, <2>3
    <3>2. RetSet /\ RetReg = program[pos].e.add
      BY <3>1 DEF CallInv
    <3>3. RetReg' = RetReg /\ RetSet' = RetSet
      BY <2>1, <3>2 DEF TypeOK, EngineOK
    <3>4. \A i \in 1 .. pos' - 1 : program[i].op = "dotret" => ~RetSet
      <4>1. \A i \in 1 .. pos - 1 : program[i].op = "dotret" => ~RetSet
        BY <2>3 DEF CallInv
      <4> QED BY <4>1, <1>1
    <3> QED BY <2>3, <3>3, <3>4 DEF CallInv
  <2> QED BY <2>2, <2>3
<1>2. CASE Cur.op # "setcall"
  <2>1. RetReg' = RetReg /\ RetSet' = RetSet /\ (Cur.op = "dotret" => ~RetSet)
    BY <1>2 DEF CleanEffect, EmitEffect, LabelEffect, OriginEffect, EntryEffect,
                CallRegEffect
  <2>2. \A j \in 1 .. Seen1' : j \in 1 .. Seen1 \/ j = pos
    OBVIOUS
  <2>3. \A j \in 1 .. Seen1 : j \in 1 .. Seen1'
    OBVIOUS
  <2>4. \/ /\ RetSet'
           /\ \E i \in 1 .. Seen1' :
                /\ program'[i].op = "setcall" /\ program'[i].e.add = RetReg'
                /\ \A j \in 1 .. Seen1' : program'[j].op = "setcall" => j = i
        \/ /\ ~RetSet' /\ RetReg' = DefaultReg
           /\ \A i \in 1 .. Seen1' : program'[i].op # "setcall"
    BY <1>2, <2>1, <2>2, <2>3 DEF CallInv
  <2>5. Pass = 2 => \A i \in 1 .. pos' - 1 : program[i].op = "dotret" => ~RetSet
    <3>1. \A i \in 1 .. pos' - 1 : i \in 1 .. pos - 1 \/ i = pos
      OBVIOUS
    <3> QED BY <2>1, <3>1 DEF CallInv
  <2> QED BY <2>1, <2>4, <2>5 DEF CallInv
<1> QED BY <1>1, <1>2

LEMMA PlaceStatement ==
  ASSUME TypeOK, TypeOK', CleanStep, PlaceInv, CodeOffset' >= CodeOffset
  PROVE  PlaceInv'
<1> USE CleanFacts
<1>1. \A i \in 1 .. pos + 1 :
        at'[Pass][i] = IF i = pos + 1 THEN CodeOffset' ELSE at[Pass][i]
  OBVIOUS
<1>2. CodeOffset \in Int /\ CodeOffset' \in Int
  BY DEF TypeOK, EngineOK
<1>3. \A i \in 1 .. pos : at[Pass][i] \in Int /\ at[Pass][i] <= CodeOffset
  <2>1. at \in [1 .. 2 -> [1 .. Len(program) + 1 -> Int]]
    BY DEF TypeOK, ControlOK
  <2>2. \A i \in 1 .. pos : i \in 1 .. Len(program) + 1
    OBVIOUS
  <2>3. \A i \in 1 .. pos : at[Pass][i] <= CodeOffset
    BY DEF PlaceInv
  <2> QED BY <2>1, <2>2, <2>3
<1>4. ASSUME NEW i \in 1 .. pos + 1
      PROVE  at'[Pass][i] <= CodeOffset'
  <2>1. CASE i = pos + 1
    BY <1>1, <1>2, <2>1
  <2>2. CASE i \in 1 .. pos
    <3>1. at'[Pass][i] = at[Pass][i]
      BY <1>1, <2>2
    <3> QED BY <1>2, <1>3, <2>2, <3>1
  <2> QED BY <2>1, <2>2
<1>5. at'[Pass][pos + 1] = CodeOffset'
  BY <1>1
<1> QED BY <1>4, <1>5 DEF PlaceInv

LEMMA RoomStatement ==
  ASSUME TypeOK, TypeOK', CleanStep, CleanEffect, RoomInv
  PROVE  RoomInv'
<1> USE CleanFacts
<1> SUFFICES ASSUME Pass = 2, CodeOffset' > MAX_PROGRAM
             PROVE  \E i \in 1 .. pos :
                      /\ program[i].op = "origin"
                      /\ \A j \in i + 1 .. pos : program[j].op \notin EmitOps \union {"label"}
  BY DEF RoomInv
<1>1. CodeOffset \in Int /\ CodeOffset' \in Int
  BY DEF TypeOK, EngineOK
<1>2. ~EmitEffect /\ ~LabelEffect
  BY <1>1 DEF EmitEffect, LabelEffect
<1>3. CASE OriginEffect
  <2>1. pos \in 1 .. pos /\ program[pos].op = "origin" /\ pos + 1 .. pos = {}
    BY <1>3 DEF OriginEffect
  <2> QED BY <2>1
<1>4. CASE EntryEffect \/ CallRegEffect
  <2>1. CodeOffset' = CodeOffset /\ Cur.op \notin EmitOps \union {"label"}
    BY <1>4 DEF EntryEffect, CallRegEffect, EmitOps
  <2>2. PICK i \in 1 .. pos - 1 :
          /\ program[i].op = "origin"
          /\ \A j \in i + 1 .. pos - 1 : program[j].op \notin EmitOps \union {"label"}
    BY <2>1 DEF RoomInv
  <2>3. \A j \in i + 1 .. pos : j \in i + 1 .. pos - 1 \/ j = pos
    OBVIOUS
  <2> QED BY <2>1, <2>2, <2>3
<1> QED BY <1>2, <1>3, <1>4 DEF CleanEffect

\* Only a quick branch looks at the offset its words are made at.
LEMMA WordsStay ==
  ASSUME NEW s, NEW co, NEW co2, NEW lab, NEW r, s.op # "qb"
  PROVE  WordsOf(s, co, lab, r) = WordsOf(s, co2, lab, r)
BY DEF WordsOf

\* A statement that sets the offset leaves it set.
LEMMA AfterPlaced ==
  ASSUME NEW s \in Stmt, NEW co \in Int, co >= NoOffset, NEW lab \in LabelTable,
         \A n \in Names : lab[n] >= NoOffset,
         s.op \in EmitOps \union {"label", "origin"}
  PROVE  After(s, co, lab) \in Nat
<1>1. Ready(co) \in Nat
  BY DEF Ready, NoOffset, DefaultOrigin
<1>2. Value(s.e, lab) \in Nat
  BY ValuePlaced DEF Stmt
<1>3. CASE s.op = "origin"
  BY <1>2, <1>3 DEF After, EmitOps
<1>4. CASE s.op = "label"
  BY <1>1, <1>4 DEF After, EmitOps
<1>5. CASE s.op \in EmitOps
  <2>1. After(s, co, lab) = Ready(co) + Size(s, lab)
    BY <1>5 DEF After, EmitOps
  <2> QED BY <1>1, <2>1 DEF Size
<1> QED BY <1>3, <1>4, <1>5

\* In pass 2 of an anchored program a quick branch finds the offset set.
LEMMA BranchAnchored ==
  ASSUME TypeOK, CleanStep, AgreeInv, Errors = 0, Placed, PlaceInv, Pass = 2,
         SettledSizes(program), Anchored(program), Cur.op = "qb"
  PROVE  CodeOffset # NoOffset
<1> USE CleanFacts
<1>1. PICK j \in 1 .. pos - 1 : program[j].op \in EmitOps \union {"label", "origin"}
  <2>1. pos \in 1 .. Len(program) /\ program[pos].op = "qb"
    OBVIOUS
  <2> QED BY <2>1 DEF Anchored
<1>2. j \in 1 .. Len(program) /\ j + 1 \in 1 .. pos /\ j \in 1 .. Len(program) + 1
  OBVIOUS
<1>3. program[j] \in Stmt /\ at[1][j] \in Int /\ at[1][j] >= NoOffset /\ labels \in LabelTable
  BY <1>2 DEF TypeOK, ControlOK, EngineOK, Placed
<1>4. at[1][j + 1] = After(program[j], at[1][j], labels)
  BY <1>2 DEF AgreeInv
<1>5. at[1][j + 1] \in Nat
  BY <1>1, <1>3, <1>4, AfterPlaced DEF Placed
<1>6. at[2][j + 1] = at[1][j + 1]
  BY <1>2 DEF AgreeInv
<1>7. at[2][j + 1] <= CodeOffset
  BY <1>2 DEF PlaceInv
<1> QED BY <1>5, <1>6, <1>7 DEF NoOffset

LEMMA ImageStatement ==
  ASSUME TypeOK, TypeOK', CleanStep, CleanEffect, AgreeInv, AgreeInv', Errors = 0,
         Errors' = 0, Placed, CallInv, PlaceInv, SettledSizes(program), ImageInv
  PROVE  ImageInv'
<1> USE CleanFacts
<1> DEFINE base == Ready(CodeOffset)
           slot(a) == /\ Cur.op \in EmitOps /\ base <= a /\ a < CodeOffset'
           W == WordsOf(Cur, CodeOffset, labels, RetReg)
<1>1. \A a \in Addrs : image'[a] = IF slot(a) THEN W[a - base + 1] ELSE image[a]
  BY DEF CleanEffect, EmitEffect, LabelEffect, OriginEffect, EntryEffect, CallRegEffect,
         EmitOps
<1>2. at[Pass][pos] = CodeOffset /\ \A i \in 1 .. pos : at[Pass][i] <= CodeOffset
  BY DEF PlaceInv
<1>3. /\ at'[Pass][pos] = CodeOffset /\ at'[Pass][pos + 1] = CodeOffset'
      /\ at'[1][pos] = CodeOffset /\ at'[1][pos + 1] = CodeOffset'
  <2>1. at'[Pass][pos] = CodeOffset /\ at'[Pass][pos + 1] = CodeOffset'
    BY <1>2
  <2>2. Pass = 2 => at'[2][pos] = at'[1][pos] /\ at'[2][pos + 1] = at'[1][pos + 1]
    BY DEF AgreeInv
  <2> QED BY <2>1, <2>2
<1>4. \A i \in 1 .. Seen1 : at'[1][i] = at[1][i] /\ at'[1][i + 1] = at[1][i + 1]
  BY SMTT(20)
<1> HIDE DEF W, slot
<1>5. ASSUME NEW a \in Addrs, image'[a] # Zero
      PROVE  \E i \in 1 .. Seen1' : Spans(1, i, a)'
  <2>1. CASE slot(a)
    <3>1. PICK k \in 1 .. Len(program) : k = pos
      OBVIOUS
    <3>2. Spans(1, k, a)'
      BY <1>3, <2>1, <3>1 DEF Spans, slot
    <3>3. k \in 1 .. Seen1'
      BY <3>1
    <3> QED BY <3>2, <3>3
  <2>2. CASE ~slot(a)
    <3>1. image[a] # Zero
      BY <1>1, <1>5, <2>2
    <3>2. PICK i \in 1 .. Seen1 : Spans(1, i, a)
      BY <3>1 DEF ImageInv
    <3>3. Spans(1, i, a)'
      BY <1>4, <3>2 DEF Spans
    <3>4. i \in 1 .. Seen1'
      OBVIOUS
    <3> QED BY <3>3, <3>4
  <2> QED BY <2>1, <2>2
<1>6. ASSUME Pass = 2, Anchored(program), NEW i \in 1 .. pos, NEW a \in Addrs,
             Spans(2, i, a)'
      PROVE  image'[a] = WordsOf(program[i], Ready(at'[2][i]), labels', RetReg')
                           [a - Ready(at'[2][i]) + 1]
  <2>1. labels' = labels
    BY <1>6 DEF CleanStep
  <2>2. RetReg' = RetReg
    <3>1. CASE Cur.op = "setcall"
      <4>1. RetReg' = program[pos].e.add
        BY <3>1 DEF CleanEffect, EmitEffect, LabelEffect, OriginEffect, EntryEffect,
                    CallRegEffect, EmitOps
      <4>2. pos \in 1 .. Seen1 /\ program[pos].op = "setcall"
        BY <1>6, <3>1
      <4>3. RetReg = program[pos].e.add
        BY <4>2 DEF CallInv
      <4> QED BY <4>1, <4>3
    <3>2. CASE Cur.op # "setcall"
      BY <3>2 DEF CleanEffect, EmitEffect, LabelEffect, OriginEffect, EntryEffect,
                  CallRegEffect
    <3> QED BY <3>1, <3>2
  <2>3. CASE i = pos
    <3>1. slot(a)
      BY <1>3, <1>6, <2>3 DEF Spans, slot
    <3>2. image'[a] = W[a - base + 1]
      BY <1>1, <3>1
    <3>3. W = WordsOf(Cur, base, labels, RetReg)
      <4>1. CASE Cur.op = "qb"
        <5>1. base = CodeOffset
          BY <1>6, <4>1, BranchAnchored DEF Ready
        <5> QED BY <5>1 DEF W
      <4>2. CASE Cur.op # "qb"
        BY <4>2, WordsStay DEF W
      <4> QED BY <4>1, <4>2
    <3>4. Ready(at'[2][i]) = base /\ program[i] = Cur
      BY <1>3, <1>6, <2>3
    <3> QED BY <2>1, <2>2, <3>2, <3>3, <3>4
  <2>4. CASE i \in 1 .. pos - 1
    <3>1. at'[2][i] = at[2][i] /\ at'[2][i + 1] = at[2][i + 1]
      BY <1>6, <2>4
    <3>2. Spans(2, i, a)
      BY <1>6, <3>1 DEF Spans
    <3>3. ~slot(a)
      <4>1. a \in Int /\ CodeOffset \in Int /\ base \in Int /\ base >= CodeOffset
        BY DEF Addrs, TypeOK, EngineOK, Ready, NoOffset, DefaultOrigin
      <4>2. at[2][i + 1] <= CodeOffset /\ at[2][i + 1] \in Int
        <5>1. i + 1 \in 1 .. pos /\ i + 1 \in 1 .. Len(program) + 1
          BY <2>4
        <5> QED BY <1>2, <1>6, <5>1 DEF TypeOK, ControlOK
      <4>3. a < at[2][i + 1]
        BY <3>2 DEF Spans
      <4> HIDE DEF base
      <4>4. ~(base <= a)
        BY <4>1, <4>2, <4>3
      <4> QED BY <4>4 DEF slot
    <3>4. image'[a] = image[a]
      BY <1>1, <3>3
    <3> QED BY <1>6, <2>1, <2>2, <2>4, <3>1, <3>2, <3>4 DEF ImageInv
  <2> QED BY <2>3, <2>4
<1> QED BY <1>5, <1>6 DEF ImageInv

LEMMA EntryStatement ==
  ASSUME TypeOK, TypeOK', CleanStep, CleanEffect, Placed, PlaceInv, EntryInv
  PROVE  EntryInv'
<1> USE CleanFacts
<1> SUFFICES ASSUME Pass = 2 PROVE EntryInv'
  BY DEF EntryInv
<1> DEFINE Entered(k) == \E i \in 1 .. k : program[i].op = "entry"
                                           /\ EntryPoint = Value(program[i].e, labels)
<1>1. labels' = labels /\ labels \in LabelTable
  BY DEF CleanStep, TypeOK, EngineOK
<1>2. \A i \in 1 .. Len(program) : Value(program[i].e, labels) \in Nat
  <2>1. \A i \in 1 .. Len(program) : program[i].e \in Expr
    <3>1. \A i \in 1 .. Len(program) : program[i] \in Stmt
      BY DEF TypeOK, ControlOK
    <3> QED BY <3>1 DEF Stmt
  <2> QED BY <1>1, <2>1, ValuePlaced DEF Placed
<1>3. /\ at[2][pos] = CodeOffset /\ at'[2][pos] = CodeOffset
      /\ at'[2][pos + 1] = CodeOffset'
      /\ \A i \in 1 .. pos - 1 : at'[2][i] = at[2][i] /\ at'[2][i + 1] = at[2][i + 1]
  BY DEF PlaceInv
<1>4. \A i \in 1 .. pos - 1 : i \in 1 .. pos /\ i \in 1 .. Len(program)
  OBVIOUS
<1>5. \A i \in 1 .. pos : i \in 1 .. pos - 1 \/ i = pos
  OBVIOUS
<1>6. CodeOffset \in Int /\ CodeOffset >= NoOffset /\ EntryPoint \in Int
  BY DEF TypeOK, EngineOK
<1>7. CASE Cur.op = "entry"
  <2>1. HaveEntry' /\ EntryPoint' = Value(program[pos].e, labels)
    BY <1>7 DEF CleanEffect, EmitEffect, LabelEffect, OriginEffect, EntryEffect,
                CallRegEffect, EmitOps, V
  <2> QED BY <1>1, <1>7, <2>1 DEF EntryInv
<1>8. CASE Cur.op # "entry" /\ HaveEntry
  <2>1. PICK i \in 1 .. pos - 1 :
          program[i].op = "entry" /\ EntryPoint = Value(program[i].e, labels)
    BY <1>8 DEF EntryInv
  <2>2. EntryPoint >= 0
    BY <1>2, <1>4, <2>1
  <2>3. EntryPoint' = EntryPoint
    <3>1. ~(EntryPoint < 0) /\ EntryAfterUse = EntryPoint
      BY <1>6, <2>2 DEF EntryAfterUse
    <3> QED BY <1>8, <3>1 DEF CleanEffect, EmitEffect, LabelEffect, OriginEffect,
                EntryEffect, CallRegEffect
  <2>4. HaveEntry'
    BY <1>8 DEF CleanEffect, EmitEffect, LabelEffect, OriginEffect, EntryEffect,
                CallRegEffect
  <2> QED BY <1>1, <1>4, <2>1, <2>3, <2>4 DEF EntryInv
<1>9. CASE Cur.op # "entry" /\ ~HaveEntry
  <2>1. ~HaveEntry'
    BY <1>9 DEF CleanEffect, EmitEffect, LabelEffect, OriginEffect, EntryEffect,
                CallRegEffect
  <2>2. \A i \in 1 .. pos : program[i].op # "entry"
    BY <1>5, <1>9 DEF EntryInv
  <2>3. CASE CodeOffset = NoOffset
    <3>1. EntryPoint = NoOffset
      BY <1>9, <2>3, <1>3, <1>4 DEF EntryInv
    <3>2. CASE EmitEffect \/ LabelEffect
      <4>1. EntryPoint' = DefaultOrigin /\ CodeOffset' # NoOffset /\ Cur.op # "origin"
        <5>1. Ready(CodeOffset) = DefaultOrigin
          BY <2>3 DEF Ready
        <5>2. EntryPoint' = DefaultOrigin
          BY <2>3, <3>1, <3>2 DEF EmitEffect, LabelEffect, EntryAfterUse, NoOffset
        <5>3. CodeOffset' >= DefaultOrigin /\ CodeOffset' \in Int
          BY <3>2, <5>1 DEF EmitEffect, LabelEffect, TypeOK, EngineOK, DefaultOrigin
        <5> QED BY <3>2, <5>2, <5>3
                DEF EmitEffect, LabelEffect, EmitOps, DefaultOrigin, NoOffset
      <4> QED BY <1>3, <2>1, <2>2, <2>3, <4>1 DEF EntryInv
    <3>3. CASE OriginEffect
      <4>1. CodeOffset' \in Nat /\ EntryPoint' = CodeOffset' /\ Cur.op = "origin"
        BY <1>2, <3>1, <3>3 DEF OriginEffect, V, NoOffset
      <4>2. CodeOffset' # NoOffset
        BY <4>1 DEF NoOffset
      <4> QED BY <1>3, <2>1, <2>2, <2>3, <4>1, <4>2 DEF EntryInv
    <3>4. CASE CallRegEffect
      <4>1. CodeOffset' = NoOffset /\ EntryPoint' = NoOffset
        BY <2>3, <3>1, <3>4 DEF CallRegEffect
      <4> QED BY <2>1, <2>2, <4>1 DEF EntryInv
    <3> QED BY <1>9, <3>2, <3>3, <3>4 DEF CleanEffect, EntryEffect
  <2>4. CASE CodeOffset # NoOffset
    <3>1. PICK i \in 1 .. pos - 1 :
            /\ at[2][i] = NoOffset /\ at[2][i + 1] # NoOffset
            /\ EntryPoint = IF program[i].op = "origin" THEN at[2][i + 1] ELSE DefaultOrigin
      BY <1>9, <2>4 DEF EntryInv
    <3>2. at[2][i + 1] \in Nat
      <4>1. i + 1 \in 1 .. Len(program) + 1
        OBVIOUS
      <4>2. at[2][i + 1] \in Int /\ at[2][i + 1] >= NoOffset
        BY <4>1 DEF TypeOK, ControlOK, Placed
      <4> QED BY <3>1, <4>2 DEF NoOffset
    <3>3. EntryPoint >= 0
      BY <3>1, <3>2 DEF DefaultOrigin
    <3>4. EntryPoint' = EntryPoint
      BY <1>6, <1>9, <3>3 DEF CleanEffect, EmitEffect, LabelEffect, OriginEffect,
                  EntryEffect, CallRegEffect, EntryAfterUse
    <3>5. CodeOffset' # NoOffset
      BY <1>6, <2>4 DEF CleanEffect, EmitEffect, LabelEffect, OriginEffect, EntryEffect,
                  CallRegEffect, NoOffset, Ready, TypeOK, EngineOK, V
    <3>6. i \in 1 .. pos
      OBVIOUS
    <3> QED BY <1>3, <2>1, <2>2, <3>1, <3>4, <3>5, <3>6 DEF EntryInv
  <2> QED BY <2>3, <2>4
<1> QED BY <1>7, <1>8, <1>9

LEMMA OutputInit == Init => OutputInv
<1> SUFFICES ASSUME Init PROVE OutputInv
  OBVIOUS
<1>1. Len(program) \in Nat /\ pos = 1 /\ Pass = 0 /\ Seen1 = 0
  BY DEF Init, Seen1
<1>2. Placed
  BY <1>1 DEF Init, Placed, NoOffset
<1>3. CallInv
  BY <1>1 DEF Init, CallInv
<1>4. PlaceInv /\ RoomInv /\ EntryInv
  BY <1>1 DEF PlaceInv, RoomInv, EntryInv
<1>5. ImageInv
  BY <1>1 DEF Init, ImageInv
<1>6. WrittenLast
  BY DEF Init, WrittenLast
<1> QED BY <1>2, <1>3, <1>4, <1>5, <1>6 DEF OutputInv

LEMMA OutputStep ==
  TypeOK /\ AgreeInv /\ FreshBelow /\ OutputInv /\ [Next]_vars => OutputInv'
<1> SUFFICES ASSUME TypeOK, AgreeInv, FreshBelow, OutputInv, [Next]_vars
             PROVE  OutputInv'
  OBVIOUS
<1>1. TypeOK' /\ AgreeInv' /\ Placed'
  BY TypeStep, AgreeStep, PlacedStep DEF OutputInv
<1>2. WrittenLast'
  <2>1. CASE Finish
    BY <2>1 DEF Finish, WrittenLast
  <2>2. CASE Statement \/ BeginPass \/ OpenFails \/ EndPass
    <3>1. phase # "done" /\ written' = written
      BY <2>2 DEF BeginPass, OpenFails, StartPass, EndPass, Statement, Label, Origin,
             Entrypoint, SetCallReg, DotRet, Plain, Ret, Mov, QuickBranch, Jmp, Call,
             CodeWord, BadLine, BadOp, Opcode, Rejected, NextLine, Reading
    <3> QED BY <3>1 DEF OutputInv, WrittenLast
  <2>3. CASE UNCHANGED vars
    BY <2>3 DEF vars, control, OutputInv, WrittenLast
  <2> QED BY <2>1, <2>2, <2>3 DEF Next
<1> SUFFICES ASSUME Errors' = 0
             PROVE  /\ CallInv' /\ PlaceInv'
                    /\ SettledSizes(program)' => ImageInv' /\ RoomInv' /\ EntryInv'
  BY <1>1, <1>2 DEF OutputInv
<1>3. Len(program) \in Nat /\ Pass \in 0 .. 2 /\ Errors \in Nat /\ pos \in 1 .. Len(program) + 1
  BY DEF TypeOK, ControlOK, ErrorsOK
<1>4. ASSUME NEW opened \in BOOLEAN, StartPass(opened)
      PROVE  /\ CallInv' /\ PlaceInv'
             /\ SettledSizes(program)' => ImageInv' /\ RoomInv' /\ EntryInv'
  <2>1. /\ Errors = 0 /\ phase = "between" /\ phase' = "file"
        /\ Pass < 2 /\ Pass' = Pass + 1 /\ pos' = 1
        /\ CodeOffset' = NoOffset /\ EntryPoint' = NoOffset /\ ~HaveEntry'
        /\ UNCHANGED <<program, labels, at, RetReg, RetSet, image>>
    BY <1>4 DEF StartPass
  <2>2. /\ CallInv /\ PlaceInv
        /\ SettledSizes(program) => ImageInv /\ RoomInv /\ EntryInv
    BY <2>1 DEF OutputInv
  <2>3. Seen1' = Seen1
    BY <1>3, <2>1, <2>2 DEF Seen1, PlaceInv
  <2>4. at'[Pass'][1] = NoOffset
    BY <1>3, <2>1 DEF AgreeInv
  <2>5. PlaceInv'
    <3>1. \A i \in 1 .. pos' : i = 1
      BY <2>1
    <3> QED BY <2>1, <2>4, <3>1 DEF PlaceInv, NoOffset
  <2>6. CallInv'
    BY <2>1, <2>2, <2>3 DEF CallInv
  <2>7. RoomInv' /\ EntryInv'
    BY <2>1 DEF RoomInv, EntryInv, NoOffset
  <2>8. ASSUME SettledSizes(program) PROVE ImageInv'
    <3>1. \A a \in Addrs : image'[a] # Zero => \E i \in 1 .. Seen1' : Spans(1, i, a)'
      BY <2>1, <2>2, <2>3, <2>8 DEF ImageInv, Spans
    <3> QED BY <2>1, <3>1 DEF ImageInv
  <2> QED BY <2>1, <2>5, <2>6, <2>7, <2>8
<1>5. CASE Statement
  <2>1. Errors = 0 /\ CleanStep /\ CleanEffect
    BY <1>3, <1>5, CleanStatement, StatementEffect, ErrorsKept
  <2>2. /\ CallInv /\ PlaceInv /\ Placed
        /\ SettledSizes(program) => ImageInv /\ RoomInv /\ EntryInv
    BY <2>1 DEF OutputInv
  <2>3. CodeOffset' >= CodeOffset
    BY <1>5, StatementForward DEF Forward
  <2>4. CallInv' /\ PlaceInv'
    BY <1>1, <2>1, <2>2, <2>3, CallStatement, PlaceStatement
  <2>5. program' = program
    BY <2>1 DEF CleanStep
  <2>6. ASSUME SettledSizes(program) PROVE ImageInv' /\ RoomInv' /\ EntryInv'
    BY <1>1, <2>1, <2>2, <2>6, ImageStatement, RoomStatement, EntryStatement
  <2> QED BY <2>4, <2>5, <2>6
<1>6. ASSUME Errors = 0, UNCHANGED <<engine, program, Pass, pos, at>>,
             phase' = "between" => pos = Len(program) + 1
      PROVE  /\ CallInv' /\ PlaceInv'
             /\ SettledSizes(program)' => ImageInv' /\ RoomInv' /\ EntryInv'
  <2>1. /\ CallInv /\ PlaceInv
        /\ SettledSizes(program) => ImageInv /\ RoomInv /\ EntryInv
    BY <1>6 DEF OutputInv
  <2>2. CallInv' /\ PlaceInv'
    BY <1>6, <2>1 DEF engine, CallInv, PlaceInv, Seen1
  <2>3. ASSUME SettledSizes(program) PROVE ImageInv' /\ RoomInv' /\ EntryInv'
    <3>1. \A a \in Addrs : image'[a] # Zero => \E i \in 1 .. Seen1' : Spans(1, i, a)'
      BY <1>6, <2>1, <2>3 DEF engine, ImageInv, Seen1, Spans
    <3>2. Pass = 2 /\ Anchored(program) =>
            \A i \in 1 .. pos - 1, a \in Addrs :
              Spans(2, i, a)' =>
                image'[a] = WordsOf(program'[i], Ready(at'[2][i]), labels', RetReg')
                              [a - Ready(at'[2][i]) + 1]
      BY <1>6, <2>1, <2>3 DEF engine, ImageInv, Spans
    <3>3. ImageInv'
      BY <1>6, <3>1, <3>2 DEF ImageInv
    <3>4. RoomInv' /\ EntryInv'
      BY <1>6, <2>1, <2>3 DEF engine, RoomInv, EntryInv
    <3> QED BY <3>3, <3>4
  <2> QED BY <1>6, <2>2, <2>3
<1>7. CASE EndPass
  <2>1. /\ Errors = 0 /\ UNCHANGED <<engine, program, Pass, pos, at>>
        /\ phase = "file" /\ ~FatalError
    BY <1>7 DEF EndPass, AgreeInv
  <2>2. pos = Len(program) + 1
    <3>1. ~GivenUp
      BY <2>1 DEF GivenUp
    <3> QED BY <1>3, <1>7, <3>1 DEF EndPass
  <2> QED BY <1>6, <2>1, <2>2
<1>8. CASE Finish
  <2>1. Moved \in 0 .. 1 /\ Errors' = Errors + Moved
    BY <1>8 DEF Finish, Moved
  <2> QED BY <1>3, <1>6, <1>8, <2>1 DEF Finish
<1>9. CASE UNCHANGED vars
  <2>1. CASE phase = "between" /\ Pass # 0
    <3>1. pos = Len(program) + 1
      BY <1>9, <2>1 DEF vars, OutputInv, PlaceInv
    <3> QED BY <1>6, <1>9, <3>1 DEF vars, control
  <2>2. CASE phase # "between"
    BY <1>6, <1>9, <2>2 DEF vars, control
  <2>3. CASE Pass = 0
    <3>1. UNCHANGED <<engine, program, Pass, pos, at, phase, Errors>>
      BY <1>9 DEF vars, control
    <3> QED BY <2>3, <3>1 DEF OutputInv, engine, CallInv, PlaceInv, RoomInv, EntryInv,
                ImageInv, Spans, Seen1
  <2> QED BY <2>1, <2>2, <2>3
<1> QED BY <1>4, <1>5, <1>7, <1>8, <1>9 DEF Next, BeginPass, OpenFails

\* Assembly reads a program as the engine does: both take it from PasmProgram.
LEMMA SameTerms ==
  /\ Abstract!NoOffset = NoOffset /\ Abstract!DefaultOrigin = DefaultOrigin
  /\ Abstract!DefaultReg = DefaultReg /\ Abstract!EmitOps = EmitOps /\ Abstract!Zero = Zero
  /\ \A co : Abstract!Ready(co) = Ready(co)
  /\ \A e, lab : Abstract!Value(e, lab) = Value(e, lab)
  /\ \A s, lab : Abstract!Size(s, lab) = Size(s, lab)
  /\ \A s, co, lab : Abstract!After(s, co, lab) = After(s, co, lab)
  /\ \A s, co, lab, r : Abstract!WordsOf(s, co, lab, r) = WordsOf(s, co, lab, r)
  /\ \A p : Abstract!Regular(p) <=> Regular(p)
<1>1. /\ Abstract!NoOffset = NoOffset /\ Abstract!DefaultOrigin = DefaultOrigin
      /\ Abstract!DefaultReg = DefaultReg /\ Abstract!EmitOps = EmitOps
      /\ Abstract!IMM16 = IMM16 /\ Abstract!NoReg = NoReg
      /\ Abstract!SizedOps = SizedOps
  BY DEF Abstract!NoOffset, NoOffset, Abstract!DefaultOrigin, DefaultOrigin,
         Abstract!DefaultReg, DefaultReg, Abstract!EmitOps, EmitOps, Abstract!IMM16, IMM16,
         Abstract!NoReg, NoReg, Abstract!SizedOps, SizedOps
<1>2. \A k, x, y : Abstract!Word(k, x, y) = Word(k, x, y)
  BY DEF Abstract!Word, Word
<1>3. Abstract!Zero = Zero
  BY <1>1, <1>2 DEF Abstract!Zero, Zero
<1>4. \A co : Abstract!Ready(co) = Ready(co)
  BY <1>1 DEF Abstract!Ready, Ready
<1>5. \A e, lab : Abstract!Value(e, lab) = Value(e, lab)
  BY <1>1 DEF Abstract!Value, Value
<1>6. \A s, lab : Abstract!Wide(s, lab) <=> Wide(s, lab)
  BY <1>1, <1>5 DEF Abstract!Wide, Wide
<1>7. \A s, lab : Abstract!Size(s, lab) = Size(s, lab)
  BY <1>6 DEF Abstract!Size, Size
<1>8. \A s, co, lab : Abstract!After(s, co, lab) = After(s, co, lab)
  BY <1>1, <1>4, <1>5, <1>7 DEF Abstract!After, After
<1>9. \A s, co, lab, r : Abstract!WordsOf(s, co, lab, r) = WordsOf(s, co, lab, r)
  BY <1>1, <1>2, <1>5, <1>6 DEF Abstract!WordsOf, WordsOf
<1>10. \A p : Abstract!Regular(p) <=> Regular(p)
  <2>1. \A p, i, n : Abstract!DefinesBefore(p, i, n) <=> DefinesBefore(p, i, n)
    BY DEF Abstract!DefinesBefore, DefinesBefore
  <2>2. \A p : Abstract!SettledSizes(p) <=> SettledSizes(p)
    BY <1>1, <2>1 DEF Abstract!SettledSizes, SettledSizes
  <2>3. \A p : Abstract!Anchored(p) <=> Anchored(p)
    BY <1>1 DEF Abstract!Anchored, Anchored
  <2> QED BY <2>2, <2>3 DEF Abstract!Regular, Regular
<1> QED BY <1>1, <1>3, <1>4, <1>5, <1>7, <1>8, <1>9, <1>10

\* The engine at the end of pass 2 holds a correct assembly.
LEMMA CorrectAtEnd ==
  ASSUME TypeOK, AgreeInv, OutputInv, phase = "between", Pass = 2, Errors = 0,
         CodeOffset > 0, Regular(program),
         NEW o, o.loc = at[2], o.labels = labels, o.image = image,
         o.size = CodeOffset, o.entry = EntryPoint
  PROVE  Abstract!Correct(program, o)
<1> DEFINE L == Len(program)
<1>1. /\ L \in Nat /\ pos = L + 1 /\ at[2][L + 1] = CodeOffset /\ Seen1 = L
      /\ CodeOffset \in Int /\ labels \in LabelTable
      /\ SettledSizes(program) /\ Anchored(program)
  BY DEF TypeOK, ControlOK, EngineOK, OutputInv, PlaceInv, Seen1, Regular
<1>2. \A i \in 1 .. L : i \in 1 .. Seen1 /\ i \in 1 .. pos /\ i \in 1 .. pos - 1
                        /\ i + 1 \in 1 .. pos
  BY <1>1
<1>3. \A i \in 1 .. pos : at[2][i] = at[1][i]
  BY <1>1 DEF AgreeInv
<1>4. \A i \in 1 .. L :
        /\ at[2][i + 1] = After(program[i], at[2][i], labels)
        /\ program[i].op = "label" => labels[program[i].e.sym] = Ready(at[2][i])
  <2> SUFFICES ASSUME NEW i \in 1 .. L
               PROVE  /\ at[2][i + 1] = After(program[i], at[2][i], labels)
                      /\ program[i].op = "label" => labels[program[i].e.sym] = Ready(at[2][i])
    OBVIOUS
  <2>1. at[2][i] = at[1][i] /\ at[2][i + 1] = at[1][i + 1]
    BY <1>2, <1>3
  <2>2. at[1][i + 1] = After(program[i], at[1][i], labels)
    BY <1>1, <1>2 DEF AgreeInv
  <2>3. program[i].op = "label" => labels[program[i].e.sym] = Ready(at[1][i])
    BY <1>1, <1>2 DEF AgreeInv
  <2> QED BY <2>1, <2>2, <2>3
<1>5. Abstract!LayoutOK(program, o)
  <2>1. at[2][1] = NoOffset
    BY DEF AgreeInv
  <2> QED BY <1>1, <1>4, <2>1, SameTerms DEF Abstract!LayoutOK
\* A statement covers the words it spans.
<1>6. ASSUME NEW i \in 1 .. L, NEW a \in Addrs
      PROVE  Abstract!Covers(program, o, i, a) <=> Spans(2, i, a)
  <2>1. CASE program[i].op \in EmitOps
    <3>1. at[2][i + 1] = Ready(at[2][i]) + Size(program[i], labels)
      BY <1>4, <2>1 DEF After, EmitOps
    <3>2. i \in 1 .. L + 1
      OBVIOUS
    <3>3. at[2][i] \in Int /\ a \in Int
      BY <3>2 DEF TypeOK, ControlOK, Addrs
    <3>4. Ready(at[2][i]) \in Int /\ Size(program[i], labels) \in Int
      BY <3>3 DEF Ready, DefaultOrigin, Size
    <3>5. a \in Ready(at[2][i]) .. Ready(at[2][i]) + Size(program[i], labels) - 1
          <=> Ready(at[2][i]) <= a /\ a < Ready(at[2][i]) + Size(program[i], labels)
      BY <3>3, <3>4
    <3> QED BY <2>1, <3>1, <3>5, SameTerms DEF Spans, Abstract!Covers
  <2>2. CASE program[i].op \notin EmitOps
    BY <2>2, SameTerms DEF Spans, Abstract!Covers
  <2> QED BY <2>1, <2>2
<1>7. Abstract!WordsOK(program, o, RetReg)
  <2> SUFFICES ASSUME NEW a \in Addrs
               PROVE  \/ \E i \in 1 .. L :
                           /\ Abstract!Covers(program, o, i, a)
                           /\ image[a] = WordsOf(program[i], Ready(at[2][i]), labels, RetReg)
                                           [a - Ready(at[2][i]) + 1]
                      \/ /\ \A i \in 1 .. L : ~Abstract!Covers(program, o, i, a)
                         /\ image[a] = Zero
    BY SameTerms DEF Abstract!WordsOK, Addrs
  <2>1. ImageInv
    BY <1>1 DEF OutputInv
  <2>2. CASE \E i \in 1 .. L : Spans(2, i, a)
    <3>1. PICK i \in 1 .. L : Spans(2, i, a)
      BY <2>2
    <3>2. image[a] = WordsOf(program[i], Ready(at[2][i]), labels, RetReg)
                       [a - Ready(at[2][i]) + 1]
      BY <1>1, <1>2, <2>1, <3>1 DEF ImageInv
    <3> QED BY <1>6, <3>1, <3>2
  <2>3. CASE ~ \E i \in 1 .. L : Spans(2, i, a)
    <3>1. ASSUME NEW i \in 1 .. Seen1 PROVE ~Spans(1, i, a)
      <4>1. i \in 1 .. L /\ ~Spans(2, i, a)
        BY <1>1, <2>3
      <4>2. at[2][i] = at[1][i] /\ at[2][i + 1] = at[1][i + 1]
        BY <1>2, <1>3, <4>1
      <4> QED BY <4>1, <4>2 DEF Spans
    <3>2. image[a] = Zero
      BY <2>1, <3>1 DEF ImageInv
    <3> QED BY <1>6, <2>3, <3>2
  <2> QED BY <2>2, <2>3
<1>8. /\ Abstract!CallReg(program, RetReg)
      /\ RetReg \in {program[i].e.add : i \in 1 .. L} \union {DefaultReg}
  <2>1. CallInv
    BY DEF OutputInv
  <2>2. \A i \in 1 .. L : program[i].op = "dotret" => ~RetSet
    BY <1>2, <2>1 DEF CallInv
  <2>3. CASE RetSet
    <3>1. PICK i \in 1 .. L : program[i].op = "setcall" /\ program[i].e.add = RetReg
      BY <1>1, <2>1, <2>3 DEF CallInv
    <3> QED BY <2>2, <2>3, <3>1, SameTerms DEF Abstract!CallReg
  <2>4. CASE ~RetSet
    <3>1. RetReg = DefaultReg /\ \A i \in 1 .. L : program[i].op # "setcall"
      BY <1>1, <2>1, <2>4 DEF CallInv
    <3> QED BY <3>1, SameTerms DEF Abstract!CallReg
  <2> QED BY <2>3, <2>4
<1>9. Abstract!EntryOK(program, o)
  <2>1. EntryInv
    BY <1>1 DEF OutputInv
  <2>2. CASE HaveEntry
    <3>1. PICK i \in 1 .. L : program[i].op = "entry" /\ EntryPoint = Value(program[i].e, labels)
      BY <1>1, <2>1, <2>2 DEF EntryInv
    <3> QED BY <3>1, SameTerms DEF Abstract!EntryOK
  <2>3. CASE ~HaveEntry
    <3>1. \A i \in 1 .. L : program[i].op # "entry"
      BY <1>1, <2>1, <2>3 DEF EntryInv
    <3>2. PICK i \in 1 .. L :
            /\ at[2][i] = NoOffset /\ at[2][i + 1] # NoOffset
            /\ EntryPoint = IF program[i].op = "origin" THEN at[2][i + 1] ELSE DefaultOrigin
      BY <1>1, <2>1, <2>3 DEF EntryInv, NoOffset
    <3> QED BY <3>1, <3>2, SameTerms DEF Abstract!EntryOK
  <2> QED BY <2>2, <2>3
<1>10. Abstract!EndsInCode(program) => CodeOffset <= MAX_PROGRAM
  <2> SUFFICES ASSUME CodeOffset > MAX_PROGRAM
               PROVE  ~Abstract!EndsInCode(program)
    BY <1>1
  <2>1. RoomInv
    BY <1>1 DEF OutputInv
  <2>2. PICK i \in 1 .. L :
          /\ program[i].op = "origin"
          /\ \A j \in i + 1 .. L : program[j].op \notin EmitOps \union {"label"}
    BY <1>1, <2>1 DEF RoomInv
  <2> QED BY <2>2, SameTerms DEF Abstract!EndsInCode
<1> QED BY <1>5, <1>7, <1>8, <1>9, <1>10, SameTerms DEF Abstract!Correct

LEMMA AssemblyStep ==
  TypeOK /\ AgreeInv /\ OutputInv /\ [Next]_vars
    => [Abstract!Finish]_<<program, phase = "done", Output>>
<1> SUFFICES ASSUME TypeOK, AgreeInv, OutputInv, [Next]_vars
             PROVE  [Abstract!Finish]_<<program, phase = "done", Output>>
  OBVIOUS
<1>1. CASE Finish
  <2>1. /\ phase = "between" /\ phase' = "done" /\ program' = program /\ ~written
        /\ UNCHANGED <<at, labels, image, CodeOffset, EntryPoint>>
    BY <1>1 DEF Finish, engine, OutputInv, WrittenLast
  <2>2. CASE ~written'
    <3>1. Output' = << >>
      BY <2>2 DEF Output
    <3> QED BY <2>1, <3>1 DEF Abstract!Finish
  <2>3. CASE written'
    <3>1. Errors' = 0 /\ Errors' = Errors + Moved /\ CodeOffset > 0
      BY <1>1, <2>3 DEF Finish
    <3>2. Errors = 0
      BY <3>1 DEF Moved, TypeOK, ErrorsOK
    <3>3. Pass = 2
      BY <1>1, <3>2 DEF Finish
    <3> DEFINE o == [loc |-> at[2], labels |-> labels, image |-> image,
                     size |-> CodeOffset, entry |-> EntryPoint]
    <3>4. Output' = << o >>
      BY <2>1, <2>3 DEF Output
    <3>5. Len(Output') = 1 /\ Output'[1] = o
      BY <3>4
    <3>6. Regular(program) => Abstract!Correct(program, o)
      BY <2>1, <3>1, <3>2, <3>3, CorrectAtEnd
    <3> QED BY <2>1, <3>5, <3>6, SameTerms DEF Abstract!Finish
  <2> QED BY <2>2, <2>3
<1>2. CASE Statement \/ BeginPass \/ OpenFails \/ EndPass
  <2>1. /\ phase # "done" /\ phase' # "done" /\ written' = written /\ program' = program
    BY <1>2 DEF BeginPass, OpenFails, StartPass, EndPass, Statement, Label, Origin,
           Entrypoint, SetCallReg, DotRet, Plain, Ret, Mov, QuickBranch, Jmp, Call,
           CodeWord, BadLine, BadOp, Opcode, Rejected, NextLine, Reading
  <2>2. ~written /\ ~written'
    BY <2>1 DEF OutputInv, WrittenLast
  <2>3. Output = << >> /\ Output' = << >>
    BY <2>2 DEF Output
  <2> QED BY <2>1, <2>3
<1>3. CASE UNCHANGED vars
  <2>1. program' = program /\ phase' = phase /\ Output' = Output
    BY <1>3 DEF vars, control, engine, Output
  <2> QED BY <2>1
<1> QED BY <1>1, <1>2, <1>3 DEF Next

\* The two passes implement the abstract assembler: for every set of programs,
\* image size, branch reach and error limit, what is written when PASM ends is
\* a correct assembly of a regular program, or nothing is.
THEOREM PassesImplementAssembly == Spec => ImplementsAssembly
<1> DEFINE Inv == TypeOK /\ AgreeInv /\ FreshBelow /\ OutputInv
<1>1. Init => Inv
  BY TypeInit, AgreeInit, FreshInit, OutputInit
<1>2. Inv /\ [Next]_vars => Inv'
  BY TypeStep, AgreeStep, FreshStep, OutputStep
<1>3. Init => Abstract!Init
  BY DEF Init, Abstract!Init, Output
<1>4. Inv /\ [Next]_vars => [Abstract!Finish]_<<program, phase = "done", Output>>
  BY AssemblyStep
<1> QED BY <1>1, <1>2, <1>3, <1>4, PTL DEF Spec, ImplementsAssembly, Abstract!Spec
=============================================================================
