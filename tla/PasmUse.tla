------------------------------- MODULE PasmUse -------------------------------
(***************************************************************************)
(* Operands and instructions together: a program is one instruction        *)
(* (PasmOp), or it assigns a structure to registers (PasmLayout) and then  *)
(* moves the structure or an element of it between them and memory.  The   *)
(* names, the sizes and the offsets of the move are what StructParamProcess*)
(* of pasmstruct.c puts into the line that ProcessOp reads.                *)
(***************************************************************************)
EXTENDS PasmLayout, PasmOp

CONSTANT Moves       \* the opcodes a structure is moved with

ASSUME MovesAssumption == Moves \subseteq Bursts

vars == <<big, layoutVars, opVars>>

NoInst == [op |-> "NONE", a |-> <<>>]

AnInstruction ==
  /\ OpInit
  /\ elements = <<>> /\ rs = [reg |-> 0, mods |-> <<>>] /\ re = {}
  /\ layout = "none" /\ mapped = <<>> /\ query = {}

\* A program that uses a structure is built for the default core.
AStructure ==
  /\ LayoutInit
  /\ core = 1 /\ inst = NoInst /\ state = "none" /\ rest = <<0, 0>> /\ words = <<>>

Init == big \in BOOLEAN /\ (AnInstruction \/ AStructure)

-----------------------------------------------------------------------------
(* A move of an assigned structure.                                        *)

Named(kind, name) == [k |-> kind, reg |-> name.reg, mods |-> name.mods, v |-> 0]
Number(v) == [k |-> "imm", reg |-> 0, mods |-> <<>>, v |-> v]
Base(op) == [k |-> IF op \in {"LBBO", "SBBO"} THEN "reg" ELSE "const", reg |-> 29, mods |-> <<>>, v |-> 4]

\* SIZE() and OFFSET() of an element.
StructValueOperand(i) == <<Number(elements[i]), Number(Offset(i))>>

Write(op, operands) ==
  /\ layout = "assigned" /\ layout' = "used"
  /\ inst' = [op |-> op, a |-> operands]
  /\ state' = "read"
  /\ UNCHANGED <<big, elements, rs, re, mapped, query, core, rest, words>>

\* LBBO instance, R29, 0, SIZE(instance): the instance is named by its first
\* register.
MoveAll(op, kind) ==
  Write(op, <<Named(kind, mapped[1]), Base(op), Number(0), Number(TotalSize)>>)

\* LBBO instance.element, R29, OFFSET(instance.element), SIZE(instance.element)
MovePart(op, kind, i) ==
  LET value == StructValueOperand(i)
  IN  Write(op, <<Named(kind, mapped[i]), Base(op), value[2], value[1]>>)

Layout == LayoutNext /\ UNCHANGED <<big, opVars>>
Operate == OpNext /\ UNCHANGED <<big, layoutVars>>

Move == \E op \in Moves, kind \in {"reg", "addr"} :
          MoveAll(op, kind) \/ \E i \in DOMAIN elements : MovePart(op, kind, i)

Next == Layout \/ Operate \/ Move

Spec == Init /\ [][Next]_vars

-----------------------------------------------------------------------------
(* Properties.                                                             *)

\* A burst moves the bytes of memory from .from on to and from the bytes of the
\* register file from .first on.
Burst(form) == [first |-> form.x[1].n, from |-> form.x[3].n, size |-> form.x[4].n + 1]

\* Moving a structure, or an element of it, by the sizes and offsets PASM puts
\* into the line, touches the registers of exactly the elements meant, and each
\* of them meets its own bytes of the structure in memory: names, SIZE, OFFSET,
\* the assignment and the encoded burst agree in either byte order
\* (pasmstruct.c:903-1073, pasmop.c:640-775).
MovesElements ==
  layout = "used" /\ state = "done" =>
    LET b == Burst(words[1].form)
        Inside(i) == b.from <= Offset(i) /\ Offset(i) + elements[i] <= b.from + b.size
    IN  /\ \E i \in DOMAIN elements : Inside(i)
        /\ \A i \in DOMAIN elements :
             LET lanes == FieldLanes(GetRegister(mapped[i]))
             IN  IF Inside(i) THEN lanes = Lanes(b.first + Offset(i) - b.from, elements[i])
                 ELSE lanes \cap Lanes(b.first, b.size) = {}
=============================================================================
