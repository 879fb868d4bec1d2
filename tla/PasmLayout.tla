------------------------------ MODULE PasmLayout ------------------------------
(***************************************************************************)
(* How .assign lays a structure out in the register file (StructAssign and *)
(* GetRegname of pasmstruct.c), and the three ways a program refers to a   *)
(* part of it afterwards: as a register (GetRegister of pasmop.c), with    *)
(* OFFSET and SIZE (GetFinalOffset, GetFinalSize), and with "&" (GetReg-   *)
(* isterOffset of pasmexp.c).  All of them depend on the byte order.       *)
(***************************************************************************)
EXTENDS PasmRegister

CONSTANTS
  Structures,  \* sequences of element sizes, in bytes
  StartRegs    \* the registers an assignment may start in

ASSUME LayoutAssumption ==
  /\ Structures \subseteq Seq({1, 2, 4}) \ {<<>>}
  /\ StartRegs \subseteq 0 .. LAST_REG

VARIABLES
  elements,    \* the sizes of the elements, pst->Size
  rs, re,      \* the first and the last register named; re is empty for "*"
  layout,      \* "none", "new", "rejected", "assigned", "asked" or "used"
  mapped,      \* MappedReg of each element
  query        \* what the program asks about an element, and the answers

layoutVars == <<elements, rs, re, layout, mapped, query>>

-----------------------------------------------------------------------------
(* Assignment.                                                             *)

\* Byte offset of the first byte of a field, and of the byte after its last.
StartOff(field) ==
  4 * field.reg + IF big THEN 4 - field.offset - field.width \div 8 ELSE field.offset

EndOff(field) ==
  4 * field.reg + IF big THEN 4 - field.offset ELSE field.offset + field.width \div 8

\* Mutant: bytes are named in little endian order.
RegnameLittle(off, size) ==
  [reg  |-> off \div 4,
   mods |-> CASE size = 4 -> <<>>
              [] size = 2 -> <<[f |-> "W", v |-> IF big THEN 2 - (off % 4) ELSE off % 4]>>
              [] size = 1 -> <<[f |-> "B", v |-> off % 4]>>]

Aligned(off, size) == (off % 4) + size <= 4

GetRegname(off, size) ==
  [reg  |-> off \div 4,
   mods |-> CASE size = 4 -> <<>>
              [] size = 2 -> <<[f |-> "W", v |-> IF big THEN 2 - (off % 4) ELSE off % 4]>>
              [] size = 1 -> <<[f |-> "B", v |-> IF big THEN 3 - (off % 4) ELSE off % 4]>>]

\* Offset[i], the sum of the sizes before element i.
Offset(i) == SumFunction(SubSeq(elements, 1, i - 1))
TotalSize == SumFunction(elements)

ElementOff(i) == StartOff(GetRegister(rs)) + Offset(i)

RangeOk ==
  \A r \in re : StartOff(GetRegister(rs)) + TotalSize = EndOff(GetRegister(r))

Names == [reg : StartRegs, mods : {<<>>} \cup {<<m>> : m \in Modifiers}]

LayoutInit ==
  /\ elements \in Structures
  /\ rs \in Names /\ re \in {{}} \cup {{r} : r \in Names}
  /\ layout = "new" /\ mapped = <<>> /\ query = {}

\* The range is checked, then every element, then the assignment is created.
StructAssign ==
  /\ layout = "new"
  /\ IF RangeOk /\ \A i \in DOMAIN elements : Aligned(ElementOff(i), elements[i])
     THEN /\ layout' = "assigned"
          /\ mapped' = [i \in DOMAIN elements |-> GetRegname(ElementOff(i), elements[i])]
     ELSE layout' = "rejected" /\ UNCHANGED mapped
  /\ UNCHANGED <<elements, rs, re, query>>

-----------------------------------------------------------------------------
(* References.                                                             *)

\* GetFinalSize and GetFinalOffset accept a part that lies in the element.
FinalOk(mod, size) == mod.v + Width(mod) \div 8 <= size

GetFinalSize(mod) == Width(mod) \div 8

\* Mutant: OFFSET counts from the low end of the element.
FinalOffsetLittle(mod, i) == Offset(i) + mod.v

GetFinalOffset(mod, i) ==
  Offset(i) + IF big THEN elements[i] - mod.v - GetFinalSize(mod) ELSE mod.v

\* instance.element.mod as an operand, under "&", and in OFFSET() and SIZE().
Refer(i, mod) ==
  /\ layout = "assigned" /\ layout' = "asked"
  /\ LET name == [mapped[i] EXCEPT !.mods = Append(@, mod)]
     IN  query' = {[element |-> i, field |-> GetRegister(name), sub |-> mod,
                   address |-> GetRegisterOffset(name),
                   ok |-> FinalOk(mod, elements[i]),
                   offset |-> GetFinalOffset(mod, i), size |-> GetFinalSize(mod)]}
  /\ UNCHANGED <<elements, rs, re, mapped>>

LayoutNext == StructAssign \/ \E i \in DOMAIN elements, mod \in Modifiers : Refer(i, mod)

-----------------------------------------------------------------------------
(* Properties.                                                             *)

Lanes(first, size) == {Lane(a) : a \in first .. first + size - 1}

\* The address of the first byte of a field in memory.
First(field) == CHOOSE a \in 0 .. 4 * LAST_REG + 3 :
                  Lanes(a, field.width \div 8) = FieldLanes(field)

Assigned == layout \in {"assigned", "asked", "used"}

\* Every element is a field of one register and takes the lanes of the bytes
\* that a load of the whole structure from memory to rs puts there, in either
\* byte order; an assignment that names its last register fills what lies from
\* the first to the last, and nothing beyond it (pasmstruct.c:327-510, 773-804).
InMemoryOrder ==
  Assigned =>
    LET start == First(GetRegister(rs))
        Of(i) == FieldLanes(GetRegister(mapped[i]))
    IN  /\ \A i \in DOMAIN elements : Of(i) = Lanes(start + Offset(i), elements[i])
        /\ \A last \in re :
             LET end == GetRegister(last)
             IN  UNION {Of(i) : i \in DOMAIN elements}
                   = {Lane(a) : a \in start .. First(end) + end.width \div 8 - 1}

Exists(i) == mapped[i].reg <= LAST_REG

\* A part of an element is a register exactly when it has an offset, and OFFSET,
\* SIZE, "&" and the register all mean the same bytes (pasmop.c:1311,
\* pasmstruct.c:1081-1140, pasmexp.c:491).
ReferencesAgree ==
  \A q \in query : Exists(q.element) =>
    /\ q.ok <=> q.field.ok
    /\ q.ok =>
         LET start == First(GetRegister(rs))
         IN  /\ q.address = start + q.offset
             /\ FieldLanes(q.field) = Lanes(start + q.offset, q.size)

\* "Checks alignment and returns a string of the proper register"
\* (pasmstruct.c:769): the registers of an assignment exist.
MappedExists == Assigned => \A i \in DOMAIN elements : GetRegister(mapped[i]).ok
=============================================================================
