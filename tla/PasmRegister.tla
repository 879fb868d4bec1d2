----------------------------- MODULE PasmRegister -----------------------------
(***************************************************************************)
(* Register names and the fields they select, shared by the parts of PASM  *)
(* that read operands (GetRegister of pasmop.c, GetRegisterOffset of       *)
(* pasmexp.c).                                                             *)
(***************************************************************************)
EXTENDS Integers, Sequences, SequencesExt

CONSTANT LAST_REG    \* the last register (31)

ASSUME RegisterAssumption == LAST_REG \in Nat

VARIABLE big         \* OPTION_BIGENDIAN, the byte order, given on the command line

\* A modifier of a register name selects a field: .b0 to .b3, .w0 to .w2.  A
\* field has a width in bits and the byte of the register it starts at.
Modifiers == {[f |-> "B", v |-> v] : v \in 0 .. 3} \cup {[f |-> "W", v |-> v] : v \in 0 .. 2}

Width(mod) == IF mod.f = "W" THEN 16 ELSE 8

Narrow(field, mod) == [ok     |-> field.ok /\ mod.v * 8 + Width(mod) <= field.width,
                       width  |-> Width(mod),
                       offset |-> field.offset + mod.v]

Whole == [ok |-> TRUE, width |-> 32, offset |-> 0]

\* GetRegister: each modifier selects a part of what is left of the register.
GetRegister(name) ==
  LET field == FoldLeft(Narrow, Whole, name.mods)
  IN  [ok |-> field.ok /\ name.reg <= LAST_REG,
       reg |-> name.reg, width |-> field.width, offset |-> field.offset]

\* The value of "&" and a register name, in big or little endian order.
GetRegisterOffset(name) ==
  LET field == GetRegister(name)
  IN  4 * field.reg +
      IF big THEN 4 - field.offset - field.width \div 8 ELSE field.offset

\* The reference for properties is the register file as memory holds it: the
\* byte at address a is lane Lane(a) of the registers, counted from the low
\* bits of R0.
Lane(a) == IF big THEN 4 * (a \div 4) + 3 - (a % 4) ELSE a

FieldLanes(field) ==
  {4 * field.reg + field.offset + k : k \in 0 .. field.width \div 8 - 1}
=============================================================================
