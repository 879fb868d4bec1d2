-------------------------------- MODULE PasmOp --------------------------------
(***************************************************************************)
(* Instructions (ProcessOp of pasmop.c): operands are read and checked,    *)
(* patched into one of a few forms, and the form is put into a word.  A    *)
(* word is the set of its bits that are 1.                                 *)
(***************************************************************************)
EXTENDS PasmRegister

CONSTANTS
  RetReg,       \* the call register, as an operand
  Insts,        \* the instructions a program may hold: an opcode and operands
  Peers         \* those of them that OneReading compares every word with

Cores == 0 .. 3      \* CORE_V0 to CORE_V3
Kinds == {"reg",     \* R1.b2
          "bit",     \* R1.b2.t3, v is the bit
          "imm",     \* #v
          "addr",    \* &R1.b2
          "ptr",     \* *&R1.b2
          "plus",    \* *R1++ and the like
          "const",   \* C12
          "r0b",     \* b2, as a length
          "jmp"}     \* a label, v is its displacement

\* An operand as it is written: its kind, the register named with its modifiers,
\* and the number.
Arguments == [k : Kinds, reg : Nat, mods : Seq(Modifiers), v : Int]

ASSUME OpAssumption ==
  /\ Insts \subseteq [op : STRING, a : Seq(Arguments)]
  /\ Peers \subseteq Insts
  /\ RetReg \in Arguments

VARIABLES
  core,
  inst,
  state,        \* "read", "clear" in the loop of ZERO, "done" or "rejected"
  rest,         \* what ZERO has left to clear
  words         \* the words generated, each with the form it encodes (history)

opVars == <<core, inst, state, rest, words>>

-----------------------------------------------------------------------------
(* Operands.  A form holds registers with a field and numbers.             *)

\* FIELDTYPE_7_0 to FIELDTYPE_31_0.
FieldType(field) == CASE field.width = 8  -> field.offset
                      [] field.width = 16 -> 4 + field.offset
                      [] field.width = 32 -> 7

R(a) == LET field == GetRegister(a) IN [t |-> "reg", n |-> field.reg, f |-> FieldType(field)]
I(v) == [t |-> "imm", n |-> v, f |-> 0]

\* Core 0 takes one modifier only, and no address.
NameOk(a, limit) == GetRegister(a).ok /\ (core = 0 => Len(a.mods) <= limit)

RegOk(a) == a.k = "reg" /\ NameOk(a, 1)
BitOk(a) == a.k = "bit" /\ NameOk(a, 0) /\ a.v < GetRegister(a).width

Value(a) == IF a.k = "imm" THEN a.v ELSE GetRegisterOffset(a)

ImOk(a, min, max) ==
  /\ a.k = "addr" => core > 0 /\ NameOk(a, 1)
  /\ a.k \in {"imm", "addr"}
  /\ min <= Value(a) /\ Value(a) <= max

\* CheckTokenType: what looks like a register is read as one.
IsRegBase(a) == a.k \in {"reg", "bit", "const", "r0b"}

\* GetConstant and GetR0offset.
ConstantOk(a) == a.k = "const" /\ a.v <= 31
R0offsetOk(a) == a.k = "r0b" /\ a.v <= 3

OpOk(a, max) == IF IsRegBase(a) THEN RegOk(a) ELSE ImOk(a, 0, max)
Operand(a) == IF IsRegBase(a) THEN R(a) ELSE I(Value(a))

\* Offset2Reg: the field at an address of the register file.
AddrOk(addr, size) == addr + size <= 128 /\ (addr % 4) + size <= 4

Offset2Reg(addr, size) ==
  [t |-> "reg", n |-> addr \div 4,
   f |-> FieldType([width  |-> 8 * size,
                    offset |-> IF big THEN 4 - (addr % 4) - size ELSE addr % 4])]

-----------------------------------------------------------------------------
(* Words.                                                                  *)

Put(v, shift) == {k + shift : k \in {b \in 0 .. 17 : (v \div 2^b) % 2 = 1}}

Arithmetic == <<"ADD", "ADC", "SUB", "SUC", "LSL", "LSR", "RSB", "RSC", "AND",
                "OR", "XOR", "NOT", "MIN", "MAX", "CLR", "SET">>

Opcode(op) ==
  CASE op \in Range(Arithmetic) -> Put(SelectInSeq(Arithmetic, LAMBDA x : x = op) - 1, 25)
    [] op = "JMP"  -> Put(16, 25)  [] op = "JAL"  -> Put(17, 25)
    [] op = "LDI"  -> Put(36, 24)  [] op = "LMBD" -> Put(19, 25)
    [] op = "SCAN" -> Put(20, 25)  [] op = "HALT" -> Put(21, 25)
    [] op = "SLP"  -> Put(31, 25)
    [] op = "SBCO" -> Put(8, 28)   [] op = "LBCO" -> Put(9, 28)
    [] op = "STC"  -> Put(10, 28)  [] op = "LFC"  -> Put(11, 28)
    [] op = "SBBO" -> Put(14, 28)  [] op = "LBBO" -> Put(15, 28)
    [] op = "QBLT" -> Put(9, 27)   [] op = "QBEQ" -> Put(10, 27)
    [] op = "QBLE" -> Put(11, 27)  [] op = "QBGT" -> Put(12, 27)
    [] op = "QBNE" -> Put(13, 27)  [] op = "QBGE" -> Put(14, 27)
    [] op = "QBA"  -> Put(15, 27)
    [] op = "QBBC" -> Put(25, 27)  [] op = "QBBS" -> Put(26, 27)

Dst(x) == Put(x.n, 0) \cup Put(x.f, 5)
Src(x) == Put(x.n, 8) \cup Put(x.f, 13)
Third(x) == IF x.t = "reg" THEN Put(x.n, 16) \cup Put(x.f, 21) ELSE Put(x.n, 16) \cup Put(1, 24)
Target(x) == IF x.t = "reg" THEN Put(x.n, 16) \cup Put(x.f, 21) ELSE Put(x.n, 8) \cup Put(1, 24)

\* Ten bits of displacement, in two places.
Displacement(x) == Put(x.n % 256, 0) \cup Put((x.n % 1024) \div 256, 25)

\* Mutant: the upper part of a length starts one bit lower.
LengthLow(x) == Put(x.n \div 16, 24) \cup Put((x.n % 16) \div 2, 13) \cup Put(x.n % 2, 7)

\* Seven bits of length, in three places.
Length(x) == Put(x.n \div 16, 25) \cup Put((x.n % 16) \div 2, 13) \cup Put(x.n % 2, 7)

Bursts == {"LBBO", "SBBO", "LBCO", "SBCO"}
Branches == {"QBLT", "QBEQ", "QBLE", "QBGT", "QBNE", "QBGE", "QBBC", "QBBS"}

Encode(c) ==
  LET x == c.x
  IN  Opcode(c.op) \cup
      CASE c.op \in Range(Arithmetic) \cup {"LMBD", "SCAN"} -> Dst(x[1]) \cup Src(x[2]) \cup Third(x[3])
        [] c.op = "LDI"  -> Dst(x[1]) \cup Put(x[2].n, 8)
        [] c.op = "LFC"  -> Dst(x[1]) \cup Put(x[2].n, 8) \cup Put(1, 24)
        [] c.op = "STC"  -> Dst(x[1]) \cup Put(x[2].n, 8) \cup Third(x[3])
        [] c.op = "JAL"  -> Dst(x[1]) \cup Target(x[2])
        [] c.op = "JMP"  -> Target(x[1])
        [] c.op = "QBA"  -> Displacement(x[1]) \cup Put(1, 24)
        [] c.op \in Branches -> Displacement(x[1]) \cup Src(x[2]) \cup Third(x[3])
        [] c.op \in Bursts   -> Put(x[1].n \div 4, 0) \cup Put(x[1].n % 4, 5) \cup Put(x[2].n, 8)
                                  \cup Third(x[3]) \cup Length(x[4])
        [] c.op = "SLP"  -> Put(x[1].n, 23)
        [] c.op = "HALT" -> {}

-----------------------------------------------------------------------------
(* Reading: is an instruction legal, and which forms does it become.       *)

Form(op, x) == [op |-> op, x |-> x]

ArithmeticOk(i) ==
  /\ Len(i.a) \in IF i.op = "NOT" THEN {2, 3} ELSE {3}
  /\ i.op = "LMBD" => core >= 1
  /\ RegOk(i.a[1]) /\ RegOk(i.a[2])
  /\ Len(i.a) = 3 => OpOk(i.a[3], 255)

ArithmeticForm(i) ==
  Form(i.op, <<R(i.a[1]), R(i.a[2]), IF Len(i.a) = 3 THEN Operand(i.a[3]) ELSE I(0)>>)

\* SET and CLR with fewer operands.
SetOk(i) ==
  CASE Len(i.a) = 1 -> BitOk(i.a[1])
    [] Len(i.a) = 2 -> RegOk(i.a[1]) /\ (BitOk(i.a[2]) \/ OpOk(i.a[2], 31))
    [] OTHER -> ArithmeticOk(i)

SetForm(i) ==
  CASE Len(i.a) = 1 -> Form(i.op, <<R(i.a[1]), R(i.a[1]), I(i.a[1].v)>>)
    [] Len(i.a) = 2 -> Form(i.op, IF i.a[2].k = "bit"
                                  THEN <<R(i.a[1]), R(i.a[2]), I(i.a[2].v)>>
                                  ELSE <<R(i.a[1]), R(i.a[1]), Operand(i.a[2])>>)
    [] OTHER -> ArithmeticForm(i)

\* MOV of a number, by the width of the destination (numbers stay below 2^31).
MovOk(i) ==
  /\ Len(i.a) = 2 /\ RegOk(i.a[1])
  /\ IF IsRegBase(i.a[2]) THEN RegOk(i.a[2])
     ELSE ImOk(i.a[2], 0, CASE GetRegister(i.a[1]).width = 8 -> 255
                            [] GetRegister(i.a[1]).width = 16 -> 65535
                            [] OTHER -> 2147483647)

\* Mutant: the upper half of a number is forgotten.
MovFormsHalf(i) ==
  LET d == R(i.a[1])  s == i.a[2]
  IN  IF IsRegBase(s) THEN <<Form("AND", <<d, R(s), R(s)>>)>>
      ELSE <<Form("LDI", <<d, I(Value(s) % 65536)>>)>>

MovForms(i) ==
  LET d == R(i.a[1])  s == i.a[2]
  IN  IF IsRegBase(s) THEN <<Form("AND", <<d, R(s), R(s)>>)>>
      ELSE IF Value(s) > 65535
      THEN <<Form("LDI", <<[d EXCEPT !.f = 6], I(Value(s) \div 65536)>>),
             Form("LDI", <<[d EXCEPT !.f = 4], I(Value(s) % 65536)>>)>>
      ELSE <<Form("LDI", <<d, I(Value(s))>>)>>

MviSize(op) == CASE op = "MVIB" -> 1 [] op = "MVIW" -> 2 [] op = "MVID" -> 4

MviArgOk(a, size) ==
  CASE a.k = "ptr" -> NameOk(a, 1) /\ GetRegisterOffset(a) <= 127
                        /\ AddrOk(GetRegisterOffset(a), size)
    [] OTHER -> RegOk(a)

MviArg(a, size) == IF a.k = "ptr" THEN Offset2Reg(GetRegisterOffset(a), size) ELSE R(a)

\* A source wider than the move is cut to its low part.
Cut(x, size) ==
  CASE size = 1 /\ x.f \in {4, 7} -> [x EXCEPT !.f = 0]
    [] size = 1 /\ x.f = 6        -> [x EXCEPT !.f = 2]
    [] size = 2 /\ x.f = 7        -> [x EXCEPT !.f = 4]
    [] OTHER -> x

\* The forms with a pointer in a register are accepted by later cores, and
\* generate nothing (CODE_MVI_PLUS).
IsPlus(a) == ~IsRegBase(a) /\ a.k # "ptr"

MviOk(i) ==
  LET size == MviSize(i.op)
  IN  /\ core >= 1 /\ Len(i.a) = 2
      /\ \/ IsPlus(i.a[1]) /\ core >= 2
         \/ /\ ~IsPlus(i.a[1]) /\ MviArgOk(i.a[1], size)
            /\ IF IsPlus(i.a[2]) THEN core >= 2 ELSE MviArgOk(i.a[2], size)

MviForms(i) ==
  LET size == MviSize(i.op)
      s == Cut(MviArg(i.a[2], size), size)
  IN  IF \E k \in 1 .. 2 : IsPlus(i.a[k]) THEN <<>>
      ELSE <<Form("AND", <<MviArg(i.a[1], size), s, s>>)>>

SlpForms(i) ==
  LET r0 == [t |-> "reg", n |-> 0, f |-> 0]
  IN  <<Form("SLP", <<I(Value(i.a[1]))>>)>>
        \o IF core < 3 THEN <<Form("AND", <<r0, r0, r0>>)>> ELSE <<>>

BurstOk(i) ==
  /\ Len(i.a) = 4
  /\ OpOk(i.a[1], 127)
  /\ IF i.op \in {"LBBO", "SBBO"} THEN RegOk(i.a[2]) /\ GetRegister(i.a[2]).width = 32
     ELSE ConstantOk(i.a[2])
  /\ OpOk(i.a[3], 255)
  /\ IF IsRegBase(i.a[4]) THEN R0offsetOk(i.a[4]) ELSE ImOk(i.a[4], 1, 124)

\* Mutant: a field starts where little endian order puts it.
StartByteLittle(field) == field.offset

\* The byte of a register a burst starts with, for a field of it.
StartByte(field) == IF big THEN 4 - field.offset - field.width \div 8 ELSE field.offset

Start(a) == IF IsRegBase(a) THEN 4 * a.reg + StartByte(GetRegister(a)) ELSE Value(a)

\* Mutant: the length is put in as it is.
BurstFormLong(i) ==
  Form(i.op, <<I(Start(i.a[1])),
               I(IF i.a[2].k = "const" THEN i.a[2].v ELSE i.a[2].reg),
               Operand(i.a[3]),
               I(IF i.a[4].k = "r0b" THEN i.a[4].v + 124 ELSE Value(i.a[4]))>>)

BurstForm(i) ==
  Form(i.op, <<I(Start(i.a[1])),
               I(IF i.a[2].k = "const" THEN i.a[2].v ELSE i.a[2].reg),
               Operand(i.a[3]),
               I(IF i.a[4].k = "r0b" THEN i.a[4].v + 124 ELSE Value(i.a[4]) - 1)>>)

\* Without a third operand STC takes the upper byte of a whole register, or 0.
StcOk(i) ==
  /\ core = 0 /\ Len(i.a) \in 2 .. 3 /\ RegOk(i.a[1]) /\ ImOk(i.a[2], 0, 255)
  /\ Len(i.a) = 3 => OpOk(i.a[3], 255)

StcForm(i) ==
  LET d == R(i.a[1])
  IN  Form("STC", <<d, I(Value(i.a[2])),
                    CASE Len(i.a) = 3 -> Operand(i.a[3])
                      [] Len(i.a) = 2 /\ d.f = 7 -> [d EXCEPT !.f = 3]
                      [] OTHER -> I(0)>>)

\* A bit test: R.t, or a register and a number.
TestOk(a) == IF Len(a) = 1 THEN BitOk(a[1]) ELSE RegOk(a[1]) /\ OpOk(a[2], 31)
Test(a) == IF Len(a) = 1 THEN <<R(a[1]), I(a[1].v)>> ELSE <<R(a[1]), Operand(a[2])>>

\* Waiting for a bit is a branch to itself while it has the other value.
WaitForm(i) == Form(IF i.op = "WBC" THEN "QBBS" ELSE "QBBC", <<I(0)>> \o Test(i.a))

JmpOk(a) == a.k = "jmp" /\ a.v \in -512 .. 511

ZeroOk(i) ==
  /\ core >= 1 /\ Len(i.a) = 2
  /\ ImOk(i.a[1], 0, 123) /\ ImOk(i.a[2], 1, 124)
  /\ Value(i.a[1]) + Value(i.a[2]) <= 124

Legal(i) ==
  LET a == i.a
  IN  CASE i.op \in {"SET", "CLR"} -> SetOk(i)
        [] i.op \in (Range(Arithmetic) \ {"SET", "CLR"}) \cup {"LMBD"} -> ArithmeticOk(i)
        [] i.op = "MOV"  -> MovOk(i)
        [] i.op = "LDI"  -> Len(a) = 2 /\ RegOk(a[1]) /\ ImOk(a[2], 0, 65535)
        [] i.op = "SCAN" -> core = 1 /\ Len(a) = 2 /\ RegOk(a[1])
                              /\ GetRegister(a[1]).width = 32 /\ OpOk(a[2], 255)
        [] i.op \in {"MVIB", "MVIW", "MVID"} -> MviOk(i)
        [] i.op = "HALT" -> core >= 1 /\ a = <<>>
        [] i.op = "SLP"  -> core >= 1 /\ Len(a) = 1 /\ ImOk(a[1], 0, 1)
        [] i.op \in Bursts -> BurstOk(i)
        [] i.op = "LFC"  -> core = 0 /\ Len(a) = 2 /\ RegOk(a[1]) /\ ImOk(a[2], 0, 255)
        [] i.op = "STC"  -> StcOk(i)
        [] i.op = "JAL"  -> Len(a) = 2 /\ RegOk(a[1]) /\ OpOk(a[2], 65535)
        [] i.op = "RET"  -> a = <<>>
        [] i.op \in {"JMP", "CALL"} -> Len(a) = 1 /\ OpOk(a[1], 65535)
        [] i.op = "QBA"  -> Len(a) = 1 /\ JmpOk(a[1])
        [] i.op \in {"QBBC", "QBBS"} -> Len(a) \in 2 .. 3 /\ JmpOk(a[1]) /\ TestOk(Tail(a))
        [] i.op \in Branches \ {"QBBC", "QBBS"} ->
             Len(a) = 3 /\ JmpOk(a[1]) /\ RegOk(a[2]) /\ OpOk(a[3], 255)
        [] i.op \in {"WBC", "WBS"} -> Len(a) \in 1 .. 2 /\ TestOk(a)
        [] i.op = "ZERO" -> ZeroOk(i)

\* Every opcode but ZERO.
Forms(i) ==
  LET a == i.a
  IN  CASE i.op \in {"SET", "CLR"} -> <<SetForm(i)>>
        [] i.op \in (Range(Arithmetic) \ {"SET", "CLR"}) \cup {"LMBD"} -> <<ArithmeticForm(i)>>
        [] i.op = "MOV"  -> MovForms(i)
        [] i.op = "LDI"  -> <<Form("LDI", <<R(a[1]), I(Value(a[2]))>>)>>
        [] i.op = "SCAN" -> <<Form("SCAN", <<R(a[1]), R(a[1]), Operand(a[2])>>)>>
        [] i.op \in {"MVIB", "MVIW", "MVID"} -> MviForms(i)
        [] i.op = "HALT" -> <<Form("HALT", <<>>)>>
        [] i.op = "SLP"  -> SlpForms(i)
        [] i.op \in Bursts -> <<BurstForm(i)>>
        [] i.op = "LFC"  -> <<Form("LFC", <<R(a[1]), I(Value(a[2]))>>)>>
        [] i.op = "STC"  -> <<StcForm(i)>>
        [] i.op = "JAL"  -> <<Form("JAL", <<R(a[1]), Operand(a[2])>>)>>
        [] i.op = "CALL" -> <<Form("JAL", <<R(RetReg), Operand(a[1])>>)>>
        [] i.op = "JMP"  -> <<Form("JMP", <<Operand(a[1])>>)>>
        [] i.op = "RET"  -> <<Form("JMP", <<R(RetReg)>>)>>
        [] i.op = "QBA"  -> <<Form("QBA", <<I(a[1].v)>>)>>
        [] i.op \in {"QBBC", "QBBS"} -> <<Form(i.op, <<I(a[1].v)>> \o Test(Tail(a)))>>
        [] i.op \in Branches \ {"QBBC", "QBBS"} ->
             <<Form(i.op, <<I(a[1].v), R(a[2]), Operand(a[3])>>)>>
        [] i.op \in {"WBC", "WBS"} -> <<WaitForm(i)>>

-----------------------------------------------------------------------------
(* Actions.                                                                *)

GenOp(forms) == words' = words \o [k \in DOMAIN forms |-> [form |-> forms[k], bits |-> Encode(forms[k])]]

OpInit ==
  /\ core \in Cores /\ inst \in Insts
  /\ state = "read" /\ rest = <<0, 0>> /\ words = <<>>

Reject ==
  /\ state = "read" /\ ~Legal(inst)
  /\ state' = "rejected" /\ UNCHANGED <<core, inst, rest, words>>

Generate ==
  /\ state = "read" /\ inst.op # "ZERO" /\ Legal(inst)
  /\ GenOp(Forms(inst)) /\ state' = "done"
  /\ UNCHANGED <<core, inst, rest>>

ZeroStart ==
  /\ state = "read" /\ inst.op = "ZERO" /\ Legal(inst)
  /\ rest' = <<Value(inst.a[1]), Value(inst.a[2])>> /\ state' = "clear"
  /\ UNCHANGED <<core, inst, words>>

\* Mutant: any two bytes are cleared at once.
PieceAcross(off, len) == CASE off % 4 = 0 /\ len >= 4 -> 4
                           [] len >= 2 /\ ~(off % 4 = 0 /\ len >= 4) -> 2
                           [] OTHER -> 1

\* The bytes one LDI clears: a register, two bytes of one, or one.
Piece(off, len) == CASE off % 4 = 0 /\ len >= 4 -> 4
                     [] off % 4 # 3 /\ len >= 2 /\ ~(off % 4 = 0 /\ len >= 4) -> 2
                     [] OTHER -> 1

ZeroStep ==
  /\ state = "clear" /\ rest[2] > 0
  /\ LET size == Piece(rest[1], rest[2])
     IN  /\ GenOp(<<Form("LDI", <<Offset2Reg(rest[1], size), I(0)>>)>>)
         /\ rest' = <<rest[1] + size, rest[2] - size>>
  /\ UNCHANGED <<core, inst, state>>

ZeroEnd ==
  /\ state = "clear" /\ rest[2] = 0
  /\ state' = "done" /\ UNCHANGED <<core, inst, rest, words>>

OpNext == Reject \/ Generate \/ ZeroStart \/ ZeroStep \/ ZeroEnd

-----------------------------------------------------------------------------
(* Properties.                                                             *)

\* The lanes of a register field in a form.
FormLanes(x) ==
  LET off == CASE x.f < 4 -> x.f [] x.f = 7 -> 0 [] OTHER -> x.f - 4
      size == CASE x.f < 4 -> 1 [] x.f = 7 -> 4 [] OTHER -> 2
  IN  {4 * x.n + off + k : k \in 0 .. size - 1}

\* A word has one reading: fields never overlap and no opcode is the beginning
\* of another, so an instruction shares its word only with those that become
\* the same form (pasmop.c:246-1290).
OneReading ==
  state = "done" /\ inst \in Insts =>
    \A i \in Peers :
      i.op # "ZERO" /\ Legal(i) =>
        \A form \in Range(Forms(i)) :
          LET bits == Encode(form)
          IN  \A w \in Range(words) : bits = w.bits => form = w.form

\* ZERO clears the bytes of its range in order, each once and no other, although
\* it is cut to the fields a byte order allows (pasmop.c:1130-1283).
ClearsItsRange ==
  state \in {"clear", "done"} /\ inst.op = "ZERO" =>
    LET first == Value(inst.a[1])
    IN  /\ rest[1] + rest[2] = first + Value(inst.a[2])
        /\ UNION {FormLanes(w.form.x[1]) : w \in Range(words)}
             = {Lane(a) : a \in first .. rest[1] - 1}
        /\ \A j, k \in DOMAIN words :
             j # k => FormLanes(words[j].form.x[1]) \cap FormLanes(words[k].form.x[1]) = {}

\* What an LDI leaves in the lane of a register: a byte of its number, or what
\* was there.  A number is put in at the low end of the field.
Load(lanes, form) ==
  LET to == FormLanes(form.x[1])
      low == CHOOSE l \in to : \A m \in to : l <= m
  IN  [l \in DOMAIN lanes |->
         IF l \in to THEN (form.x[2].n \div 2^(8 * (l - low))) % 256 ELSE lanes[l]]

\* MOV of a number leaves that number in the field it names, whatever the number
\* of words it takes, and the rest of the register alone (pasmop.c:430-486).
LoadsTheNumber ==
  state = "done" /\ inst.op = "MOV" /\ ~IsRegBase(inst.a[2]) =>
    LET d == GetRegister(inst.a[1])
        reg == [l \in 4 * d.reg .. 4 * d.reg + 3 |-> -1]
        after == FoldLeft(LAMBDA r, w : Load(r, w.form), reg, words)
    IN  after = Load(reg, Form("LDI", <<R(inst.a[1]), I(Value(inst.a[2]))>>))

\* The operand that names by address what another one names as a register.
AsRegister(a) == [a EXCEPT !.k = "reg"]

\* A burst starts at the same byte for a field and for its address, and a move
\* through the address of a field of its size is a move of the field, in either
\* byte order (pasmop.c:696-742, 559-564, 1675-1752).
NamesAgree ==
  state = "done" =>
    /\ inst.op \in Bursts /\ inst.a[1].k = "addr" =>
         Forms(inst) = Forms([inst EXCEPT !.a[1] = AsRegister(@)])
    /\ inst.op \in {"MVIB", "MVIW", "MVID"} =>
         \A k \in 1 .. 2 :
           inst.a[k].k = "ptr" /\ GetRegister(inst.a[k]).width = 8 * MviSize(inst.op) =>
             Forms(inst) = Forms([inst EXCEPT !.a[k] = AsRegister(@)])

\* "Arg[1] must not be larger than the move size" (pasmop.c:576).
MoveSize ==
  state = "done" /\ inst.op \in {"MVIB", "MVIW", "MVID"} =>
    \A w \in Range(words) : Cardinality(FormLanes(w.form.x[2])) <= MviSize(inst.op)
=============================================================================
