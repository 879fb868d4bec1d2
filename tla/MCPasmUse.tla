------------------------------ MODULE MCPasmUse ------------------------------
(* Small instances of PasmUse: every opcode, with operands that are right,     *)
(* wrong in kind, or at a limit.                                              *)
EXTENDS PasmUse

\* Structures of up to three elements.
SmallStructures == UNION {[1 .. k -> {1, 2, 4}] : k \in 1 .. 3}

A(k, reg, mods, v) == [k |-> k, reg |-> reg, mods |-> mods, v |-> v]
B(v) == [f |-> "B", v |-> v]
W(v) == [f |-> "W", v |-> v]

Fields == {<<>>, <<B(0)>>, <<B(1)>>, <<B(3)>>, <<W(0)>>, <<W(1)>>, <<W(2)>>, <<W(2), B(1)>>, <<B(0), W(0)>>}
Reg == A("reg", 1, <<>>, 0)
Reg2 == A("reg", 30, <<W(1)>>, 0)
Bit(v) == A("bit", 7, <<W(1)>>, v)
Num(v) == A("imm", 0, <<>>, v)
Addr(mods) == A("addr", 2, mods, 0)
Ptr(mods) == A("ptr", 2, mods, 0)
RegOf(mods) == A("reg", 2, mods, 0)
Con(v) == A("const", 0, <<>>, v)
Byte(v) == A("r0b", 0, <<>>, v)
Jmp(v) == A("jmp", 0, <<>>, v)
Plus == A("plus", 2, <<>>, 0)
CallReg == A("reg", 30, <<W(0)>>, 0)

I0(ops) == {[op |-> o, a |-> <<>>] : o \in ops}
I1(ops, s) == {[op |-> o, a |-> <<x>>] : o \in ops, x \in s}
I2(ops, s, t) == {[op |-> o, a |-> <<x, y>>] : o \in ops, x \in s, y \in t}
I3(ops, s, t, u) == {[op |-> o, a |-> <<x, y, z>>] : o \in ops, x \in s, y \in t, z \in u}
Op4(ops, s, t, u, n) ==
  {[op |-> o, a |-> <<w, x, y, z>>] : o \in ops, w \in s, x \in t, y \in u, z \in n}

Thirds == {Reg2, Num(0), Num(255), Num(256), Con(3)}
Arith == I3(Range(Arithmetic) \cup {"LMBD"}, {Reg}, {Reg, Reg2}, {Reg2, Num(255)})
           \cup I3({"ADD"}, {RegOf(f) : f \in Fields} \cup {A("reg", 32, <<>>, 0)}, {Reg2}, Thirds)
           \cup I2({"NOT", "ADD"}, {Reg}, {Reg2})
Bits == I1({"SET", "CLR"}, {Bit(9), Bit(16), Reg})
          \cup I2({"SET", "CLR"}, {Reg}, {Bit(15), Reg2, Num(31), Num(32)})
Transfers == I2({"LDI", "SCAN", "MOV"}, {RegOf(f) : f \in Fields}, {Reg2, Num(255), Num(65535)})
           \cup I2({"MOV"}, {RegOf(f) : f \in Fields}, {Num(256), Num(65536), Num(2130706689), Addr(<<B(1)>>)})
           \cup I2({"MVIB", "MVIW", "MVID"},
                   {Reg, Reg2, Plus} \cup {Ptr(f) : f \in Fields},
                   {RegOf(f) : f \in Fields} \cup {Ptr(<<>>), Ptr(<<B(3)>>), Plus, Bit(1)})
Constants == Op4({"LBCO", "SBCO"}, {Reg}, {Con(31), Reg}, {Num(255), Reg2},
                     {Num(0), Num(1), Num(17), Num(124), Num(125), Byte(0), Byte(3), Reg})
Memory == Op4({"LBBO", "SBBO"}, {RegOf(f) : f \in Fields} \cup {Addr(f) : f \in Fields}, {Reg, Reg2},
              {Reg2}, {Num(1), Num(124)})
            \cup Constants \cup I2({"LFC", "STC"}, {Reg, Reg2}, {Num(0), Num(255)})
            \cup I3({"STC"}, {Reg}, {Num(7)}, Thirds)
Displaced == {Jmp(v) : v \in {-513, -512, -1, 0, 255, 511, 512}}
Jumps == I2({"JAL"}, {Reg, CallReg}, {Reg2, Num(65535)}) \cup I0({"RET", "HALT"})
           \cup I1({"JMP", "CALL"}, {Reg2, CallReg, Num(8), Num(65536)}) \cup I1({"QBA"}, Displaced)
           \cup I3(Branches, {Jmp(-512), Jmp(255)}, {Reg2}, {Reg, Num(31)})
           \cup I3({"QBLT"}, Displaced, {Reg2}, {Reg})
           \cup I2({"QBBS", "QBBC"}, {Jmp(0), Jmp(1)}, {Bit(3), Reg})
           \cup I1({"WBS", "WBC"}, {Bit(3), Reg}) \cup I2({"WBS", "WBC"}, {Reg}, {Num(31), Num(32), Reg2})
           \cup I1({"SLP"}, {Num(0), Num(1), Num(2)})
Zeros == I2({"ZERO"}, {Num(k) : k \in {0, 1, 2, 3, 117, 123}} \cup {Addr(<<W(1)>>)}, {Num(k) : k \in 0 .. 9})

\* One of each opcode, and what differs in the fields of one.
SomeInsts == Bits \cup Constants \cup Jumps
               \cup I3(Range(Arithmetic) \cup {"LMBD"}, {Reg}, {Reg}, {Reg2, Num(255)})
               \cup I2({"LDI", "SCAN", "MOV"}, {Reg, RegOf(<<B(1)>>)}, {Reg2, Num(255)})
               \cup I2({"LFC", "STC"}, {Reg, Reg2}, {Num(255)})
               \cup Op4({"LBBO", "SBBO"}, {Reg, RegOf(<<B(1)>>)}, {Reg}, {Reg2}, {Num(1), Num(124)})

AllInsts == SomeInsts \cup Arith \cup Bits \cup Transfers \cup Memory \cup Jumps \cup Zeros
=============================================================================
