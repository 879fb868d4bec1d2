---------------------------- MODULE MCPasmPasses ----------------------------
(* Small instances of PasmPasses: every program up to a length from a pool   *)
(* of statements.                                                            *)
EXTENDS PasmPasses

CONSTANTS A, B, LayoutLen, CallLen

E(sym, mul, add) == [sym |-> sym, mul |-> mul, add |-> add]
Num(k) == E(NoSym, 0, k)
Sym(n) == E(n, 1, 0)
S(op, e) == [op |-> op, e |-> e]

UpTo(pool, n) == UNION {[1 .. k -> pool] : k \in 1 .. n}

\* Labels, offsets that depend on labels, and what reads them.
LayoutPool ==
  {S("label", Sym(A)), S("label", Sym(B)),
   S("origin", Num(0)), S("origin", Num(13)), S("origin", E(A, 1, 2)),
   S("mov", Num(65536)), S("mov", E(A, 65536, 0)), S("mov", Sym(B)),
   S("qb", Sym(A)), S("qb", Sym(B)), S("entry", Sym(B)), S("plain", Num(0))}
LayoutPrograms == UpTo(LayoutPool, LayoutLen)

\* Call registers, rejected lines and the error limit.
CallPool ==
  {S("setcall", Num(23)), S("setcall", Num(4)), S("call", Sym(A)), S("jmp", Sym(A)),
   S("call", Num(65536)), S("ret", Num(0)), S("dotret", Num(0)), S("label", Sym(A)),
   S("origin", Num(14)), S("entry", Num(2)), S("codeword", Sym(A)),
   S("badline", Num(0)), S("badop", Num(0))}
CallPrograms == UpTo(CallPool, CallLen)

AllPrograms == LayoutPrograms \cup CallPrograms
=============================================================================
