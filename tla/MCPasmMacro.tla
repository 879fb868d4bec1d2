---------------------------- MODULE MCPasmMacro ----------------------------
(* Small instances of PasmMacro: two macros that may call each other, used    *)
(* once or twice, definitions that are not well formed, and included files    *)
(* that end in a definition, or are included in one.                          *)
EXTENDS PasmMacro

CONSTANTS A, B, L

St(op, n, k, lab, use) == [op |-> op, n |-> n, k |-> k, lab |-> lab, use |-> use]
Begin(n) == St("macro", n, 0, None, None)
End == St("endm", None, 0, None, None)
Param == St("param", None, 0, None, None)
Option == St("option", None, 0, None, None)
CallOf(n, k) == St("call", n, k, None, None)
Def == St("code", None, 0, L, None)
Use == St("code", None, 0, None, L)
Dot == St("dot", None, 0, None, None)
Bad == St("bad", None, 0, None, None)
Long == St("long", None, 0, None, None)
Lines(k) == St("include", None, k, None, None)

UpTo(pool, k) == UNION {[1 .. j -> pool] : j \in 0 .. k}

BodyPool == {Param, Option, Def, Use, CallOf(A, 0), CallOf(B, 1), CallOf(B, 0)}
MainPool == {Def, Use, CallOf(A, 0), CallOf(A, 1), CallOf(B, 1)}

\* Well formed definitions of A and B, then uses.
UsePrograms ==
  {<<Begin(A)>> \o a \o <<End, Begin(B)>> \o b \o <<End>> \o m :
     a \in UpTo(BodyPool, 2), b \in UpTo(BodyPool, 2), m \in UpTo(MainPool, 2)}

\* Anything: nested, unfinished, repeated definitions, limits exceeded.
AnyPool == {Begin(A), Begin(B), End, Option, Param, Def, Dot, Bad, CallOf(A, 0)}
AnyPrograms == UpTo(AnyPool, 5)

\* Definitions and uses across the ends of files.
FilePool == {Begin(A), Begin(B), End, Def, Long, CallOf(A, 0), CallOf(B, 0), Lines(1), Lines(2)}
FilePrograms == UpTo(FilePool, 5)

\* Errors up to the limit in an included file.
LimitPool == {Begin(A), End, Bad, CallOf(A, 0), Lines(2), Lines(3)}
LimitPrograms == {<<Bad>> \o m : m \in UpTo(LimitPool, 5)}

AllPrograms == UsePrograms \cup AnyPrograms \cup FilePrograms \cup LimitPrograms
=============================================================================
