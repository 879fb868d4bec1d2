---------------------------- MODULE MCPasmScope ----------------------------
(* Small instances of PasmScope: programs over a pool of statements, after a *)
(* fixed beginning that declares the structure the assignments use.          *)
EXTENDS PasmScope

CONSTANTS S, T, X, ScopeLen, StructLen

St(op, n, m) == [op |-> op, n |-> n, m |-> m]
UpTo(pool, k) == UNION {[1 .. j -> pool] : j \in 1 .. k}

Declare == <<St("struct", S, S), St("element", S, S), St("ends", S, S)>>

\* Two scopes left, reopened and nested, an assignment and labels.
ScopePool ==
  {St(op, n, X) : op \in {"enter", "leave", "using"}, n \in {T, X}}
    \cup {St("assign", S, X), St("label", X, X), St("leave", Root, X)}
ScopePrograms == {Declare \o t : t \in UpTo(ScopePool, ScopeLen)}

\* Structures that are complete, empty, too long or left open, in a file of
\* their own or not.
StructPool ==
  {St("struct", n, X) : n \in {S, T}} \cup {St("element", n, X) : n \in {S, T, X}}
    \cup {St("ends", S, X), St("assign", S, X), St("label", T, X)}
StructPrograms == UpTo(StructPool, StructLen)

AllPrograms == ScopePrograms \cup StructPrograms
=============================================================================
