----------------------------- MODULE MCPasmPre -----------------------------
(* Small instances of PasmPre: a main file and a file it may include.        *)
EXTENDS PasmPre

CONSTANTS A, B, Inc, CondLen, NameLen, FileLen, IncLen

Ln(op, n) == [op |-> op, n |-> n, data |-> Num]
Lines(pool, k) == [1 .. k -> pool]
TwoFiles(m, i) == {[f \in Files |-> IF f = Main THEN x ELSE y] : x \in m, y \in i}

\* Conditionals and equates, in both files.
CondPool == {Ln("ifdef", A), Ln("ifndef", A), Ln("else", A), Ln("endif", A), Ln("text", A)}
CondSources ==
  TwoFiles(Lines(CondPool \cup {Ln("include", Inc)}, CondLen),
           Lines({Ln("ifdef", A), Ln("else", A), Ln("endif", A), Ln("define", A)}, IncLen))

\* Equates of equates, labels and equates of one name.
NamePool == {Ln("define", A), [op |-> "define", n |-> A, data |-> B],
             [op |-> "define", n |-> B, data |-> A], Ln("undef", A),
             Ln("label", A), Ln("label", B), Ln("text", A), Ln("ifdef", A), Ln("endif", A)}
NameSources == TwoFiles(Lines(NamePool, NameLen), {<<>>})

\* Files that include themselves or nothing, and lines that fail.
FilePool == {Ln("include", Main), Ln("include", Inc), Ln("include", Absent),
             Ln("text", A), Ln("wrong", A), Ln("toolong", A), Ln("unknown", A), Ln("error", A), Ln("ifdef", A)}
FileSources == TwoFiles(Lines(FilePool, FileLen), Lines(FilePool, 1))

AllSources == CondSources \cup NameSources \cup FileSources
=============================================================================
