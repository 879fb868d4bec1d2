----------------------------- MODULE PasmProgram -----------------------------
(***************************************************************************)
(* The statements PASM assembles and what each of them means for the code  *)
(* offset, as functions of a label table.  Shared by the two-pass engine   *)
(* (PasmPasses) and by the abstract specification of a correct assembly    *)
(* (Assembly).                                                             *)
(*                                                                         *)
(* A program is the sequence of statements that reach ProcessSourceLine,   *)
(* includes and macros already expanded; a label and the statement that    *)
(* follows it on a line are two statements.  A statement carries one       *)
(* expression, mul * sym + add, which is enough to write constants,        *)
(* labels, label +- n and shifted labels.  Values stay below 2^32.         *)
(***************************************************************************)
EXTENDS Integers, Sequences

CONSTANTS
  Names,         \* label names a program may use
  NoSym,         \* the expression names no label
  MAX_PROGRAM,   \* size of ProgramImage in words (16384)
  QB_REACH       \* quick branches reach -QB_REACH .. QB_REACH-1 words (512)

ASSUME ProgramAssumption ==
  /\ NoSym \notin Names
  /\ MAX_PROGRAM \in Nat /\ MAX_PROGRAM > 8
  /\ QB_REACH \in Nat

Expr == [sym : Names \union {NoSym}, mul : Nat, add : Nat]

EmitOps  == {"plain", "mov", "qb", "jmp", "call", "ret", "dotret", "codeword"}
SizedOps == {"origin", "mov"}    \* their effect on the offset reads a value
Ops == EmitOps \union {"label", "origin", "entry", "setcall", "badline", "badop"}

Stmt == {s \in [op : Ops, e : Expr] : s.op = "label" => s.e.sym \in Names}

NoOffset == -1                   \* a label not in pLabelList; CodeOffset unset
DefaultOrigin == 8
IMM16 == 65535
DefaultReg == 30                 \* DEFAULT_RETREGVAL, field w0

LabelTable == [Names -> Int]

\* Expression: a label that is not (yet) in the list counts as zero.
Value(e, lab) ==
  IF e.sym = NoSym THEN e.add
  ELSE e.mul * (IF lab[e.sym] = NoOffset THEN 0 ELSE lab[e.sym]) + e.add

\* ValidateOffset: the first use of an unset offset makes it 8.
Ready(co) == IF co = NoOffset THEN DefaultOrigin ELSE co

\* A 32-bit MOV whose value needs more than 16 bits is two LDIs.
Wide(s, lab) == s.op = "mov" /\ Value(s.e, lab) > IMM16

Size(s, lab) == IF Wide(s, lab) THEN 2 ELSE 1

\* The code offset after a statement that is processed without an error.
After(s, co, lab) ==
  CASE s.op = "origin"     -> Value(s.e, lab)
    [] s.op = "label"      -> Ready(co)
    [] s.op \in EmitOps    -> Ready(co) + Size(s, lab)
    [] OTHER               -> co

-----------------------------------------------------------------------------
\* Instruction words, by what the properties tell apart.

WordKinds == {"zero", "error", "ldi", "qb", "jmp", "call", "ret", "data", "op"}
Words == [kind : WordKinds, val : Int, reg : Int]
Word(kind, val, reg) == [kind |-> kind, val |-> val, reg |-> reg]

NoReg == -1
Zero == Word("zero", 0, NoReg)             \* memset at the start
ErrWord == Word("error", 0, NoReg)         \* 0xFFFFFFFF for a rejected op

\* The words a statement emits when CodeOffset is co, as GetJmpOffset reads it,
\* and the call register is r.
WordsOf(s, co, lab, r) ==
  LET v == Value(s.e, lab) IN
  CASE s.op = "mov"      -> IF Wide(s, lab)
                            THEN << Word("ldi", v \div (IMM16 + 1), NoReg),
                                    Word("ldi", v % (IMM16 + 1), NoReg) >>
                            ELSE << Word("ldi", v, NoReg) >>
    [] s.op = "qb"       -> << Word("qb", v - co, NoReg) >>
    [] s.op = "jmp"      -> << Word("jmp", v, NoReg) >>
    [] s.op = "call"     -> << Word("call", v, r) >>
    [] s.op = "ret"      -> << Word("ret", 0, r) >>
    [] s.op = "dotret"   -> << Word("ret", 0, DefaultReg) >>
    [] s.op = "codeword" -> << Word("data", v, NoReg) >>
    [] OTHER             -> << Word("op", 0, NoReg) >>

-----------------------------------------------------------------------------
\* Programs for which two passes are known to be enough.

DefinesBefore(p, i, n) == \E j \in 1 .. i - 1 : p[j].op = "label" /\ p[j].e.sym = n

\* No .origin and no MOV takes its value from a label defined further down.
SettledSizes(p) ==
  \A i \in 1 .. Len(p) :
    p[i].op \in SizedOps /\ p[i].e.sym # NoSym => DefinesBefore(p, i, p[i].e.sym)

\* Something has set the code offset before the first quick branch.
Anchored(p) ==
  \A i \in 1 .. Len(p) :
    p[i].op = "qb" =>
      \E j \in 1 .. i - 1 : p[j].op \in EmitOps \union {"label", "origin"}

Regular(p) == SettledSizes(p) /\ Anchored(p)
=============================================================================
