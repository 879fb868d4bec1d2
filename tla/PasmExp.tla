------------------------------- MODULE PasmExp -------------------------------
(***************************************************************************)
(* Expression of pasmexp.c: the terms and operators of an expression are   *)
(* collected in two arrays, then one operator after the other is applied   *)
(* until one value is left.  Words are WORD_BITS wide and wrap.            *)
(***************************************************************************)
EXTENDS Integers, Sequences, SequencesExt, Bitwise

CONSTANTS
  WORD_BITS,   \* 32
  MAXTERM,     \* 32
  Terms,       \* the values of the terms, unary operators included
  None,        \* a term that is missing, with no unary operator before it
  Ops,         \* the operators used
  ShiftMasks,  \* what the processor does with a long shift
  MaxOps       \* the longest expression written

ASSUME ExpAssumption ==
  /\ WORD_BITS \in Nat \ {0} /\ MAXTERM \in Nat \ {0} /\ MaxOps \in Nat
  /\ Ops \subseteq {"*", "/", "%", "+", "-", "<<", ">>", "&", "^", "|"}
  /\ ShiftMasks \in BOOLEAN
  /\ Terms \subseteq (0 .. 2 ^ WORD_BITS - 1) \cup {None}

VARIABLES
  Pass,          \* division by zero is an error in pass 2 only
  text,          \* history: the terms and operators as written
  phase,         \* "read", "balance", "reduce", "value" or "error"
  reading,       \* how many terms have been read
  values, ops    \* the arrays, to validx and opidx

vars == <<Pass, text, phase, reading, values, ops>>

-----------------------------------------------------------------------------

prec(op) ==
  CASE op \in {"*", "/", "%"} -> 1 [] op \in {"+", "-"} -> 2
    [] op \in {"<<", ">>"} -> 3 [] op = "&" -> 4 [] op = "^" -> 5 [] op = "|" -> 6

Word(n) == n % 2 ^ WORD_BITS

\* C leaves a shift by a word or more undefined: x86 takes the count modulo the
\* word, ARM shifts everything out.
Shift(b) == IF ShiftMasks THEN 2 ^ (b % WORD_BITS) ELSE 2 ^ b

Apply(op, a, b) ==
  CASE op = "*"  -> Word(a * b)
    [] op = "/"  -> IF b = 0 THEN 0 ELSE a \div b
    [] op = "%"  -> IF b = 0 THEN 0 ELSE a % b
    [] op = "+"  -> Word(a + b)
    [] op = "-"  -> Word(a - b)
    [] op = "<<" -> Word(a * Shift(b))
    [] op = ">>" -> a \div Shift(b)
    [] op = "&"  -> a & b
    [] op = "^"  -> a ^^ b
    [] op = "|"  -> a | b

DividesByZero(op, b) == op \in {"/", "%"} /\ b = 0

Texts == UNION {[terms : [1 .. k + 1 -> Terms], ops : [1 .. k -> Ops]] : k \in 0 .. MaxOps}

Init ==
  /\ Pass \in 1 .. 2
  /\ text \in Texts
  /\ phase = "read" /\ reading = 0
  /\ values = <<>> /\ ops = <<>>

\* EXP_getValue and EXP_getOperation: the next term with the operator after it.
\* A label pass 2 does not know counts as no term, and ends the list.
ReadTerm ==
  /\ phase = "read"
  /\ LET term == text.terms[reading + 1]
         last == reading = Len(text.ops)
     IN  /\ values' = IF term = None THEN values ELSE Append(values, term)
         /\ ops' = IF term = None \/ last THEN ops ELSE Append(ops, text.ops[reading + 1])
         /\ phase' = CASE term = None -> "balance"
                       [] term # None /\ last -> "balance"
                       [] term # None /\ ~last /\ Len(values') = MAXTERM -> "error"
                       [] OTHER -> "read"
  /\ reading' = reading + 1
  /\ UNCHANGED <<Pass, text>>

\* "If values and ops unbalanced, quit now".
Balance ==
  /\ phase = "balance"
  /\ phase' = IF Len(ops) >= Len(values) \/ values = <<>> THEN "error" ELSE "reduce"
  /\ UNCHANGED <<Pass, text, reading, values, ops>>

\* Mutant: of equal operators the last is applied first.
NextOpLast == CHOOSE i \in DOMAIN ops : \A j \in DOMAIN ops :
                /\ prec(ops[i]) <= prec(ops[j])
                /\ i < j => prec(ops[i]) < prec(ops[j])

\* The first of the operators that bind tightest.
NextOp == CHOOSE i \in DOMAIN ops : \A j \in DOMAIN ops :
            /\ prec(ops[i]) <= prec(ops[j])
            /\ j < i => prec(ops[i]) < prec(ops[j])

\* Apply an operator and close the gap in both arrays.
Reduce ==
  /\ phase = "reduce" /\ ops # <<>>
  /\ LET i == NextOp
     IN  IF DividesByZero(ops[i], values[i + 1]) /\ Pass = 2
         THEN phase' = "error" /\ UNCHANGED <<values, ops>>
         ELSE /\ values' = [RemoveAt(values, i + 1) EXCEPT
                              ![i] = Apply(ops[i], values[i], values[i + 1])]
              /\ ops' = RemoveAt(ops, i)
              /\ UNCHANGED phase
  /\ UNCHANGED <<Pass, text, reading>>

Finish ==
  /\ phase = "reduce" /\ ops = <<>>
  /\ phase' = "value"
  /\ UNCHANGED <<Pass, text, reading, values, ops>>

Next == ReadTerm \/ Balance \/ Reduce \/ Finish

Spec == Init /\ [][Next]_vars

-----------------------------------------------------------------------------
(* Properties.                                                             *)

\* The binary operators of C, the tightest first.
Levels == << {"*", "/", "%"}, {"+", "-"}, {"<<", ">>"}, {"&"}, {"^"}, {"|"} >>
Level(op) == CHOOSE l \in DOMAIN Levels : op \in Levels[l]

\* The value by the rules of C: the last of the loosest operators is applied
\* last, to the values of its two sides.
Meaning(vs, os) ==
  LET Loosest(i, j) ==
        CHOOSE k \in i .. j - 1 : \A l \in i .. j - 1 :
          Level(os[k]) >= Level(os[l]) /\ (k < l => Level(os[k]) > Level(os[l]))
      m[ij \in (1 .. Len(vs)) \X (1 .. Len(vs))] ==
        IF ij[1] = ij[2] THEN vs[ij[1]]
        ELSE LET k == Loosest(ij[1], ij[2])
             IN  Apply(os[k], m[<<ij[1], k>>], m[<<k + 1, ij[2]>>])
  IN  m[<<1, Len(vs)>>]

\* Applying the tightest operator first, in the arrays, is what C does with the
\* whole expression: each step leaves its value as it is (pasmexp.c:159-233).
\* And an expression with a term that is missing, such as a label that pass 2
\* does not know, never ends in a value (pasmexp.c:121-157, 299); a unary operator
\* before it would have made it one (pasmexp.c:303-322).
StepsKeepMeaning ==
  /\ phase \in {"reduce", "value"} /\ None \notin Range(text.terms) =>
       Meaning(values, ops) = Meaning(text.terms, text.ops)
  /\ phase = "value" => None \notin Range(text.terms)
=============================================================================
