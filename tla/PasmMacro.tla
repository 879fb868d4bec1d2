------------------------------ MODULE PasmMacro ------------------------------
(***************************************************************************)
(* Macros of the assembler (pasmmacro.c): a definition reads the lines of  *)
(* the source up to .endm, an expansion feeds the stored lines back to     *)
(* ProcessSourceLine, which may expand another macro in turn.  A file that *)
(* is included is read by a ProcessSourceFile of its own, in the middle of *)
(* a definition too.  The text of a line is reduced to its label, the      *)
(* label it uses and the macro it calls, with the number of arguments; the *)
(* lines of an included file follow its #include.                          *)
(***************************************************************************)
EXTENDS Integers, Sequences, SequencesExt

CONSTANTS
  MacroNames, LabelNames,
  None,              \* no label, no macro
  MACRO_MAX_ARGS,    \* 8
  MACRO_MAX_LINES,   \* 128
  MACRO_MAX_LABELS,  \* 32
  MAX_ERRORS,        \* 25
  Programs

\* "long" is a line that is too long once its equates are expanded; the file
\* of an "include" is the next k lines.
Stmt == {s \in [op  : {"macro", "param", "option", "endm", "call", "code", "dot", "bad",
                       "include", "long"},
                n   : MacroNames \cup {None}, k : Nat,
                lab : LabelNames \cup {None}, use : LabelNames \cup {None}] :
           s.op = "macro" => s.n # None}

ASSUME MacroAssumption ==
  /\ MacroNames \cap LabelNames = {} /\ None \notin MacroNames \cup LabelNames
  /\ {MACRO_MAX_ARGS, MACRO_MAX_LINES, MACRO_MAX_LABELS, MAX_ERRORS} \subseteq Nat \ {0}
  /\ Programs \subseteq Seq(Stmt)

VARIABLES
  program, phase, Pass,
  pos, last,   \* the next line of the file that is read, and its last
  outer,       \* the files that include it: their last lines and definitions
  unchecked,   \* GetSourceLine goes on without a look at the error limit
  Errors,
  labels,      \* pLabelList: kept from pass 1 to pass 2
  macros,      \* pMacroList, by name
  MacroId,
  defining,    \* the macro MacroEnter is reading in this file, or None
  stack,       \* the active calls of ProcessMacro, outermost first
  unended,     \* history: the macros whose definition was given up
  source,      \* history: the lines between .macro and .endm, by macro
  calls,       \* history: how many expansions began
  given        \* history: the labels each pass met, with their expansion

file == <<last, outer>>
mem == <<labels, macros, MacroId, defining, stack, unended>>
vars == <<program, phase, Pass, pos, file, unchecked, Errors, mem, source, calls, given>>

NoMacros == [n \in {} |-> <<>>]

Init ==
  /\ program \in Programs
  /\ phase = "pass" /\ Pass = 1 /\ Errors = 0
  /\ pos = 1 /\ last = Len(program) /\ outer = <<>> /\ unchecked = FALSE
  /\ labels = {} /\ macros = NoMacros /\ MacroId = 0
  /\ defining = None /\ stack = <<>> /\ unended = {}
  /\ source = NoMacros /\ calls = 0 /\ given = <<<<>>, <<>>>>

-----------------------------------------------------------------------------
(* Files and passes.                                                       *)

\* ProcessSourceFile and MacroEnter look at the limit before they ask for a line.
GivenUp == Errors >= MAX_ERRORS /\ ~unchecked

\* GetSourceLine has another line of the file.
HasLine == phase = "pass" /\ stack = <<>> /\ ~GivenUp /\ pos <= last

\* A file is done, or given up.
FileOver == phase = "pass" /\ stack = <<>> /\ defining = None /\ (GivenUp \/ pos > last)

\* The line of the source is done with success, or without: pass 2 leaves the
\* file then.
NextPos == pos' = pos + 1
PosAfterError == pos' = IF Pass = 1 /\ pos <= last THEN pos + 1 ELSE last + 1

\* LoadInclude, inside a definition too: the lines of the file are processed,
\* not stored.
Include ==
  /\ HasLine /\ program[pos].op = "include"
  /\ outer' = Append(outer, [last |-> last, def |-> defining])
  /\ last' = IF pos + program[pos].k < last THEN pos + program[pos].k ELSE last
  /\ defining' = None /\ NextPos /\ unchecked' = FALSE
  /\ UNCHANGED <<program, phase, Pass, Errors, labels, macros, MacroId, stack, unended, source,
                 calls, given>>

\* The includer goes on, in pass 1 with its next line whatever happened.
IncludeEnds ==
  /\ FileOver /\ outer # <<>>
  /\ pos' = last + 1 /\ last' = Last(outer).last /\ outer' = Front(outer)
  /\ defining' = Last(outer).def
  /\ unchecked' = (Pass = 1 \/ unchecked)
  /\ UNCHANGED <<program, phase, Pass, Errors, labels, macros, MacroId, stack, unended, source,
                 calls, given>>

\* ParseSource fails, and GetSourceLine returns what it returns at the end.
LongLine ==
  /\ HasLine /\ defining = None /\ program[pos].op = "long"
  /\ Errors' = Errors + 1 /\ pos' = last + 1 /\ unchecked' = TRUE
  /\ UNCHANGED <<program, phase, Pass, file, mem, source, calls, given>>

MacroCleanup == macros' = NoMacros /\ MacroId' = 0

EndPass ==
  /\ FileOver /\ outer = <<>>
  /\ IF Pass = 1 /\ Errors = 0
     THEN Pass' = 2 /\ pos' = 1 /\ UNCHANGED phase
     ELSE phase' = "done" /\ UNCHANGED <<Pass, pos>>
  /\ MacroCleanup /\ unended' = {} /\ unchecked' = FALSE
  /\ source' = NoMacros
  /\ UNCHANGED <<program, file, Errors, labels, defining, stack, calls, given>>

-----------------------------------------------------------------------------
(* Lines.                                                                  *)

Top == stack[Len(stack)]
Expanding == stack # <<>>
MacroOf(n) == macros[n]

\* The line that is processed: of the source, or of the innermost expansion.
Ready == /\ phase = "pass" /\ defining = None
         /\ IF Expanding THEN Top.line <= Len(MacroOf(Top.m).lines)
            ELSE ~GivenUp /\ pos <= last

Cur == IF Expanding THEN MacroOf(Top.m).lines[Top.line] ELSE program[pos]

\* Mutant: every expansion of a macro renames its labels alike.
LabelTextNoCount(l) ==
  IF Expanding /\ Contains(MacroOf(Top.m).labels, l)
  THEN <<l, MacroOf(Top.m).id>>
  ELSE <<l>>

\* A label of the macro becomes _label_Id_Expands_ in its expansion.
LabelText(l) ==
  IF Expanding /\ Contains(MacroOf(Top.m).labels, l)
  THEN <<l, MacroOf(Top.m).id, MacroOf(Top.m).expands>>
  ELSE <<l>>

\* The label of the line: created in pass 1 only; a duplicate is reported and
\* the line goes on.
Duplicate == Pass = 1 /\ Cur.lab # None /\ LabelText(Cur.lab) \in labels

Labelled ==
  IF Cur.lab = None
  THEN UNCHANGED <<labels, given>>
  ELSE /\ labels' = IF Pass = 1 THEN labels \cup {LabelText(Cur.lab)} ELSE labels
       /\ given' = [given EXCEPT ![Pass] =
            Append(@, [name |-> LabelText(Cur.lab),
                       call |-> IF Expanding THEN Top.call ELSE 0])]

Reported == IF Duplicate THEN 1 ELSE 0

Advance ==
  IF Expanding
  THEN stack' = [stack EXCEPT ![Len(stack)].line = @ + 1] /\ UNCHANGED pos
  ELSE NextPos /\ UNCHANGED stack

\* The line is accepted.
LineDone ==
  /\ Advance /\ Errors' = Errors + Reported /\ unchecked' = FALSE
  /\ UNCHANGED <<program, phase, Pass, file>>

\* Mutant: only the innermost macro is free after an error.
ReleaseTop == IF Expanding THEN [macros EXCEPT ![Top.m].inUse = FALSE] ELSE macros

\* Every active ProcessMacro returns with an error of its own.
Release == [n \in DOMAIN macros |->
              [macros[n] EXCEPT !.inUse = @ /\ \A i \in DOMAIN stack : stack[i].m # n]]

\* The line fails, with the calls it is part of; pass 2 leaves the file there.
LineFails ==
  /\ Errors' = Errors + Reported + 1 + Len(stack) /\ unchecked' = FALSE
  /\ stack' = <<>> /\ macros' = Release
  /\ PosAfterError
  /\ UNCHANGED <<program, phase, Pass, file>>

\* An opcode or directive that needs nothing, or a label: pass 2 must know it.
Code ==
  /\ Ready /\ Cur.op \in {"code", "dot"}
  /\ Labelled
  /\ IF Pass = 2 /\ Cur.use # None /\ LabelText(Cur.use) \notin labels
     THEN LineFails
     ELSE LineDone /\ UNCHANGED macros
  /\ UNCHANGED <<MacroId, defining, unended, source, calls>>

\* ParseSourceLine rejects the line before its label is seen.
BadLine ==
  /\ Ready /\ Cur.op = "bad"
  /\ Errors' = Errors + 1 /\ PosAfterError /\ unchecked' = FALSE
  /\ UNCHANGED <<program, phase, Pass, file, mem, source, calls, given>>

\* .mparam and .endm "can not be used outside of macro".
Outside ==
  /\ Ready /\ Cur.op \in {"param", "option", "endm"}
  /\ Labelled /\ LineFails
  /\ UNCHANGED <<MacroId, defining, unended, source, calls>>

-----------------------------------------------------------------------------
(* Definition.                                                             *)

NewMacro == [inUse |-> TRUE, id |-> MacroId, args |-> 0, required |-> 0,
             labels |-> <<>>, lines |-> <<>>, expands |-> 0]

\* MacroCreate; the name of another macro is taken.
MacroEnter ==
  /\ Ready /\ Cur.op = "macro"
  /\ Labelled
  /\ IF Cur.n \in DOMAIN macros
     THEN LineFails /\ UNCHANGED <<MacroId, defining, source>>
     ELSE /\ macros' = [n \in DOMAIN macros \cup {Cur.n} |->
                          IF n = Cur.n THEN NewMacro ELSE macros[n]]
          /\ MacroId' = MacroId + 1
          /\ defining' = Cur.n
          /\ source' = [n \in DOMAIN source \cup {Cur.n} |->
                          IF n = Cur.n THEN <<>> ELSE source[n]]
          /\ LineDone
  /\ UNCHANGED <<unended, calls>>

\* MacroAddArg: optional arguments come last.
AddArg(m, required) ==
  IF m.args = MACRO_MAX_ARGS \/ (required /\ m.args > m.required)
  THEN [m |-> m, errors |-> 1]
  ELSE [m |-> [m EXCEPT !.args = @ + 1, !.required = IF required THEN @ + 1 ELSE @],
        errors |-> 0]

AddLabel(m, l) ==
  CASE l = None -> [m |-> m, errors |-> 0]
    [] l # None /\ Len(m.labels) = MACRO_MAX_LABELS -> [m |-> m, errors |-> 1]
    [] OTHER -> [m |-> [m EXCEPT !.labels = Append(@, l)], errors |-> 0]

AddLine(m, line) ==
  IF Len(m.lines) = MACRO_MAX_LINES
  THEN [m |-> m, errors |-> 1]
  ELSE [m |-> [m EXCEPT !.lines = Append(@, line)], errors |-> 0]

\* What MacroEnter does with one line; of the directives it keeps none.
Absorb(m, line) ==
  CASE line.op \in {"code", "call"} -> AddLine(m, line)
    [] line.op \in {"param", "option"} -> AddArg(m, line.op = "param")
    [] line.op = "macro" -> [m |-> m, errors |-> 1]
    [] line.op = "dot"   -> [m |-> m, errors |-> 0]
    [] line.op = "endm"  -> [m |-> [m EXCEPT !.inUse = FALSE], errors |-> 0]

\* One line of a macro: its label is noted, then the line itself.
MacroLine ==
  /\ HasLine /\ defining # None /\ program[pos].op \notin {"include", "long"}
  /\ LET line == program[pos]
         l == AddLabel(MacroOf(defining), line.lab)
         r == Absorb(l.m, line)
     IN  IF line.op = "bad"
         THEN Errors' = Errors + 1 /\ UNCHANGED <<macros, defining, source>>
         ELSE /\ Errors' = Errors + l.errors + r.errors
              /\ macros' = [macros EXCEPT ![defining] = r.m]
              /\ defining' = IF line.op = "endm" THEN None ELSE defining
              /\ source' = IF line.op \in {"code", "call", "dot"}
                           THEN [source EXCEPT ![defining] = Append(@, line)] ELSE source
  /\ NextPos /\ unchecked' = FALSE
  /\ UNCHANGED <<program, phase, Pass, file, labels, MacroId, stack, unended, calls, given>>

\* What MacroEnter leaves behind when it returns -1: the macro stays in the list,
\* and in use.
Abandon ==
  /\ phase = "pass" /\ defining # None
  /\ unended' = unended \cup {defining} /\ defining' = None
  /\ Errors' = Errors + CASE GivenUp -> 0
                           [] ~GivenUp /\ pos > last -> 1      \* missing .endm
                           [] ~GivenUp /\ pos <= last -> 2     \* and the line too long
  /\ PosAfterError /\ unchecked' = FALSE
  /\ UNCHANGED <<program, phase, Pass, file, labels, macros, MacroId, stack, source, calls, given>>

\* Mutant: MacroEnter goes on asking for lines at the end of the file.
DefinitionFailsLate == GivenUp /\ Abandon

\* The file ends in the definition, or GetSourceLine says so because a line is too
\* long; or there are too many errors.  Only in this file: pass 1 goes on.
DefinitionFails == (HasLine => program[pos].op = "long") /\ Abandon

-----------------------------------------------------------------------------
(* Expansion.                                                              *)

Callable(n, k) ==
  /\ n \in DOMAIN macros /\ ~macros[n].inUse
  /\ k \in macros[n].required .. macros[n].args

\* ProcessMacro is called; a line that names no macro is no opcode either.
Call ==
  /\ Ready /\ Cur.op = "call"
  /\ Labelled
  /\ IF ~Callable(Cur.n, Cur.k)
     THEN LineFails /\ UNCHANGED calls
     ELSE /\ macros' = [macros EXCEPT ![Cur.n].expands = @ + 1, ![Cur.n].inUse = TRUE]
          /\ stack' = Append(stack, [m |-> Cur.n, line |-> 1, call |-> calls + 1])
          /\ calls' = calls + 1
          /\ Errors' = Errors + Reported /\ unchecked' = FALSE
          /\ UNCHANGED <<program, phase, Pass, pos, file>>
  /\ UNCHANGED <<MacroId, defining, unended, source>>

\* All lines of the innermost macro are expanded: the line that called it is done.
Return ==
  /\ phase = "pass" /\ Expanding /\ Top.line > Len(MacroOf(Top.m).lines)
  /\ macros' = [macros EXCEPT ![Top.m].inUse = FALSE]
  /\ IF Len(stack) = 1
     THEN stack' = <<>> /\ NextPos
     ELSE /\ stack' = [Front(stack) EXCEPT ![Len(stack) - 1].line = @ + 1]
          /\ UNCHANGED pos
  /\ UNCHANGED <<program, phase, Pass, file, unchecked, Errors, labels, MacroId, defining,
                 unended, source, calls, given>>

Next ==
  \/ Code \/ BadLine \/ Outside \/ MacroEnter \/ MacroLine \/ DefinitionFails
  \/ Call \/ Return \/ Include \/ IncludeEnds \/ LongLine \/ EndPass

Spec == Init /\ [][Next]_vars

\* One process runs to its end: nothing is waited for.
FairSpec == Spec /\ WF_vars(Next)

-----------------------------------------------------------------------------
(* Properties.                                                             *)

Macro == [inUse : BOOLEAN, id : 0 .. MacroId - 1,
          args : 0 .. MACRO_MAX_ARGS, required : 0 .. MACRO_MAX_ARGS,
          labels : Seq(LabelNames), lines : Seq(Stmt), expands : Nat]

TypeOK ==
  /\ program \in Seq(Stmt) /\ phase \in {"pass", "done"} /\ Pass \in 1 .. 2
  /\ last \in 0 .. Len(program) /\ pos \in 1 .. last + 1 /\ unchecked \in BOOLEAN
  /\ outer \in Seq([last : last .. Len(program), def : DOMAIN macros \cup {None}])
  /\ Errors \in Nat
  /\ labels \subseteq Seq(LabelNames \cup Nat)
  /\ DOMAIN macros \subseteq MacroNames /\ Range(macros) \subseteq Macro
  /\ MacroId \in Nat /\ defining \in DOMAIN macros \cup {None}
  /\ stack \in Seq([m : DOMAIN macros, line : Nat, call : 1 .. calls])
  /\ unended \subseteq DOMAIN macros

\* The definitions under way, of this file and of the files that include it.
Open == ({defining} \cup {outer[i].def : i \in DOMAIN outer}) \ {None}

\* A macro is never expanded inside its own expansion, directly or through
\* others, nor before the .endm of its definition (pasmmacro.c:182, 221).  InUse is
\* on exactly for the macros being defined or expanded and for those whose
\* definition was given up: an error deep in an expansion leaves none of them
\* unusable (pasmmacro.c:313-318), but after a missing .endm the mark stays on to the end
\* of the pass (pasmmacro.c:147-148), and only an error that is reported does that.
InUseWhileUsed ==
  /\ \A i, j \in DOMAIN stack : i # j => stack[i].m # stack[j].m
  /\ \A i \in DOMAIN stack : stack[i].m \notin Open \cup unended
  /\ \A n \in DOMAIN macros :
       macros[n].inUse <=> n \in Open \cup unended \/ \E i \in DOMAIN stack : stack[i].m = n
  /\ unended # {} => Errors > 0

\* Two expansions never give the same name to their labels, and pass 2 renames
\* the labels of an expansion exactly as pass 1 did, or it would not find them
\* (pasmmacro.c:289, 331-336).
LocalLabels ==
  /\ \A p \in 1 .. 2 : \A i, j \in DOMAIN given[p] :
       given[p][i].call # given[p][j].call /\ given[p][i].name = given[p][j].name =>
         Len(given[p][i].name) = 1
  /\ Errors = 0 => LET names(p) == [i \in DOMAIN given[p] |-> given[p][i].name]
                   IN  IsPrefix(names(2), names(1))

\* Assembly ends, whatever the macros call.
Terminates == <>(phase = "done")

\* "Illegal recursive use of macro" (pasmmacro.c:222): a call that is refused for
\* that is of a macro that is being expanded, or defined.
RefusedIsRecursive ==
  Ready /\ Cur.op = "call" /\ Cur.n \in DOMAIN macros /\ MacroOf(Cur.n).inUse =>
    Cur.n \in Open \/ \E i \in DOMAIN stack : stack[i].m = Cur.n

\* "Else store the line as part of the macro" (pasmmacro.c:186): the lines of a macro
\* that are not about the macro itself are expanded.
LinesKept == Errors = 0 => \A n \in DOMAIN macros :
               n # defining => macros[n].lines = source[n]
=============================================================================
