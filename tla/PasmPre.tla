------------------------------- MODULE PasmPre -------------------------------
(***************************************************************************)
(* The preprocessor (pasmpp.c): a stack of open source files, conditionals *)
(* shared by all of them, and equates, in front of the two passes.  A line *)
(* of text is one word, which equates replace, or a label.                 *)
(***************************************************************************)
EXTENDS Integers, Sequences, SequencesExt

CONSTANTS
  Files, Main,       \* the files that exist; the main source file
  Absent,            \* a file that does not
  Names,             \* names of equates and labels
  Num,               \* any text that is not a name
  CommandLine,       \* the names defined on the command line
  CC_MAX_DEPTH,      \* 8
  MAX_OPEN,          \* 15, the cap on #include depth
  SOURCEFILE_MAX,    \* 32
  MAX_ERRORS,        \* 25
  Sources            \* what the files may contain

Conditional == {"ifdef", "ifndef", "else", "endif"}
Line == {l \in [op : Conditional \cup {"define", "undef", "include", "unknown",
                                       "error", "text", "label", "wrong", "toolong"},
                n : Names \cup Files \cup {Absent}, data : Names \cup {Num}] :
           l.n \in IF l.op = "include" THEN Files \cup {Absent} ELSE Names}

ASSUME PreAssumption ==
  /\ Main \in Files /\ Absent \notin Files
  /\ Num \notin Names /\ CommandLine \subseteq Names /\ IsFiniteSet(CommandLine)
  /\ {CC_MAX_DEPTH, MAX_OPEN, SOURCEFILE_MAX, MAX_ERRORS} \subseteq Nat \ {0}
  /\ Sources \subseteq [Files -> Seq(Line)]

VARIABLES
  source, phase, Pass,
  Errors, FatalError,
  labels,       \* kept from pass 1 to pass 2
  equates,      \* pEqList: the text of each equate
  cc,           \* ccStateFlags up to ccDepth; own and by are history
  records,      \* sfArray up to sfIndex: kept from pass 1 to pass 2
  stack,        \* the open files, main first
  out           \* history: the words each pass handed to the assembler

vars == <<source, phase, Pass, Errors, FatalError, labels, equates, cc, records,
          stack, out>>

OpenFiles == Len(stack)
Top == stack[Len(stack)]
GivenUp == FatalError \/ Errors >= MAX_ERRORS

-----------------------------------------------------------------------------
(* Source files.                                                           *)

\* Mutant: a record is found by its name alone.
FreeAnyUse(f) == {i \in DOMAIN records : records[i].file = f}

\* A record of an earlier use of the same file.
Free(f) == {i \in DOMAIN records : records[i].file = f /\ ~records[i].inUse}

Record(f) == IF Free(f) # {} THEN CHOOSE i \in Free(f) : \A j \in Free(f) : i <= j
             ELSE Len(records) + 1

\* InitSourceFile succeeds unless there are too many files, or no such file.
CanOpen(f) == /\ OpenFiles < MAX_OPEN
              /\ Record(f) <= SOURCEFILE_MAX
              /\ f # Absent

\* The record is taken before fopen, so that of a missing file stays in use.
TakeRecord(f) ==
  records' = IF OpenFiles = MAX_OPEN \/ Record(f) > SOURCEFILE_MAX THEN records
             ELSE IF Record(f) <= Len(records) THEN [records EXCEPT ![Record(f)].inUse = TRUE]
             ELSE Append(records, [file |-> f, inUse |-> TRUE])

\* head: ProcessSourceFile is about to look at the errors; else GetSourceLine
\* goes on to the next line.
Frame(f) == [file |-> f, rec |-> Record(f), line |-> 1, ccDepthIn |-> Len(cc),
             head |-> TRUE]

\* Equates of the command line; a label of pass 1 may have taken the name.
Defined == [n \in CommandLine \ labels |-> Num]

\* Main opens its source once before pass 1, to test it.
Init ==
  /\ source \in Sources
  /\ phase = "open" /\ Pass = 1 /\ Errors = 0 /\ FatalError = FALSE
  /\ labels = {} /\ equates = Defined /\ cc = <<>>
  /\ records = <<[file |-> Main, inUse |-> FALSE]>>
  /\ stack = <<>> /\ out = <<<<>>, <<>>>>

OpenMain ==
  /\ phase = "open" /\ phase' = "lines"
  /\ TakeRecord(Main) /\ stack' = <<Frame(Main)>>
  /\ UNCHANGED <<source, Pass, Errors, FatalError, labels, equates, cc, out>>

\* Mutant: ppCleanup forgets the equates.
CleanupKeepsEquates == cc' = <<>> /\ UNCHANGED equates

\* ppCleanup, and the equates of the command line for the next pass.
ppCleanup == cc' = <<>> /\ equates' = Defined

\* Mutant: the passes go on until there is an error.
EndPassAgain ==
  /\ phase = "lines" /\ stack = <<>>
  /\ ppCleanup
  /\ IF Errors = 0
     THEN Pass' = 2 /\ phase' = "open" /\ out' = [out EXCEPT ![2] = <<>>]
     ELSE phase' = "done" /\ UNCHANGED <<Pass, out>>
  /\ UNCHANGED <<source, Errors, FatalError, labels, records, stack>>

\* The main file was closed: the pass is over.
EndPass ==
  /\ phase = "lines" /\ stack = <<>>
  /\ ppCleanup
  /\ IF Pass = 1 /\ Errors = 0
     THEN /\ Pass' = 2 /\ phase' = "open"
          /\ Errors' = Cardinality(CommandLine \cap labels)
     ELSE phase' = "done" /\ UNCHANGED <<Pass, Errors>>
  /\ UNCHANGED <<source, FatalError, labels, records, stack, out>>

\* ProcessSourceFile returns: the file is closed, and the line of the parent that
\* included it is done; failed is its result, which only pass 2 looks at.
Close(failed) ==
  /\ records' = [records EXCEPT ![Top.rec].inUse = FALSE]
  /\ stack' = IF OpenFiles = 1 THEN <<>>
              ELSE [Front(stack) EXCEPT ![OpenFiles - 1].head = failed /\ Pass = 2]

\* "Aborting...".
Abort ==
  /\ phase = "lines" /\ stack # <<>> /\ Top.head /\ GivenUp
  /\ Close(TRUE)
  /\ UNCHANGED <<source, phase, Pass, Errors, FatalError, labels, equates, cc, out>>

Reading == phase = "lines" /\ stack # <<>> /\ ~(Top.head /\ GivenUp)
HasLine == Top.line <= Len(source[Top.file])
Cur == source[Top.file][Top.line]

Mismatch == IF Top.ccDepthIn # Len(cc) THEN 1 ELSE 0

\* End of file: every #if of the file must be closed.
EndOfFile ==
  /\ Reading /\ ~HasLine
  /\ Errors' = Errors + Mismatch
  /\ Close(FALSE)
  /\ UNCHANGED <<source, phase, Pass, FatalError, labels, equates, cc, out>>

\* The line is done: back to the loop of ProcessSourceFile, or on to the next.
NextLine(head) ==
  stack' = [stack EXCEPT ![OpenFiles].line = @ + 1, ![OpenFiles].head = head]

Next1(errors) == Errors' = Errors + errors /\ NextLine(errors # 0)

-----------------------------------------------------------------------------
(* Conditionals.                                                           *)

Live == cc # <<>> => Last(cc).true
Kept == <<source, phase, Pass, FatalError, labels, records, out>>

\* Mutant: a conditional in a part that is skipped is evaluated like any other.
PushPlain(own) == Append(cc, [true |-> own, else |-> FALSE, own |-> own, by |-> OpenFiles])

\* In a part that is skipped a conditional is false, and only counted.  by is the
\* place on the stack of the file it stands in.
Push(own) ==
  Append(cc, [true |-> Live /\ own, else |-> FALSE, own |-> own, by |-> OpenFiles])

IfDef ==
  /\ Reading /\ HasLine /\ Cur.op \in {"ifdef", "ifndef"}
  /\ IF Len(cc) = CC_MAX_DEPTH
     THEN Next1(1) /\ UNCHANGED cc
     ELSE /\ cc' = Push((Cur.n \in DOMAIN equates) <=> (Cur.op = "ifdef"))
          /\ Next1(0)
  /\ UNCHANGED <<Kept, equates>>

\* Toggled, but false inside a part that is skipped.
Else ==
  /\ Reading /\ HasLine /\ Cur.op = "else"
  /\ IF cc = <<>> \/ Last(cc).else
     THEN Next1(1) /\ UNCHANGED cc
     ELSE /\ cc' = [cc EXCEPT ![Len(cc)] =
               [true |-> ~@.true /\ \A i \in 1 .. Len(cc) - 1 : cc[i].true,
                else |-> TRUE, own |-> ~@.own, by |-> @.by]]
          /\ Next1(0)
  /\ UNCHANGED <<Kept, equates>>

Endif ==
  /\ Reading /\ HasLine /\ Cur.op = "endif"
  /\ IF cc = <<>>
     THEN Next1(1) /\ UNCHANGED cc
     ELSE cc' = Front(cc) /\ Next1(0)
  /\ UNCHANGED <<Kept, equates>>

\* Everything else is skipped where a conditional is false.
Skip ==
  /\ Reading /\ HasLine /\ Cur.op \notin Conditional /\ ~Live
  /\ NextLine(FALSE)
  /\ UNCHANGED <<Kept, Errors, equates, cc>>

At(op) == Reading /\ HasLine /\ Cur.op = op /\ Live

-----------------------------------------------------------------------------
(* Other directives.                                                       *)

\* Any directive that is unknown or fails.
Unknown ==
  /\ At("unknown") /\ Next1(1)
  /\ UNCHANGED <<Kept, equates, cc>>

\* #error, and a malformed #define or #undef: the next line is read at once.
Error ==
  /\ At("error") /\ Errors' = Errors + 1 /\ NextLine(FALSE)
  /\ UNCHANGED <<Kept, equates, cc>>

\* EquateProcess: CheckName refuses labels, and equates that exist already, so
\* that its code for redefinitions is never reached.  Its result is ignored.
Define ==
  /\ At("define")
  /\ IF Cur.n \in labels \cup DOMAIN equates
     THEN Errors' = Errors + 1 /\ UNCHANGED equates
     ELSE /\ equates' = [n \in DOMAIN equates \cup {Cur.n} |->
                           IF n = Cur.n THEN Cur.data ELSE equates[n]]
          /\ UNCHANGED Errors
  /\ NextLine(FALSE)
  /\ UNCHANGED <<Kept, cc>>

\* Undefining what is not defined is a warning.
Undef ==
  /\ At("undef")
  /\ equates' = [n \in DOMAIN equates \ {Cur.n} |-> equates[n]]
  /\ NextLine(FALSE)
  /\ UNCHANGED <<Kept, Errors, cc>>

\* LoadInclude: the new file is processed to its end before the next line.
Include ==
  /\ At("include")
  /\ TakeRecord(Cur.n)
  /\ IF CanOpen(Cur.n)
     THEN /\ stack' = Append([stack EXCEPT ![OpenFiles].line = @ + 1], Frame(Cur.n))
          /\ UNCHANGED <<Errors, FatalError>>
     ELSE FatalError' = TRUE /\ Next1(1)
  /\ UNCHANGED <<source, phase, Pass, labels, equates, cc, out>>

-----------------------------------------------------------------------------
(* Text.                                                                   *)

\* ParseSource replaces a word by the text of its equate, again and again; an
\* equate that is being expanded is busy and stays as it is.
ExpandBy(equate, word) ==
  LET expand[w \in Names \cup {Num}, busy \in SUBSET Names] ==
        IF w \in DOMAIN equate \ busy THEN expand[equate[w], busy \cup {w}] ELSE w
  IN  expand[word, {}]

Expand(word) == ExpandBy(equates, word)

Emit == out' = [out EXCEPT ![Pass] = Append(@, Expand(Cur.n))]

\* A line the assembler accepts.
Text ==
  /\ At("text") /\ Emit /\ NextLine(TRUE)
  /\ UNCHANGED <<source, phase, Pass, Errors, FatalError, labels, records, equates, cc>>

\* A line the assembler rejects ends the file in pass 2.
Reject ==
  /\ Errors' = Errors + 1
  /\ IF Pass = 2 THEN Close(TRUE) ELSE NextLine(TRUE) /\ UNCHANGED records

\* A label, under the name the equates make of it; created in pass 1.
Label ==
  /\ At("label") /\ Emit
  /\ LET l == Expand(Cur.n)
     IN  IF l = Num
         THEN Reject /\ UNCHANGED labels
         ELSE /\ labels' = labels \cup {l}
              /\ Errors' = IF Pass = 1 /\ l \in labels \cup DOMAIN equates
                           THEN Errors + 1 ELSE Errors
              /\ NextLine(TRUE) /\ UNCHANGED records
  /\ UNCHANGED <<source, phase, Pass, FatalError, equates, cc>>

Wrong ==
  /\ At("wrong") /\ Reject /\ Emit
  /\ UNCHANGED <<source, phase, Pass, FatalError, labels, equates, cc>>

\* A line that is too long after expansion looks like the end of the file.
TooLong ==
  /\ At("toolong")
  /\ Errors' = Errors + 1 /\ Close(FALSE)
  /\ UNCHANGED <<source, phase, Pass, FatalError, labels, equates, cc, out>>

Directive == IfDef \/ Else \/ Endif \/ Skip \/ Unknown \/ Error \/ Define \/ Undef \/ Include

Next ==
  \/ OpenMain \/ EndPass \/ Abort \/ EndOfFile
  \/ Directive \/ Text \/ Label \/ Wrong \/ TooLong

Spec == Init /\ [][Next]_vars

\* One process runs to its end: nothing is waited for.
FairSpec == Spec /\ WF_vars(Next)

-----------------------------------------------------------------------------
(* Properties.                                                             *)

\* A line is assembled when every conditional around it selects it, however
\* they are nested and wherever they were opened (pasmpp.c:1029-1138).
SelectedByAll ==
  \A d \in DOMAIN cc : cc[d].true <=> \A i \in 1 .. d : cc[i].own

\* Each open file has a record of its own, also when a file includes itself, so
\* the line numbers and the file of every word are right; and pass 2, which opens
\* the files of pass 1 again, finds a record for each (pasmpp.c:212-230).
RecordsReused ==
  /\ [](\A i, j \in DOMAIN stack :
         /\ records[stack[i].rec] = [file |-> stack[i].file, inUse |-> TRUE]
         /\ i # j => stack[i].rec # stack[j].rec)
  /\ [][Pass = 2 /\ Errors' = 0 => Len(records') = Len(records)]_vars

\* Pass 2 assembles the lines of pass 1 with the same words in them, although it
\* starts with the labels of pass 1 and without its equates (pasmpp.c:427).
SameText == Errors = 0 => IsPrefix(out[2], out[1])

\* Preprocessing ends, also when files include themselves or each other: after
\* the fatal error every file on the stack is still read up to its next line
\* of text (pasmpp.c:137, 405, 812).
Terminates == <>(phase = "done")

\* "#endif mismatch in file" (pasmpp.c:314): a file that ends without an error
\* has closed the conditionals it opened, and no others.
FileClosesItsOwn ==
  [][EndOfFile /\ Errors' = Errors =>
       /\ \A d \in DOMAIN cc : cc[d].by < OpenFiles
       /\ Len(cc) = Top.ccDepthIn]_vars

\* "Check for dedefinition, but ignore exact duplicates" (pasmpp.c:894).
DuplicatesIgnored ==
  [][At("define") /\ Cur.n \in DOMAIN equates /\ equates[Cur.n] = Cur.data =>
       Errors' = Errors]_vars
=============================================================================
