------------------------------ MODULE PasmOutput ------------------------------
(***************************************************************************)
(* What PASM leaves on disk (main, GenOp and ListFile of pasm.c): the      *)
(* options, the raw listing written during pass 2, and after the passes    *)
(* the image as a C array, text, binary in two byte orders, debug file and *)
(* annotated listing.  Pass 1 is only its error count; what pass 2 reads   *)
(* is a file, a line at a time, that may include others and itself.  A     *)
(* word of code is a number, 0 where nothing was generated.                *)
(***************************************************************************)
EXTENDS Integers, Sequences, SequencesExt, FiniteSetsExt

CONSTANTS
  Files, Main,     \* the source files
  Commands,        \* command lines: sequences of "name" and of flags
  MaxLines,        \* bounds the lines of a file
  MaxWords,        \* bounds the words generated
  MaxOpen,         \* source files open at a time (15)
  Origins,         \* operands of .origin
  MAX_PROGRAM,     \* size of ProgramImage in words (16384)
  MAX_CMD_EQUATE   \* -D options (8)

Images == <<"c", "m", "d", "L", "b", "B">>     \* in the order they are written
Outputs == ToSet(Images) \cup {"l"}

ASSUME OutputAssumption ==
  /\ Main \in Files
  /\ Commands \subseteq Seq(Outputs \cup {"name", "D", "C", "z", "?"})
  /\ MAX_PROGRAM \in Nat /\ MAX_PROGRAM > 8 /\ Origins \subseteq 0 .. MAX_PROGRAM - 1
  /\ MaxLines \in Nat \ {0} /\ MaxWords \in Nat /\ MaxOpen \in Nat \ {0} /\ MAX_CMD_EQUATE \in Nat

VARIABLES
  args,            \* the command line
  shape,           \* lines of each file, and whether the last one ends
  options,         \* Options
  stage,           \* "args", "open", "asm", "write" or "exit"
  sf,              \* sfArray: the files of the records
  open,            \* the records being read, and the line in each
  offset,          \* CodeOffset
  image,           \* ProgramImage
  labelList,       \* pLabelList, the newest first
  errors,          \* Errors: reported by the passes, by the outputs, or not
  todo,            \* the outputs that are still to be written
  disk,            \* the output files: whether this run wrote them, and what
  status,          \* the exit status
  emitted          \* the words generated, in order (history)

outputVars == <<args, shape, options, stage, sf, open, offset, image, labelList, errors, todo,
                disk, status, emitted>>

Entry(rec, line, addr, code) == [file |-> rec, line |-> line, addr |-> addr, code |-> code]
Hole == Entry(0, 0, 0, 0)

\* SelectSeq for the elements of a set, by a function that proofs can expand.
Keep(seq, set) ==
  LET kept[n \in 0 .. Len(seq)] ==
        IF n = 0 THEN <<>>
        ELSE IF seq[n] \in set THEN Append(kept[n - 1], seq[n]) ELSE kept[n - 1]
  IN  kept[Len(seq)]

OutputInit ==
  /\ args \in Commands
  /\ shape \in [Files -> [lines : 1 .. MaxLines, ended : BOOLEAN]]
  /\ options = {} /\ stage = "args"
  /\ sf = <<>> /\ open = <<>> /\ offset = -1 /\ labelList = <<>> /\ errors = {}
  /\ image = [a \in 0 .. MAX_PROGRAM - 1 |-> Hole]
  /\ todo = <<>> /\ status = "none" /\ emitted = <<>>
  /\ disk = [o \in Outputs |-> [new |-> FALSE, data |-> <<>>]]

-----------------------------------------------------------------------------
(* The command line.                                                       *)

Times(a) == Cardinality({k \in DOMAIN args : args[k] = a})

Usage == \/ Times("name") \notin {1, 2}
         \/ Times("D") > MAX_CMD_EQUATE
         \/ Times("?") > 0

\* A listing is not an output: without another one the C array is written.
Selected ==
  LET given == ToSet(args) \cap Outputs
  IN  IF given \cap {"b", "c", "B", "m", "d"} = {} THEN given \cup {"c"} ELSE given

Fail == stage' = "exit" /\ status' = "error"

ReadArgs ==
  /\ stage = "args"
  /\ \/ Usage /\ Fail /\ UNCHANGED options
     \/ ~Usage /\ options' = Selected /\ stage' = "open" /\ UNCHANGED status
  /\ UNCHANGED <<args, shape, sf, open, offset, image, labelList, errors, todo, disk, emitted>>

\* The source file or the raw listing cannot be opened.
OpenFails ==
  /\ stage = "open" /\ Fail
  /\ UNCHANGED <<args, shape, options, sf, open, offset, image, labelList, errors, todo, disk, emitted>>

Wrote(o, data) == [disk EXCEPT ![o] = [new |-> TRUE, data |-> data]]

Begin ==
  /\ stage = "open" /\ stage' = "asm"
  /\ sf' = <<Main>> /\ open' = <<[rec |-> 0, line |-> 1]>>
  /\ disk' = IF "l" \in options THEN Wrote("l", <<>>) ELSE disk
  /\ UNCHANGED <<args, shape, options, offset, image, labelList, errors, todo, status, emitted>>

-----------------------------------------------------------------------------
(* Pass 2.                                                                 *)

Top == Last(open)
FileOf(rec) == sf[rec + 1]
AtLine == stage = "asm" /\ open # <<>> /\ Top.line <= shape[FileOf(Top.rec)].lines

Advanced == [open EXCEPT ![Len(open)].line = @ + 1]

\* ValidateOffset
Ready == IF offset = -1 THEN 8 ELSE offset

ListLine(kind, addr, code) ==
  [kind |-> kind, file |-> Top.rec, line |-> Top.line, addr |-> addr, code |-> code]

\* A line with a label or without, of n words: a wide MOV and a ZERO have more
\* than one, a line of a macro has any number.
Line(label, n) ==
  LET first == Ready
      Code(a) == Len(emitted) + 1 + a - first
  IN  /\ AtLine /\ (label \/ n > 0)
      /\ Len(emitted) + n <= MaxWords
      /\ first + n <= MAX_PROGRAM /\ first < MAX_PROGRAM
      /\ offset' = first + n
      /\ image' = [a \in DOMAIN image |->
                     IF a \in first .. first + n - 1
                     THEN Entry(Top.rec, Top.line, a, Code(a)) ELSE image[a]]
      /\ emitted' = emitted \o [k \in 1 .. n |-> image'[first + k - 1]]
      /\ labelList' = IF label THEN <<first>> \o labelList ELSE labelList
      /\ disk' = IF "l" \in options
                 THEN [disk EXCEPT !["l"].data =
                         @ \o (IF label THEN <<ListLine("label", first, 0)>> ELSE <<>>)
                           \o [k \in 1 .. n |-> ListLine("word", first + k - 1, Code(first + k - 1))]]
                 ELSE disk
      /\ open' = Advanced
      /\ UNCHANGED <<args, shape, options, stage, sf, errors, todo, status>>

\* A comment, a definition, or a line that a conditional leaves out.
Skip ==
  /\ AtLine /\ open' = Advanced
  /\ UNCHANGED <<args, shape, options, stage, sf, offset, image, labelList, errors, todo, disk,
                 status, emitted>>

Origin(val) ==
  /\ AtLine /\ val >= offset
  /\ offset' = val /\ open' = Advanced
  /\ UNCHANGED <<args, shape, options, stage, sf, image, labelList, errors, todo, disk, status, emitted>>

\* InitSourceFile takes the first record of this name that is not in use.
Include(f) ==
  LET free == {r \in 0 .. Len(sf) - 1 : FileOf(r) = f /\ \A k \in DOMAIN open : open[k].rec # r}
      rec == IF free = {} THEN Len(sf) ELSE Min(free)
  IN  /\ AtLine /\ Len(open) < MaxOpen
      /\ sf' = IF free = {} THEN Append(sf, f) ELSE sf
      /\ open' = Append(Advanced, [rec |-> rec, line |-> 1])
      /\ UNCHANGED <<args, shape, options, stage, offset, image, labelList, errors, todo, disk,
                     status, emitted>>

EndOfFile ==
  /\ stage = "asm" /\ open # <<>> /\ ~AtLine
  /\ open' = Front(open)
  /\ UNCHANGED <<args, shape, options, stage, sf, offset, image, labelList, errors, todo, disk,
                 status, emitted>>

\* A line of either pass is rejected, the image is full, the includes are too
\* deep, or the passes end at different offsets.
GiveUp ==
  /\ stage = "asm" /\ errors = {}
  /\ errors' = {"pass"} /\ open' = <<>>
  /\ UNCHANGED <<args, shape, options, stage, sf, offset, image, labelList, todo, disk, status, emitted>>

-----------------------------------------------------------------------------
(* The output files.                                                       *)

\* Mutant: errors do not clear the options.
WantedAlways == IF offset <= 0 THEN <<>> ELSE Keep(Images, options)

\* Errors, or nothing generated, and nothing is written (Options = 0).
Wanted == IF errors # {} \/ offset <= 0 THEN <<>> ELSE Keep(Images, options)

EndPasses ==
  /\ stage = "asm" /\ open = <<>>
  /\ stage' = "write" /\ todo' = Wanted
  /\ UNCHANGED <<args, shape, options, sf, open, offset, image, labelList, errors, disk, status, emitted>>

Codes == [k \in 1 .. offset |-> image[k - 1].code]

Byte(word, k) == <<word, k>>     \* bits 8k .. 8k+7
Little(word) == <<Byte(word, 0), Byte(word, 1), Byte(word, 2), Byte(word, 3)>>

\* The debug file: a header, the labels, the source files, the words.
SizeOf == [header |-> 36, label |-> 68, file |-> 64, code |-> 16]
Unit(kind, what) == [kind |-> kind, what |-> what]

\* Mutant: the file records are not counted.
HeaderShort ==
  LET label == SizeOf.header
      file == label + Len(labelList) * SizeOf.label
  IN  [LabelCount |-> Len(labelList), LabelOffset |-> label, FileCount |-> Len(sf), FileOffset |-> file,
       CodeCount |-> offset, CodeOffset |-> file]

Header ==
  LET label == SizeOf.header
      file == label + Len(labelList) * SizeOf.label
  IN  [LabelCount |-> Len(labelList), LabelOffset |-> label, FileCount |-> Len(sf), FileOffset |-> file,
       CodeCount |-> offset, CodeOffset |-> file + Len(sf) * SizeOf.file]

DebugFile ==
  <<Unit("header", Header)>> \o [k \in DOMAIN labelList |-> Unit("label", labelList[k])]
    \o [k \in DOMAIN sf |-> Unit("file", sf[k])] \o [k \in 1 .. offset |-> Unit("code", image[k - 1])]

\* Mutant: the entry at the address, whichever source file it is of.
FromAny(rec, addr, line) == \E a \in 0 .. offset - 1 : image[a].addr = addr /\ image[a].line = line

\* GetInfoFromAddr finds the first entry that has the address.
GetInfoFromAddr(addr) == {a \in 0 .. offset - 1 : /\ image[a].addr = addr
                                                  /\ \A b \in 0 .. a - 1 : image[b].addr # addr}

\* The word at an address comes from this line of this record.
From(rec, addr, line) == \E a \in GetInfoFromAddr(addr) : image[a].file = rec /\ image[a].line = line

Printed(line, addr, text) == [line |-> line, addr |-> addr, text |-> text]

\* A line: its text after the first of its words, or after none.  PrintLine
\* returns 0 at the end of the file, and the listing ends there.
ListOf(rec, line) ==
  LET words == Keep([a \in 1 .. offset |-> a - 1], {a \in 0 .. offset - 1 : From(rec, a, line)})
      end == shape[FileOf(rec)]
  IN  IF words = <<>> THEN <<Printed(line, -1, line)>>
      ELSE <<Printed(line, words[1], line)>> \o
           (IF line = end.lines /\ ~end.ended THEN <<>>
            ELSE [k \in 1 .. Len(words) - 1 |-> Printed(0, words[k + 1], 0)])

\* ListFile; a file that ends with a newline has an empty line after it.
ListFile(rec) ==
  LET end == shape[FileOf(rec)]
  IN  FlattenSeq([line \in 1 .. end.lines + (IF end.ended THEN 1 ELSE 0) |-> ListOf(rec, line)])

Listing(lost) == [k \in DOMAIN sf |-> IF sf[k] \in lost THEN <<>> ELSE ListFile(k - 1)]

\* The source files of lost cannot be read again for the listing.
Data(o, lost) ==
  CASE o \in {"c", "m"} -> Codes
    [] o = "d" -> DebugFile
    [] o = "L" -> Listing(lost)
    [] o = "b" -> FlattenSeq([k \in 1 .. offset |-> Little(image[k - 1].code)])
    [] o = "B" -> FlattenSeq([k \in 1 .. offset |-> Reverse(Little(image[k - 1].code))])

\* An output that cannot be opened is an error and keeps what it was; the others
\* are written all the same.
WriteOutput(opens, lost) ==
  /\ stage = "write" /\ todo # <<>> /\ todo' = Tail(todo)
  /\ lost # {} => opens /\ Head(todo) = "L"
  /\ disk' = IF opens THEN Wrote(Head(todo), Data(Head(todo), lost)) ELSE disk
  /\ errors' = IF opens THEN errors ELSE errors \cup {"output"}
  /\ UNCHANGED <<args, shape, options, stage, sf, open, offset, image, labelList, status, emitted>>

Exit ==
  /\ stage = "write" /\ todo = <<>>
  /\ stage' = "exit" /\ status' = IF errors # {} \/ offset <= 0 THEN "error" ELSE "success"
  /\ UNCHANGED <<args, shape, options, sf, open, offset, image, labelList, errors, todo, disk, emitted>>

OutputNext ==
  \/ ReadArgs \/ OpenFails \/ Begin
  \/ \E label \in BOOLEAN, n \in 0 .. 2 : Line(label, n)
  \/ Skip \/ \E val \in Origins : Origin(val)
  \/ \E f \in Files : Include(f)
  \/ EndOfFile \/ GiveUp \/ EndPasses
  \/ \E opens \in BOOLEAN, lost \in SUBSET Files : WriteOutput(opens, lost)
  \/ Exit

OutputSpec == OutputInit /\ [][OutputNext]_outputVars

-----------------------------------------------------------------------------
(* Properties.                                                             *)

OutputTypeOK ==
  /\ options \subseteq Outputs /\ stage \in {"args", "open", "asm", "write", "exit"}
  /\ sf \in Seq(Files) /\ offset \in -1 .. MAX_PROGRAM /\ errors \subseteq {"pass", "output"}
  /\ status \in {"none", "error", "success"}
  /\ \A k \in DOMAIN open : open[k].rec \in 0 .. Len(sf) - 1

New(o) == disk[o].new

\* The word the program has at an address, by the history.
WordAt(a) == IF \E e \in ToSet(emitted) : e.addr = a
             THEN (CHOOSE e \in ToSet(emitted) : e.addr = a).code ELSE 0

\* What a loader on a processor of the byte order reads.
ReadsBack(o) ==
  LET data == disk[o].data
      At(a, k) == data[4 * a + IF o = "b" THEN k + 1 ELSE 4 - k]
  IN  IF o \in {"c", "m"} THEN data = [k \in 1 .. offset |-> WordAt(k - 1)]
      ELSE /\ Len(data) = 4 * offset
           /\ \A a \in 0 .. offset - 1, k \in 0 .. 3 : At(a, k) = Byte(WordAt(a), k)

\* An output is never a part of a program: it holds every word of one that was
\* assembled without an error, or is what an earlier run left; and success is
\* only reported when every output asked for is new (pasm.c:388-647).
WholeOrOld ==
  stage = "exit" =>
    /\ \A o \in {"c", "m", "b", "B"} : New(o) => o \in options /\ ReadsBack(o)
    /\ (\E o \in ToSet(Images) : New(o)) => "pass" \notin errors
    /\ status = "success" => \A o \in options : New(o)

\* Where in the debug file a unit starts.
StartOf(k) == SumFunction([i \in 1 .. k - 1 |-> SizeOf[disk["d"].data[i].kind]])

\* The unit of a kind at a place in the debug file.
UnitAt(kind, place, what) ==
  \E k \in DOMAIN disk["d"].data :
    disk["d"].data[k].kind = kind /\ StartOf(k) = place /\ disk["d"].data[k].what = what

\* By the counts and offsets of its header a debugger finds in the debug file
\* every label, every source file by the index that words name it with, and every
\* word with the line it comes from (pasm.c:457-549).
DebugFileReads ==
  New("d") =>
    LET header == disk["d"].data[1].what
    IN  /\ header.LabelCount = Len(labelList) /\ header.CodeCount = offset
        /\ \A k \in DOMAIN labelList :
             UnitAt("label", header.LabelOffset + SizeOf.label * (k - 1), labelList[k])
        /\ \A e \in ToSet(emitted) :
             /\ UnitAt("file", header.FileOffset + SizeOf.file * e.file, sf[e.file + 1])
             /\ UnitAt("code", header.CodeOffset + SizeOf.code * e.addr, e)

\* The words of a listing of one record, each with the line it stands at.
Listed(text) ==
  LET words == Keep([k \in DOMAIN text |-> k], {k \in DOMAIN text : text[k].addr >= 0})
      line(k) == text[CHOOSE j \in 1 .. k : text[j].line > 0 /\ \A i \in j + 1 .. k : text[i].line = 0].line
  IN  [i \in DOMAIN words |-> <<line(words[i]), text[words[i]].addr>>]

\* PrintLine ends the listing of a file at its end, so a last line that is not
\* ended shows its first word only.
CutShort(rec, line) == line = shape[FileOf(rec)].lines /\ ~shape[FileOf(rec)].ended

\* The annotated listing shows every word once, at the line of the file that
\* generated it, in the order of lines, also when files are included twice, by
\* themselves or around a hole of the image; and the raw listing shows them in
\* the order of the program (pasm.c:551-584, 917-934, 1226-1297).
ListsEveryWord ==
  /\ New("L") =>
       \A r \in DOMAIN disk["L"].data :
         disk["L"].data[r] # <<>> =>
           LET listed == Listed(disk["L"].data[r])
               from == {<<e.line, e.addr>> : e \in {x \in ToSet(emitted) : x.file = r - 1}}
           IN  /\ ToSet(listed) \subseteq from /\ Len(listed) = Cardinality(ToSet(listed))
               /\ \A i, j \in DOMAIN listed : i < j => listed[i][1] <= listed[j][1]
               /\ \A w \in from \ ToSet(listed) :
                    CutShort(r - 1, w[1]) /\ \E v \in ToSet(listed) : v[1] = w[1]
  /\ New("l") =>
       LET raw == disk["l"].data
           words == Keep(raw, {x \in ToSet(raw) : x.kind = "word"})
       IN  [k \in DOMAIN words |-> Entry(words[k].file, words[k].line, words[k].addr, words[k].code)]
             = emitted
=============================================================================
