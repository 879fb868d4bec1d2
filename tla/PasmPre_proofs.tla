---------------------------- MODULE PasmPre_proofs ----------------------------
(***************************************************************************)
(* The conditionals, the files and the two passes of the preprocessor, for *)
(* any files, names and limits: what is selected, that the second pass     *)
(* reads what the first read, and that it needs no more records.           *)
(***************************************************************************)
EXTENDS PasmPre, FiniteSetTheorems, WellFoundedInduction, SequenceTheorems, TLAPS

\* A conditional, an open file, and the record of a file.
CondRec == [true : BOOLEAN, else : BOOLEAN, own : BOOLEAN, by : Nat]

FrameRec == [file : Files, rec : Nat \ {0}, line : Nat \ {0}, ccDepthIn : Nat,
             head : BOOLEAN]

FileRec == [file : Files \union {Absent}, inUse : BOOLEAN]

\* Files are open in a pass only, and a fatal error is an error.
PreType ==
  /\ source \in [Files -> Seq(Line)]
  /\ phase \in {"open", "lines", "done"} /\ Pass \in 1 .. 2
  /\ Errors \in Nat /\ FatalError \in BOOLEAN
  /\ cc \in Seq(CondRec) /\ records \in Seq(FileRec) /\ stack \in Seq(FrameRec)
  /\ phase # "lines" => stack = <<>>
  /\ FatalError => Errors # 0

\* The words of a pass are values of any kind.
OutType == \E S : out \in [1 .. 2 -> Seq(S)]

LEMMA TypeInit == Init => PreType /\ OutType
<1> SUFFICES ASSUME Init PROVE PreType /\ OutType
  OBVIOUS
<1>1. source \in [Files -> Seq(Line)] /\ Main \in Files
  BY PreAssumption DEF Init
<1>2. records \in Seq(FileRec)
  <2>1. [file |-> Main, inUse |-> FALSE] \in FileRec
    BY <1>1 DEF FileRec
  <2> HIDE DEF FileRec
  <2> QED BY <2>1 DEF Init
<1>3. out = [p \in 1 .. 2 |-> <<>>]
  BY DEF Init
<1>4. out \in [1 .. 2 -> Seq({})]
  BY <1>3
<1>5. OutType
  BY <1>4 DEF OutType
<1>6. /\ phase = "open" /\ Pass = 1 /\ Errors = 0 /\ FatalError = FALSE /\ cc = <<>> /\ stack = <<>>
  BY DEF Init
<1>7. (FatalError => Errors # 0) /\ FatalError \in BOOLEAN
  BY <1>6
<1>8. cc \in Seq(CondRec) /\ stack \in Seq(FrameRec)
  BY <1>6
<1> QED BY <1>1, <1>2, <1>5, <1>6, <1>7, <1>8 DEF PreType

-----------------------------------------------------------------------------
(* Frames.                                                                 *)

\* A file at its next line, and one an included file comes back to.
Go(f, h) == [file |-> f.file, rec |-> f.rec, line |-> f.line + 1,
             ccDepthIn |-> f.ccDepthIn, head |-> h]
Headed(f, h) == [file |-> f.file, rec |-> f.rec, line |-> f.line,
                 ccDepthIn |-> f.ccDepthIn, head |-> h]

LEMMA GoType ==
  ASSUME NEW f \in FrameRec, NEW h \in BOOLEAN
  PROVE  /\ Go(f, h) \in FrameRec /\ Headed(f, h) \in FrameRec
         /\ [[f EXCEPT !.line = f.line + 1] EXCEPT !.head = h] = Go(f, h)
         /\ [f EXCEPT !.line = f.line + 1] = Go(f, f.head)
         /\ [f EXCEPT !.head = h] = Headed(f, h)
<1>1. PICK a \in Files, b \in Nat \ {0}, c \in Nat \ {0}, d \in Nat, e \in BOOLEAN :
        f = [file |-> a, rec |-> b, line |-> c, ccDepthIn |-> d, head |-> e]
  BY DEF FrameRec
<1>2. f.file = a /\ f.rec = b /\ f.line = c /\ f.ccDepthIn = d /\ f.head = e
  BY <1>1
<1>3. Go(f, h) \in FrameRec /\ Headed(f, h) \in FrameRec
  BY <1>2 DEF FrameRec, Go, Headed
<1>4. [f EXCEPT !.line = f.line + 1]
        = [file |-> a, rec |-> b, line |-> c + 1, ccDepthIn |-> d, head |-> e]
  BY <1>1
<1>5. [[f EXCEPT !.line = f.line + 1] EXCEPT !.head = h]
        = [file |-> a, rec |-> b, line |-> c + 1, ccDepthIn |-> d, head |-> h]
  <2>1. PICK r : r = [f EXCEPT !.line = f.line + 1]
    OBVIOUS
  <2>2. PICK l : l = c + 1
    OBVIOUS
  <2>3. r = [file |-> a, rec |-> b, line |-> l, ccDepthIn |-> d, head |-> e]
    BY <1>4, <2>1, <2>2
  <2>4. [r EXCEPT !.head = h] = [file |-> a, rec |-> b, line |-> l, ccDepthIn |-> d, head |-> h]
    BY <2>3
  <2> QED BY <2>1, <2>2, <2>4
<1>6. [f EXCEPT !.head = h] = [file |-> a, rec |-> b, line |-> c, ccDepthIn |-> d, head |-> h]
  BY <1>1
<1> QED BY <1>2, <1>3, <1>4, <1>5, <1>6 DEF Go, Headed

\* A change of the last file.
LEMMA LastIs ==
  ASSUME NEW st \in Seq(FrameRec), NEW k, k = Len(st), st # <<>>, NEW f \in FrameRec, NEW su,
         su = [st EXCEPT ![k] = f]
  PROVE  /\ su \in Seq(FrameRec) /\ Len(su) = k /\ su[k] = f
         /\ \A j \in 1 .. k : j # k => su[j] = st[j]
<1>1. k \in DOMAIN st /\ DOMAIN st = 1 .. k /\ k \in Nat
  OBVIOUS
<1> QED BY <1>1

\* The three ways the stack changes.
Goes(h) ==
  /\ Len(stack') = OpenFiles /\ stack'[OpenFiles] = Go(Top, h)
  /\ \A j \in 1 .. OpenFiles : j # OpenFiles => stack'[j] = stack[j]

Opens(f) ==
  /\ Len(stack') = OpenFiles + 1 /\ stack'[OpenFiles + 1] = Frame(f)
  /\ stack'[OpenFiles] = Go(Top, Top.head)
  /\ \A j \in 1 .. OpenFiles : j # OpenFiles => stack'[j] = stack[j]

Closes(h) ==
  /\ Len(stack') = OpenFiles - 1
  /\ \A j \in 1 .. OpenFiles - 1 :
       stack'[j] = IF j = OpenFiles - 1 THEN Headed(stack[j], h) ELSE stack[j]

LEMMA TopType ==
  ASSUME PreType, stack # <<>>
  PROVE  /\ Top \in FrameRec /\ OpenFiles \in Nat \ {0} /\ DOMAIN stack = 1 .. OpenFiles
         /\ \A j \in 1 .. OpenFiles : stack[j] \in FrameRec
BY DEF PreType, Top, OpenFiles

LEMMA NextLineGoes ==
  ASSUME PreType, stack # <<>>, NEW h \in BOOLEAN, NextLine(h)
  PROVE  stack' \in Seq(FrameRec) /\ Goes(h)
<1>1. stack \in Seq(FrameRec)
  BY DEF PreType
<1> DEFINE k == Len(stack)
           f == stack[k]
           f1 == [f EXCEPT !.line = f.line + 1]
           s1 == [stack EXCEPT ![k] = f1]
           f2 == [f1 EXCEPT !.head = h]
<1>2. k \in DOMAIN stack /\ DOMAIN stack = 1 .. k /\ f \in FrameRec
  BY <1>1
<1>3. f2 = Go(f, h) /\ f2 \in FrameRec
  BY <1>2, GoType
<1>4. stack' = [s1 EXCEPT ![k] = [s1[k] EXCEPT !.head = h]]
  BY DEF NextLine, OpenFiles
<1>5. s1[k] = f1
  BY <1>2
<1>6. stack' = [s1 EXCEPT ![k] = f2]
  BY <1>4, <1>5
<1> HIDE DEF f2
<1>7. stack' = [stack EXCEPT ![k] = f2]
  BY <1>2, <1>6
<1> HIDE DEF f
<1>8. PICK su : su = stack'
  OBVIOUS
<1>9. k = Len(stack) /\ su = [stack EXCEPT ![k] = f2]
  BY <1>7, <1>8
<1> HIDE DEF k
<1>10. /\ su \in Seq(FrameRec) /\ Len(su) = k /\ su[k] = f2
       /\ \A j \in 1 .. k : j # k => su[j] = stack[j]
  BY <1>1, <1>3, <1>9, LastIs
<1> QED BY <1>3, <1>8, <1>10 DEF k, f, Goes, OpenFiles, Top

LEMMA CloseCloses ==
  ASSUME PreType, stack # <<>>, NEW h \in BOOLEAN, Close(h)
  PROVE  stack' \in Seq(FrameRec) /\ Closes(h /\ Pass = 2)
<1>1. stack \in Seq(FrameRec)
  BY DEF PreType
<1>2. stack' = IF Len(stack) = 1 THEN <<>>
               ELSE [Front(stack) EXCEPT ![Len(stack) - 1].head = h /\ Pass = 2]
  BY DEF Close, OpenFiles
<1>3. (h /\ Pass = 2) \in BOOLEAN
  OBVIOUS
<1>4. Len(stack) \in Nat \ {0} /\ DOMAIN stack = 1 .. Len(stack)
  BY <1>1
<1>5. CASE Len(stack) = 1
  BY <1>2, <1>4, <1>5 DEF Closes, OpenFiles
<1>6. CASE Len(stack) # 1
  <2> DEFINE g == Front(stack)
             k == Len(stack) - 1
             f == g[k]
             c == h /\ Pass = 2
             f1 == [f EXCEPT !.head = c]
  <2>1. g \in Seq(FrameRec) /\ Len(g) = k /\ k \in Nat \ {0} /\ \A i \in 1 .. k : g[i] = stack[i]
    BY <1>1, <1>4, <1>6 DEF Front
  <2> HIDE DEF g
  <2>2. f \in FrameRec /\ f = stack[k]
    BY <2>1
  <2>3. f1 = Headed(f, c) /\ f1 \in FrameRec
    BY <1>3, <2>2, GoType
  <2>4. stack' = [g EXCEPT ![k] = f1]
    BY <1>2, <1>6 DEF g
  <2> HIDE DEF f1, f, c, k
  <2>5. PICK sg \in Seq(FrameRec), fg \in FrameRec : sg = g /\ fg = f1
    BY <2>1, <2>3
  <2> DEFINE su == [sg EXCEPT ![k] = fg]
  <2>6. su = stack' /\ sg # <<>> /\ k = Len(sg)
    BY <2>1, <2>4, <2>5
  <2>7. /\ su \in Seq(FrameRec) /\ Len(su) = k /\ su[k] = fg
        /\ \A j \in 1 .. k : j # k => su[j] = sg[j]
    BY <2>5, <2>6, LastIs
  <2> HIDE DEF su
  <2>8. /\ stack' \in Seq(FrameRec) /\ Len(stack') = k
        /\ \A j \in 1 .. k : stack'[j] = IF j = k THEN Headed(stack[j], c) ELSE stack[j]
    BY <2>1, <2>2, <2>3, <2>5, <2>6, <2>7
  <2> QED BY <2>8 DEF Closes, OpenFiles, k, c
<1> QED BY <1>5, <1>6

\* The line at hand.
LEMMA CurType ==
  ASSUME PreType, Reading, HasLine
  PROVE  /\ stack # <<>> /\ phase = "lines" /\ Cur \in Line
         /\ Cur.op = "include" => Cur.n \in Files \union {Absent}
<1>1. stack # <<>> /\ phase = "lines" /\ Top \in FrameRec
  BY TopType DEF Reading
<1>2. source[Top.file] \in Seq(Line) /\ Top.line \in 1 .. Len(source[Top.file])
  BY <1>1 DEF PreType, FrameRec, HasLine
<1>3. Cur \in Line
  BY <1>2 DEF Cur
<1>4. \A l \in Line : l.op = "include" => l.n \in Files \union {Absent}
  BY DEF Line
<1> QED BY <1>1, <1>3, <1>4

-----------------------------------------------------------------------------
(* Records.                                                                *)

\* The least element of a finite set of numbers: the sets of smaller elements are
\* ordered by inclusion, and a least one of those belongs to a least element.
LEMMA MinIs ==
  ASSUME NEW S \in SUBSET Nat, IsFiniteSet(S), S # {}
  PROVE  LET m == CHOOSE i \in S : \A j \in S : i <= j IN m \in S /\ \A j \in S : m <= j
<1> DEFINE Below(x) == {y \in S : y < x}
           T == {Below(x) : x \in S}
<1>1. T \subseteq FiniteSubsetsOf(S) /\ T # {}
  <2>1. \A x \in S : Below(x) \in SUBSET S
    OBVIOUS
  <2>2. \A x \in S : IsFiniteSet(Below(x))
    BY <2>1, FS_Subset, Zenon
  <2>3. \A x \in S : Below(x) \in FiniteSubsetsOf(S)
    BY <2>1, <2>2, Zenon DEF FiniteSubsetsOf
  <2>4. T # {}
    OBVIOUS
  <2> HIDE DEF Below
  <2> QED BY <2>3, <2>4
<1>2. PICK t \in T : \A u \in T : <<u, t>> \notin StrictSubsetOrdering(S)
  BY <1>1, FS_StrictSubsetOrderingWellFounded, WFMin, Zenon
<1>3. PICK x \in S : t = Below(x)
  OBVIOUS
<1>4. ASSUME NEW y \in S, y < x PROVE FALSE
  <2>1. Below(y) \subseteq Below(x) /\ y \in Below(x) /\ y \notin Below(y)
    <3>1. x \in Nat /\ y \in Nat
      OBVIOUS
    <3>2. \A z \in S : z < y => z < x
      BY <3>1, <1>4
    <3>3. Below(y) \subseteq Below(x)
      BY <3>2
    <3>4. y \in Below(x) /\ y \notin Below(y)
      BY <3>1, <1>4
    <3> QED BY <3>3, <3>4
  <2>2. <<Below(y), Below(x)>> \in StrictSubsetOrdering(S)
    <3>1. Below(y) \in SUBSET S /\ Below(x) \in SUBSET S
      OBVIOUS
    <3> HIDE DEF Below
    <3> QED BY <2>1, <3>1 DEF StrictSubsetOrdering
  <2>3. Below(y) \in T
    OBVIOUS
  <2> HIDE DEF T, Below
  <2> QED BY <2>2, <2>3, <1>2, <1>3
<1>5. \A y \in S : x <= y
  BY <1>4
<1>6. \E z \in S : \A y \in S : z <= y
  BY <1>5
<1> QED BY <1>6

LEMMA FreeIs ==
  ASSUME PreType, NEW f
  PROVE  /\ Free(f) \subseteq 1 .. Len(records) /\ Len(records) \in Nat
         /\ Free(f) # {} => Record(f) \in Free(f) /\ \A i \in Free(f) : Record(f) <= i
         /\ Free(f) = {} => Record(f) = Len(records) + 1
<1>1. DOMAIN records = 1 .. Len(records) /\ Len(records) \in Nat
  BY DEF PreType
<1>2. Free(f) \subseteq 1 .. Len(records)
  BY <1>1 DEF Free
<1>3. IsFiniteSet(Free(f))
  <2>1. IsFiniteSet(1 .. Len(records))
    BY <1>1, FS_Interval
  <2> QED BY <1>2, <2>1, FS_Subset, Zenon
<1>4. Free(f) \in SUBSET Nat
  BY <1>1, <1>2
<1>5. Free(f) # {} => Record(f) \in Free(f) /\ \A i \in Free(f) : Record(f) <= i
  <2> DEFINE S == Free(f)
             m == CHOOSE i \in S : \A j \in S : i <= j
  <2>1. S # {} => m \in S /\ \A j \in S : m <= j
    BY <1>3, <1>4, MinIs
  <2>2. S # {} => Record(f) = m
    BY DEF Record
  <2> HIDE DEF m
  <2> QED BY <2>1, <2>2
<1> QED BY <1>1, <1>2, <1>5 DEF Record

\* A record that is taken, or given back.
Marked(f, b) == [file |-> f, inUse |-> b]

LEMMA MarkType ==
  ASSUME NEW r \in FileRec, NEW b \in BOOLEAN
  PROVE  [r EXCEPT !.inUse = b] = Marked(r.file, b) /\ Marked(r.file, b) \in FileRec
<1>1. PICK f \in Files \union {Absent}, c \in BOOLEAN : r = [file |-> f, inUse |-> c]
  BY DEF FileRec
<1>2. [r EXCEPT !.inUse = b] = [file |-> f, inUse |-> b] /\ r.file = f
  BY <1>1
<1>3. [file |-> f, inUse |-> b] \in FileRec
  BY DEF FileRec
<1> QED BY <1>2, <1>3 DEF Marked

\* records' has the mark b at i.
Marks(i, b) ==
  /\ records' \in Seq(FileRec) /\ Len(records') = Len(records)
  /\ \A j \in 1 .. Len(records) :
       records'[j] = IF j = i THEN Marked(records[j].file, b) ELSE records[j]

LEMMA MarkedIs ==
  ASSUME PreType, NEW i, NEW b \in BOOLEAN, records' = [records EXCEPT ![i].inUse = b]
  PROVE  Marks(i, b)
<1>1. records \in Seq(FileRec) /\ DOMAIN records = 1 .. Len(records) /\ Len(records) \in Nat
  BY DEF PreType
<1>2. CASE i \in DOMAIN records
  <2> DEFINE r == [records[i] EXCEPT !.inUse = b]
  <2>1. r = Marked(records[i].file, b) /\ r \in FileRec
    <3>1. PICK q \in FileRec : q = records[i]
      BY <1>1, <1>2
    <3> QED BY <3>1, MarkType
  <2>2. records' = [records EXCEPT ![i] = r]
    OBVIOUS
  <2> HIDE DEF r
  <2>3. /\ records' \in Seq(FileRec) /\ Len(records') = Len(records)
        /\ \A j \in 1 .. Len(records) : records'[j] = IF j = i THEN r ELSE records[j]
    BY <1>1, <1>2, <2>1, <2>2
  <2> QED BY <2>1, <2>3 DEF Marks
<1>3. CASE i \notin DOMAIN records
  <2>1. records' = records
    <3>1. records = [j \in DOMAIN records |-> records[j]]
      BY <1>1
    <3>2. records' = [j \in DOMAIN records |-> records[j]]
      BY <1>1, <1>3
    <3> QED BY <3>1, <3>2
  <2> QED BY <1>1, <1>3, <2>1 DEF Marks
<1> QED BY <1>2, <1>3

\* The last record is new.
Adds(f) ==
  /\ records' \in Seq(FileRec) /\ Len(records') = Len(records) + 1
  /\ records'[Len(records) + 1] = Marked(f, TRUE)
  /\ \A j \in 1 .. Len(records) : records'[j] = records[j]

\* There is room for the file.
Fits(f) == OpenFiles # MAX_OPEN /\ Record(f) <= SOURCEFILE_MAX

\* TakeRecord.
LEMMA TakesIs ==
  ASSUME PreType, NEW f \in Files \union {Absent}, TakeRecord(f)
  PROVE  /\ records' \in Seq(FileRec) /\ Record(f) \in Nat \ {0}
         /\ \/ records' = records /\ ~CanOpen(f)
            \/ Record(f) \in Free(f) /\ Marks(Record(f), TRUE) /\ Fits(f)
            \/ Record(f) = Len(records) + 1 /\ Free(f) = {} /\ Adds(f) /\ Fits(f)
<1>1. records \in Seq(FileRec) /\ Len(records) \in Nat /\ stack \in Seq(FrameRec)
  BY DEF PreType
<1>2. Record(f) \in Free(f) \/ (Record(f) = Len(records) + 1 /\ Free(f) = {})
  BY FreeIs
<1>3. Free(f) \subseteq 1 .. Len(records)
  BY FreeIs
<1>0. Record(f) \in Nat \ {0}
  BY <1>1, <1>2, <1>3
<1>4. CASE OpenFiles = MAX_OPEN \/ Record(f) > SOURCEFILE_MAX
  <2>1. records' = records /\ SOURCEFILE_MAX \in Nat /\ MAX_OPEN \in Nat
    BY <1>4, PreAssumption DEF TakeRecord
  <2>2. ~CanOpen(f)
    BY <1>0, <1>4, <2>1 DEF CanOpen
  <2> QED BY <1>0, <1>1, <2>1, <2>2
<1>5. CASE ~(OpenFiles = MAX_OPEN \/ Record(f) > SOURCEFILE_MAX) /\ Record(f) \in Free(f)
  <2>1. Record(f) <= Len(records)
    BY <1>1, <1>3, <1>5
  <2>2. records' = [records EXCEPT ![Record(f)].inUse = TRUE]
    BY <1>5, <2>1 DEF TakeRecord
  <2>3. Marks(Record(f), TRUE)
    BY <2>2, MarkedIs
  <2>4. Fits(f)
    BY <1>0, <1>5, PreAssumption DEF Fits
  <2> QED BY <1>0, <1>5, <2>3, <2>4 DEF Marks
<1>6. CASE ~(OpenFiles = MAX_OPEN \/ Record(f) > SOURCEFILE_MAX) /\
           Record(f) = Len(records) + 1 /\ Free(f) = {}
  <2>1. ~(Record(f) <= Len(records))
    BY <1>1, <1>6
  <2>2. records' = Append(records, [file |-> f, inUse |-> TRUE])
    BY <1>6, <2>1 DEF TakeRecord
  <2>3. [file |-> f, inUse |-> TRUE] \in FileRec
    BY DEF FileRec
  <2>4. Adds(f)
    BY <1>1, <2>2, <2>3 DEF Adds, Marked
  <2>5. Fits(f)
    BY <1>0, <1>6, PreAssumption DEF Fits
  <2> QED BY <1>0, <1>6, <2>4, <2>5 DEF Adds
<1> QED BY <1>2, <1>4, <1>5, <1>6

LEMMA FrameType ==
  ASSUME PreType, NEW f \in Files
  PROVE  Frame(f) \in FrameRec
<1>1. Record(f) \in Nat \ {0} /\ Len(cc) \in Nat
  <2>1. Len(records) \in Nat /\ Free(f) \subseteq 1 .. Len(records)
    BY FreeIs
  <2>2. Record(f) \in Free(f) \/ Record(f) = Len(records) + 1
    BY FreeIs
  <2>3. Len(cc) \in Nat
    BY DEF PreType
  <2> QED BY <2>1, <2>2, <2>3
<1> QED BY <1>1 DEF Frame, FrameRec

LEMMA IncludeOpens ==
  ASSUME PreType, stack # <<>>, NEW f \in Files,
         stack' = Append([stack EXCEPT ![OpenFiles].line = @ + 1], Frame(f))
  PROVE  stack' \in Seq(FrameRec) /\ Opens(f)
<1>1. stack \in Seq(FrameRec)
  BY DEF PreType
<1> DEFINE k == Len(stack)
           d == stack[k]
           d1 == [d EXCEPT !.line = d.line + 1]
           s1 == [stack EXCEPT ![k] = d1]
<1>2. k \in DOMAIN stack /\ DOMAIN stack = 1 .. k /\ d \in FrameRec /\ k \in Nat
  BY <1>1
<1>3. d1 = Go(d, d.head) /\ d1 \in FrameRec
  <2>1. d.head \in BOOLEAN
    BY <1>2 DEF FrameRec
  <2>2. PICK h \in BOOLEAN : h = d.head
    BY <2>1
  <2>3. [d EXCEPT !.line = d.line + 1] = Go(d, h) /\ Go(d, h) \in FrameRec
    BY <1>2, <2>2, GoType
  <2> QED BY <2>2, <2>3
<1>4. stack' = Append(s1, Frame(f))
  BY DEF OpenFiles
<1> HIDE DEF d1, d, k
<1>5. /\ s1 \in Seq(FrameRec) /\ Len(s1) = k /\ s1[k] = d1
      /\ \A j \in 1 .. k : j # k => s1[j] = stack[j]
  <2>1. PICK fg \in FrameRec : fg = d1
    BY <1>3
  <2>2. s1 = [stack EXCEPT ![k] = fg] /\ k = Len(stack)
    BY <2>1 DEF k
  <2> HIDE DEF s1
  <2> QED BY <1>1, <2>1, <2>2, LastIs
<1> HIDE DEF s1
<1>6. Frame(f) \in FrameRec
  BY FrameType
<1>7. /\ stack' \in Seq(FrameRec) /\ Len(stack') = k + 1 /\ stack'[k + 1] = Frame(f)
      /\ \A j \in 1 .. k : stack'[j] = s1[j]
  <2>1. PICK sg \in Seq(FrameRec), fg \in FrameRec : sg = s1 /\ fg = Frame(f)
    BY <1>5, <1>6
  <2>2. stack' = Append(sg, fg) /\ Len(sg) = k
    BY <1>4, <1>5, <2>1
  <2>3. /\ Append(sg, fg) \in Seq(FrameRec) /\ Len(Append(sg, fg)) = Len(sg) + 1
        /\ Append(sg, fg)[Len(sg) + 1] = fg /\ \A j \in 1 .. Len(sg) : Append(sg, fg)[j] = sg[j]
    OBVIOUS
  <2> QED BY <2>1, <2>2, <2>3
<1>8. stack'[k] = d1 /\ \A j \in 1 .. k : j # k => stack'[j] = stack[j]
  BY <1>2, <1>5, <1>7
<1> QED BY <1>3, <1>7, <1>8 DEF k, d, Opens, OpenFiles, Top

-----------------------------------------------------------------------------
(* Conditionals.                                                           *)

LEMMA PushType ==
  ASSUME PreType, NEW own \in BOOLEAN
  PROVE  Push(own) \in Seq(CondRec)
<1>1. cc \in Seq(CondRec) /\ OpenFiles \in Nat
  BY DEF PreType, OpenFiles
<1>2. (Live /\ own) \in BOOLEAN
  OBVIOUS
<1> DEFINE l == Live /\ own
           c == [true |-> l, else |-> FALSE, own |-> own, by |-> OpenFiles]
<1> HIDE DEF l
<1>3. c \in CondRec
  BY <1>1, <1>2 DEF CondRec, l
<1>4. Push(own) = Append(cc, c)
  BY DEF Push, l
<1> HIDE DEF c
<1> QED BY <1>1, <1>3, <1>4

\* #else turns the last one over.
Turned ==
  [true |-> ~cc[Len(cc)].true /\ \A i \in 1 .. Len(cc) - 1 : cc[i].true,
   else |-> TRUE, own |-> ~cc[Len(cc)].own, by |-> cc[Len(cc)].by]

LEMMA TurnedType ==
  ASSUME PreType, cc # <<>>
  PROVE  Turned \in CondRec
<1>1. cc[Len(cc)] \in CondRec
  BY DEF PreType
<1>2. (~cc[Len(cc)].true /\ \A i \in 1 .. Len(cc) - 1 : cc[i].true) \in BOOLEAN
  OBVIOUS
<1>3. (~cc[Len(cc)].own) \in BOOLEAN /\ cc[Len(cc)].by \in Nat
  BY <1>1 DEF CondRec
<1> QED BY <1>2, <1>3 DEF Turned, CondRec

\* Only conditionals change cc within a pass.
CondStep == cc' = cc \/ (\E own \in BOOLEAN : cc' = Push(own))
            \/ (cc # <<>> /\ cc' = [cc EXCEPT ![Len(cc)] = Turned])
            \/ (cc # <<>> /\ cc' = Front(cc))
            \/ cc' = <<>>

LEMMA CondType ==
  ASSUME PreType, CondStep
  PROVE  cc' \in Seq(CondRec)
<1>1. cc \in Seq(CondRec)
  BY DEF PreType
<1>2. CASE cc # <<>> /\ cc' = [cc EXCEPT ![Len(cc)] = Turned]
  BY <1>1, <1>2, TurnedType
<1>3. CASE cc # <<>> /\ cc' = Front(cc)
  BY <1>1, <1>3 DEF Front
<1>4. CASE \E own \in BOOLEAN : cc' = Push(own)
  BY <1>4, PushType
<1>5. CASE cc' = <<>>
  BY <1>5
<1> QED BY <1>1, <1>2, <1>3, <1>4, <1>5 DEF CondStep

LEMMA CondNext == [Next]_vars => CondStep
<1> SUFFICES ASSUME [Next]_vars PROVE CondStep
  OBVIOUS
<1>1. CASE IfDef
  <2> DEFINE own == (Cur.n \in DOMAIN equates) <=> (Cur.op = "ifdef")
  <2>1. own \in BOOLEAN /\ (cc' = cc \/ cc' = Push(own))
    BY <1>1 DEF IfDef
  <2> HIDE DEF own
  <2> QED BY <2>1 DEF CondStep
<1>2. CASE Else
  <2>1. cc' = cc \/ (cc # <<>> /\ cc' = [cc EXCEPT ![Len(cc)] = Turned])
    BY <1>2 DEF Else, Turned
  <2> QED BY <2>1 DEF CondStep
<1>3. CASE Endif
  BY <1>3 DEF Endif, CondStep
<1>4. CASE EndPass
  BY <1>4 DEF EndPass, ppCleanup, CondStep
<1>5. CASE UNCHANGED vars
  BY <1>5 DEF vars, CondStep
<1>6. CASE OpenMain \/ Abort \/ EndOfFile \/ Skip \/ Unknown \/ Error \/ Define \/ Undef \/ Include
           \/ Text \/ Label \/ Wrong \/ TooLong
  <2>1. cc' = cc
    BY <1>6 DEF OpenMain, Abort, EndOfFile, Skip, Unknown, Error, Define, Undef, Include, Text,
                Label, Wrong, TooLong
  <2> QED BY <2>1 DEF CondStep
<1> QED BY <1>1, <1>2, <1>3, <1>4, <1>5, <1>6 DEF Next, Directive

LEMMA SelectedStep ==
  ASSUME PreType, SelectedByAll, CondStep
  PROVE  SelectedByAll'
<1>1. cc \in Seq(CondRec) /\ DOMAIN cc = 1 .. Len(cc) /\ Len(cc) \in Nat
  BY DEF PreType
<1>2. \A d \in 1 .. Len(cc) : cc[d].true <=> \A i \in 1 .. d : cc[i].own
  BY <1>1 DEF SelectedByAll
<1>3. CASE \E own \in BOOLEAN : cc' = Push(own)
  <2>1. PICK own \in BOOLEAN : cc' = Push(own)
    BY <1>3
  <2> DEFINE k == Len(cc) + 1
             l == Live /\ own
             c == [true |-> l, else |-> FALSE, own |-> own, by |-> OpenFiles]
  <2>2. c.true = l /\ c.own = own
    OBVIOUS
  <2>3. cc' = Append(cc, c)
    BY <2>1 DEF Push
  <2>4. l <=> own /\ \A i \in 1 .. Len(cc) : cc[i].own
    <3>1. CASE cc = <<>>
      BY <3>1 DEF Live
    <3>2. CASE cc # <<>>
      <4>1. Len(cc) \in 1 .. Len(cc) /\ Last(cc) = cc[Len(cc)]
        BY <1>1, <3>2 DEF Last
      <4> QED BY <1>2, <3>2, <4>1 DEF Live
    <3> QED BY <3>1, <3>2
  <2> HIDE DEF c, l
  <2>5. DOMAIN cc' = 1 .. k /\ cc'[k] = c /\ \A i \in 1 .. Len(cc) : cc'[i] = cc[i]
    BY <1>1, <2>3
  <2>6. ASSUME NEW d \in 1 .. k PROVE cc'[d].true <=> \A i \in 1 .. d : cc'[i].own
    <3>1. CASE d = k
      <4>1. (\A i \in 1 .. k : cc'[i].own) <=> (cc'[k].own /\ \A i \in 1 .. Len(cc) : cc'[i].own)
        BY <1>1
      <4>2. (\A i \in 1 .. Len(cc) : cc'[i].own) <=> \A i \in 1 .. Len(cc) : cc[i].own
        BY <2>5
      <4> QED BY <2>2, <2>4, <2>5, <3>1, <4>1, <4>2
    <3>2. CASE d # k
      <4>1. d \in 1 .. Len(cc) /\ \A i \in 1 .. d : i \in 1 .. Len(cc)
        BY <1>1, <3>2
      <4> QED BY <1>2, <2>5, <4>1
    <3> QED BY <3>1, <3>2
  <2> QED BY <2>5, <2>6 DEF SelectedByAll
<1>4. CASE cc # <<>> /\ cc' = [cc EXCEPT ![Len(cc)] = Turned]
  <2> DEFINE k == Len(cc)
  <2>1. k \in 1 .. k /\ k - 1 \in Nat
    BY <1>1, <1>4
  <2>2. DOMAIN cc' = 1 .. k /\ cc'[k] = Turned /\ \A i \in 1 .. k - 1 : cc'[i] = cc[i]
    <3>1. cc' = [cc EXCEPT ![k] = Turned] /\ k \in DOMAIN cc
      BY <1>1, <1>4
    <3>2. \A i \in 1 .. k - 1 : i \in 1 .. k /\ i # k
      BY <2>1
    <3> HIDE DEF k
    <3>3. DOMAIN cc = 1 .. k
      BY <1>1 DEF k
    <3> QED BY <3>1, <3>2, <3>3
  <2>3. /\ Turned.true <=> ~cc[k].true /\ \A i \in 1 .. k - 1 : cc[i].true
        /\ Turned.own <=> ~cc[k].own
    BY DEF Turned
  <2> HIDE DEF k
  <2>4. (\A i \in 1 .. k - 1 : cc[i].true) <=> \A i \in 1 .. k - 1 : cc[i].own
    <3>1. \A i \in 1 .. k - 1 : cc[i].own <=> cc[i].own
      OBVIOUS
    <3>2. ASSUME \A i \in 1 .. k - 1 : cc[i].true, NEW i \in 1 .. k - 1 PROVE cc[i].own
      <4>1. i \in 1 .. Len(cc) /\ i \in 1 .. i
        BY <2>1 DEF k
      <4> QED BY <1>2, <3>2, <4>1
    <3>3. ASSUME \A i \in 1 .. k - 1 : cc[i].own, NEW d \in 1 .. k - 1 PROVE cc[d].true
      <4>1. d \in 1 .. Len(cc) /\ \A i \in 1 .. d : i \in 1 .. k - 1
        BY <2>1 DEF k
      <4> QED BY <1>2, <3>3, <4>1
    <3> QED BY <3>2, <3>3
  <2>5. cc[k].true <=> cc[k].own /\ \A i \in 1 .. k - 1 : cc[i].own
    <3>1. cc[k].true <=> \A i \in 1 .. k : cc[i].own
      BY <1>2, <2>1 DEF k
    <3>2. (\A i \in 1 .. k : cc[i].own) <=> (cc[k].own /\ \A i \in 1 .. k - 1 : cc[i].own)
      BY <2>1
    <3> QED BY <3>1, <3>2
  <2>6. ASSUME NEW d \in 1 .. k PROVE cc'[d].true <=> \A i \in 1 .. d : cc'[i].own
    <3>1. CASE d = k
      <4>1. (\A i \in 1 .. k : cc'[i].own) <=> (cc'[k].own /\ \A i \in 1 .. k - 1 : cc'[i].own)
        BY <2>1
      <4>2. (\A i \in 1 .. k - 1 : cc'[i].own) <=> \A i \in 1 .. k - 1 : cc[i].own
        BY <2>2
      <4> QED BY <2>2, <2>3, <2>4, <2>5, <3>1, <4>1, <4>2
    <3>2. CASE d # k
      <4>1. d \in 1 .. k - 1 /\ d \in 1 .. Len(cc) /\ \A i \in 1 .. d : i \in 1 .. k - 1
        BY <2>1, <3>2 DEF k
      <4> QED BY <1>2, <2>2, <4>1
    <3> QED BY <3>1, <3>2
  <2> QED BY <2>2, <2>6 DEF SelectedByAll
<1>5. CASE cc # <<>> /\ cc' = Front(cc)
  <2>1. DOMAIN cc' = 1 .. Len(cc) - 1 /\ \A i \in 1 .. Len(cc) - 1 : cc'[i] = cc[i]
    BY <1>1, <1>5 DEF Front
  <2>2. ASSUME NEW d \in 1 .. Len(cc) - 1 PROVE cc'[d].true <=> \A i \in 1 .. d : cc'[i].own
    <3>1. d \in 1 .. Len(cc) /\ \A i \in 1 .. d : i \in 1 .. Len(cc) - 1
      BY <1>1
    <3> QED BY <1>2, <2>1, <3>1
  <2> QED BY <2>1, <2>2 DEF SelectedByAll
<1>6. CASE cc' = <<>>
  BY <1>6 DEF SelectedByAll
<1>7. CASE cc' = cc
  BY <1>7 DEF SelectedByAll
<1> QED BY <1>3, <1>4, <1>5, <1>6, <1>7 DEF CondStep

-----------------------------------------------------------------------------
(* What a step does.                                                       *)

\* How a step moves in the files.
Moves ==
  \/ stack' = stack /\ records' = records
  \/ OpenMain
  \/ stack # <<>> /\ phase = "lines" /\ records' = records /\ \E h \in BOOLEAN : NextLine(h)
  \/ stack # <<>> /\ phase = "lines" /\ \E h \in BOOLEAN : Close(h)
  \/ Include

\* What it does besides.
Counts ==
  /\ Errors' \in Nat /\ Errors' >= Errors
  /\ FatalError' \in BOOLEAN /\ (FatalError' => FatalError \/ Errors' # 0)
  /\ source' = source
  /\ \/ phase' = phase /\ Pass' = Pass
     \/ OpenMain
     \/ EndPass /\ phase' \in {"open", "done"} /\ Pass' \in 1 .. 2

LEMMA CloseMoves ==
  ASSUME stack # <<>>, phase = "lines", NEW h \in BOOLEAN, Close(h)
  PROVE  Moves
BY DEF Moves

LEMMA LineMoves ==
  ASSUME stack # <<>>, phase = "lines", NEW h \in BOOLEAN, NextLine(h), records' = records
  PROVE  Moves
BY DEF Moves

LEMMA CountsOne ==
  ASSUME PreType, UNCHANGED <<source, phase, Pass, FatalError>>,
         Errors' = Errors \/ Errors' = Errors + 1
  PROVE  Counts
<1>1. Errors \in Nat /\ FatalError \in BOOLEAN
  BY DEF PreType
<1>2. Errors' \in Nat /\ Errors' >= Errors
  BY <1>1
<1>3. FatalError' <=> FatalError
  OBVIOUS
<1>4. FatalError' \in BOOLEAN
  BY <1>1
<1> QED BY <1>2, <1>3, <1>4 DEF Counts

LEMMA RejectIs ==
  ASSUME PreType, stack # <<>>, phase = "lines", Reject
  PROVE  /\ Moves /\ Errors' = Errors + 1
<1>1. CASE Pass = 2
  BY <1>1 DEF Reject, Moves
<1>2. CASE Pass # 2
  BY <1>2 DEF Reject, Moves
<1> QED BY <1>1, <1>2

LEMMA Next1Is ==
  ASSUME PreType, stack # <<>>, phase = "lines", NEW e \in {0, 1}, Next1(e), records' = records
  PROVE  Moves /\ Errors' = Errors + e
<1>1. (e # 0) \in BOOLEAN
  OBVIOUS
<1> QED BY <1>1 DEF Next1, Moves

LEMMA StepIs == PreType /\ [Next]_vars => Moves /\ Counts
<1> SUFFICES ASSUME PreType, [Next]_vars PROVE Moves /\ Counts
  OBVIOUS
<1>0. Errors \in Nat /\ Pass \in 1 .. 2 /\ FatalError \in BOOLEAN
  BY DEF PreType
<1>1. CASE OpenMain
  BY <1>0, <1>1 DEF OpenMain, Moves, Counts
<1>2. CASE EndPass
  <2>1. Cardinality(CommandLine \intersect labels) \in Nat
    BY PreAssumption, FS_CardinalityType, FS_Subset, Zenon
  <2>2. Errors' \in Nat /\ Errors' >= Errors
    <3>1. CASE Pass = 1 /\ Errors = 0
      BY <1>2, <2>1, <3>1 DEF EndPass
    <3>2. CASE ~(Pass = 1 /\ Errors = 0)
      BY <1>0, <1>2, <3>2 DEF EndPass
    <3> QED BY <3>1, <3>2
  <2>3. stack' = stack /\ records' = records /\ source' = source /\ FatalError' = FatalError
    BY <1>2 DEF EndPass
  <2>4. phase' \in {"open", "done"} /\ Pass' \in 1 .. 2
    BY <1>0, <1>2 DEF EndPass
  <2> QED BY <1>0, <1>2, <2>2, <2>3, <2>4 DEF Moves, Counts
<1>3. CASE Abort
  <2>1. stack # <<>> /\ phase = "lines" /\ Close(TRUE)
    BY <1>3 DEF Abort
  <2>2. UNCHANGED <<source, phase, Pass, Errors, FatalError>>
    BY <1>3 DEF Abort
  <2> QED BY <2>1, <2>2, CloseMoves, CountsOne
<1>4. CASE EndOfFile
  <2>1. Mismatch \in {0, 1}
    BY DEF Mismatch
  <2>2. stack # <<>> /\ phase = "lines" /\ Close(FALSE)
    BY <1>4 DEF EndOfFile, Reading
  <2>3. UNCHANGED <<source, phase, Pass, FatalError>> /\ Errors' = Errors + Mismatch
    BY <1>4 DEF EndOfFile
  <2>4. Errors' = Errors \/ Errors' = Errors + 1
    BY <1>0, <2>1, <2>3
  <2> QED BY <2>2, <2>3, <2>4, CloseMoves, CountsOne
<1>5. CASE IfDef \/ Else \/ Endif \/ Unknown
  <2>1. stack # <<>> /\ phase = "lines" /\ UNCHANGED <<source, phase, Pass, FatalError, records>>
    BY <1>5 DEF IfDef, Else, Endif, Unknown, At, Reading, Kept
  <2>2. PICK e \in {0, 1} : Next1(e)
    BY <1>5 DEF IfDef, Else, Endif, Unknown
  <2>3. Moves /\ Errors' = Errors + e
    BY <2>1, <2>2, Next1Is
  <2>4. Errors' = Errors \/ Errors' = Errors + 1
    BY <1>0, <2>3
  <2> QED BY <2>1, <2>3, <2>4, CountsOne
<1>6. CASE Skip \/ Error \/ Define \/ Undef
  <2>1. /\ stack # <<>> /\ phase = "lines" /\ UNCHANGED <<source, phase, Pass, FatalError, records>>
        /\ NextLine(FALSE)
    BY <1>6 DEF Skip, Error, Define, Undef, At, Reading, Kept
  <2>2. Errors' = Errors \/ Errors' = Errors + 1
    BY <1>6 DEF Skip, Error, Define, Undef
  <2>3. Moves
    BY <2>1 DEF Moves
  <2> QED BY <2>1, <2>2, <2>3, CountsOne
<1>7. CASE Include
  <2>1. UNCHANGED <<source, phase, Pass>>
    BY <1>7 DEF Include
  <2>2. \/ Errors' = Errors /\ FatalError' = FatalError
        \/ Errors' = Errors + 1 /\ FatalError' = TRUE
    BY <1>7 DEF Include, Next1
  <2>3. CASE Errors' = Errors /\ FatalError' = FatalError
    BY <1>7, <2>1, <2>3, CountsOne DEF Moves
  <2>4. CASE Errors' = Errors + 1 /\ FatalError' = TRUE
    <3>1. FatalError' \in BOOLEAN /\ Errors' \in Nat /\ Errors' >= Errors /\ Errors' # 0
      BY <1>0, <2>4
    <3> QED BY <1>7, <2>1, <3>1 DEF Moves, Counts
  <2> QED BY <2>2, <2>3, <2>4
<1>8. CASE Text
  <2>1. stack # <<>> /\ phase = "lines" /\ NextLine(TRUE) /\ records' = records
    BY <1>8 DEF Text, At, Reading
  <2>2. UNCHANGED <<source, phase, Pass, Errors, FatalError>>
    BY <1>8 DEF Text
  <2> QED BY <2>1, <2>2, LineMoves, CountsOne
<1>9. CASE Label
  <2>1. stack # <<>> /\ phase = "lines" /\ UNCHANGED <<source, phase, Pass, FatalError>>
    BY <1>9 DEF Label, At, Reading
  <2>2. CASE Reject
    <3>1. Moves /\ Errors' = Errors + 1
      BY <2>1, <2>2, RejectIs
    <3> QED BY <2>1, <3>1, CountsOne
  <2>3. CASE ~Reject
    <3>1. NextLine(TRUE) /\ records' = records /\ (Errors' = Errors \/ Errors' = Errors + 1)
      BY <1>9, <2>3 DEF Label
    <3> QED BY <2>1, <3>1, LineMoves, CountsOne
  <2> QED BY <2>2, <2>3
<1>10. CASE Wrong
  <2>1. /\ stack # <<>> /\ phase = "lines" /\ UNCHANGED <<source, phase, Pass, FatalError>>
        /\ Reject
    BY <1>10 DEF Wrong, At, Reading
  <2>2. Moves /\ Errors' = Errors + 1
    BY <2>1, RejectIs
  <2> QED BY <2>1, <2>2, CountsOne
<1>11. CASE TooLong
  <2>1. stack # <<>> /\ phase = "lines" /\ Close(FALSE)
    BY <1>11 DEF TooLong, At, Reading
  <2>2. UNCHANGED <<source, phase, Pass, FatalError>> /\ Errors' = Errors + 1
    BY <1>11 DEF TooLong
  <2> QED BY <2>1, <2>2, CloseMoves, CountsOne
<1>12. CASE UNCHANGED vars
  BY <1>0, <1>12 DEF vars, Moves, Counts
<1> QED BY <1>1, <1>2, <1>3, <1>4, <1>5, <1>6, <1>7, <1>8, <1>9, <1>10, <1>11, <1>12
        DEF Next, Directive

\* Include opens a file, or only takes a record.
LEMMA IncludeIs ==
  ASSUME PreType, Include
  PROVE  /\ stack # <<>> /\ phase = "lines" /\ Cur.n \in Files \union {Absent}
         /\ TakeRecord(Cur.n)
         /\ \/ CanOpen(Cur.n) /\ Cur.n \in Files /\ stack' \in Seq(FrameRec) /\ Opens(Cur.n)
               /\ Errors' = Errors
            \/ ~CanOpen(Cur.n) /\ stack' \in Seq(FrameRec) /\ Goes(TRUE) /\ Errors' = Errors + 1
<1>1. stack # <<>> /\ phase = "lines" /\ Cur.n \in Files \union {Absent}
  BY CurType DEF Include, At
<1>2. CASE CanOpen(Cur.n)
  <2>1. Cur.n \in Files
    BY <1>1, <1>2 DEF CanOpen
  <2>2. /\ stack' = Append([stack EXCEPT ![OpenFiles].line = @ + 1], Frame(Cur.n))
        /\ TakeRecord(Cur.n) /\ Errors' = Errors
    BY <1>2 DEF Include
  <2>3. stack' \in Seq(FrameRec) /\ Opens(Cur.n)
    BY <1>1, <2>1, <2>2, IncludeOpens
  <2> QED BY <1>1, <1>2, <2>1, <2>2, <2>3
<1>3. CASE ~CanOpen(Cur.n)
  <2>1. NextLine(1 # 0) /\ TakeRecord(Cur.n) /\ Errors' = Errors + 1
    BY <1>3 DEF Include, Next1
  <2>2. NextLine(TRUE)
    <3>1. (1 # 0) = TRUE
      OBVIOUS
    <3> QED BY <2>1, <3>1
  <2>3. stack' \in Seq(FrameRec) /\ Goes(TRUE)
    BY <1>1, <2>2, NextLineGoes
  <2> QED BY <1>1, <1>3, <2>1, <2>3
<1> QED BY <1>2, <1>3

LEMMA MovesType ==
  ASSUME PreType, Moves
  PROVE  records' \in Seq(FileRec) /\ stack' \in Seq(FrameRec)
<1>1. CASE stack' = stack /\ records' = records
  BY <1>1 DEF PreType
<1>2. CASE OpenMain
  <2>1. TakeRecord(Main) /\ stack' = <<Frame(Main)>> /\ Main \in Files
    BY <1>2, PreAssumption DEF OpenMain
  <2>2. Frame(Main) \in FrameRec
    BY <2>1, FrameType
  <2>3. stack' \in Seq(FrameRec)
    BY <2>1, <2>2
  <2> QED BY <2>1, <2>3, TakesIs
<1>3. CASE stack # <<>> /\ phase = "lines" /\ records' = records /\ \E h \in BOOLEAN : NextLine(h)
  BY <1>3, NextLineGoes DEF PreType
<1>4. CASE stack # <<>> /\ phase = "lines" /\ \E h \in BOOLEAN : Close(h)
  <2>1. PICK h \in BOOLEAN : Close(h)
    BY <1>4
  <2>2. records' = [records EXCEPT ![Top.rec].inUse = FALSE]
    BY <2>1 DEF Close
  <2>3. Marks(Top.rec, FALSE)
    BY <2>2, MarkedIs
  <2> QED BY <1>4, <2>1, <2>3, CloseCloses DEF Marks
<1>5. CASE Include
  BY <1>5, IncludeIs, TakesIs
<1> QED BY <1>1, <1>2, <1>3, <1>4, <1>5 DEF Moves

LEMMA TypeNext == PreType /\ [Next]_vars => PreType'
<1> SUFFICES ASSUME PreType, [Next]_vars PROVE PreType'
  OBVIOUS
<1>1. Moves /\ Counts /\ CondStep
  BY StepIs, CondNext
<1>2. records' \in Seq(FileRec) /\ stack' \in Seq(FrameRec)
  BY <1>1, MovesType
<1>3. cc' \in Seq(CondRec)
  BY <1>1, CondType
<1>4. /\ source' \in [Files -> Seq(Line)] /\ Errors' \in Nat /\ FatalError' \in BOOLEAN
      /\ FatalError' => Errors' # 0
  BY <1>1 DEF Counts, PreType
<1>5. phase' \in {"open", "lines", "done"} /\ Pass' \in 1 .. 2
  BY <1>1 DEF Counts, PreType, OpenMain
<1>6. phase' # "lines" => stack' = <<>>
  <2>1. CASE phase' = phase
    <3>1. CASE phase = "lines"
      BY <2>1, <3>1
    <3>2. CASE phase # "lines"
      <4>1. stack = <<>>
        BY <3>2 DEF PreType
      <4>2. ~Include
        BY <3>2, IncludeIs
      <4>3. ~OpenMain
        BY <2>1, <3>2 DEF OpenMain
      <4> QED BY <1>1, <3>2, <4>1, <4>2, <4>3 DEF Moves
    <3> QED BY <3>1, <3>2
  <2>2. CASE OpenMain
    BY <2>2 DEF OpenMain
  <2>3. CASE EndPass
    BY <2>3 DEF EndPass
  <2> QED BY <1>1, <2>1, <2>2, <2>3 DEF Counts
<1> QED BY <1>2, <1>3, <1>4, <1>5, <1>6 DEF PreType

\* A line is assembled when every conditional around it selects it, however they
\* are nested and whichever file opened them (pasmpp.c:1029-1138).
THEOREM SelectedTogether == Spec => []SelectedByAll
<1>1. Init => PreType /\ SelectedByAll
  BY TypeInit DEF Init, SelectedByAll
<1>2. PreType /\ SelectedByAll /\ [Next]_vars => (PreType /\ SelectedByAll)'
  BY TypeNext, CondNext, SelectedStep
<1> QED BY <1>1, <1>2, PTL DEF Spec

-----------------------------------------------------------------------------
(* The records of the open files.                                          *)

\* Each open file has a record, and a record that is in use an open file, except
\* those of missing files; the first record is the main file's.
RecInv ==
  /\ OpenFiles <= MAX_OPEN
  /\ Len(records) >= 1 /\ records[1].file = Main
  /\ \A i \in 1 .. OpenFiles : /\ stack[i].rec \in 1 .. Len(records)
                               /\ records[stack[i].rec] = Marked(stack[i].file, TRUE)
  /\ \A i, j \in 1 .. OpenFiles : i # j => stack[i].rec # stack[j].rec
  /\ \A r \in 1 .. Len(records) : records[r].inUse /\ records[r].file # Absent =>
       \E i \in 1 .. OpenFiles : stack[i].rec = r

LEMMA RecInit == Init => RecInv
<1> SUFFICES ASSUME Init PROVE RecInv
  OBVIOUS
<1>1. records = <<Marked(Main, FALSE)>> /\ stack = <<>>
  BY DEF Init, Marked
<1>2. Len(records) = 1 /\ records[1] = Marked(Main, FALSE) /\ OpenFiles = 0
  BY <1>1 DEF OpenFiles
<1>3. records[1].file = Main /\ ~records[1].inUse
  BY <1>2 DEF Marked
<1>4. 0 <= MAX_OPEN
  BY PreAssumption
<1>5. (\A i \in 1 .. OpenFiles : FALSE) /\ (\A r \in 1 .. Len(records) : r = 1)
  BY <1>2
<1>6. \A r \in 1 .. Len(records) : ~records[r].inUse
  BY <1>3, <1>5
<1>7. OpenFiles <= MAX_OPEN /\ Len(records) >= 1
  BY <1>2, <1>4
<1> QED BY <1>3, <1>5, <1>6, <1>7 DEF RecInv

LEMMA MarkedHas == \A f : /\ Marked(f, TRUE).file = f /\ Marked(f, FALSE).file = f
                          /\ Marked(f, TRUE).inUse /\ ~Marked(f, FALSE).inUse
BY DEF Marked

\* The first k files stay as they are, but for their lines.
Same(k) == \A j \in 1 .. k : stack'[j].file = stack[j].file /\ stack'[j].rec = stack[j].rec

LEMMA GoHas ==
  \A f, h : /\ Go(f, h).file = f.file /\ Go(f, h).rec = f.rec
            /\ Go(f, h).line = f.line + 1
                         /\ Headed(f, h).file = f.file /\ Headed(f, h).rec = f.rec
                         /\ Headed(f, h).line = f.line
BY DEF Go, Headed

LEMMA GoesSame ==
  ASSUME PreType, stack # <<>>, NEW h, Goes(h)
  PROVE  Same(OpenFiles) /\ OpenFiles' = OpenFiles
BY GoHas DEF Goes, Same, Top, OpenFiles

LEMMA ClosesSame ==
  ASSUME PreType, stack # <<>>, NEW h, Closes(h)
  PROVE  Same(OpenFiles - 1) /\ OpenFiles' = OpenFiles - 1
BY GoHas DEF Closes, Same, OpenFiles

LEMMA OpensSame ==
  ASSUME PreType, stack # <<>>, NEW f, Opens(f)
  PROVE  /\ Same(OpenFiles) /\ OpenFiles' = OpenFiles + 1
         /\ stack'[OpenFiles + 1].file = f /\ stack'[OpenFiles + 1].rec = Record(f)
<1>1. Same(OpenFiles) /\ OpenFiles' = OpenFiles + 1
  BY GoHas DEF Opens, Same, Top, OpenFiles
<1>2. Frame(f).file = f /\ Frame(f).rec = Record(f)
  BY DEF Frame
<1> QED BY <1>1, <1>2 DEF Opens

\* The next line.
LEMMA RecGoes ==
  ASSUME PreType, RecInv, Same(OpenFiles), OpenFiles' = OpenFiles, records' = records
  PROVE  RecInv'
<1> DEFINE k == OpenFiles
<1>1. OpenFiles' = k /\ \A j \in 1 .. k : stack'[j].file = stack[j].file /\
      stack'[j].rec = stack[j].rec
  BY DEF Same
<1>2. /\ k <= MAX_OPEN /\ Len(records) >= 1 /\ records[1].file = Main
      /\ \A i \in 1 .. k : stack[i].rec \in 1 .. Len(records) /\
         records[stack[i].rec] = Marked(stack[i].file, TRUE)
      /\ \A i, j \in 1 .. k : i # j => stack[i].rec # stack[j].rec
      /\ \A r \in 1 .. Len(records) : records[r].inUse /\ records[r].file # Absent =>
         \E i \in 1 .. k : stack[i].rec = r
  BY DEF RecInv
<1> HIDE DEF k
<1>3. \A i \in 1 .. k : stack'[i].rec \in 1 .. Len(records') /\
                        records'[stack'[i].rec] = Marked(stack'[i].file, TRUE)
  BY <1>1, <1>2
<1>4. \A i, j \in 1 .. k : i # j => stack'[i].rec # stack'[j].rec
  BY <1>1, <1>2
<1>5. ASSUME NEW r \in 1 .. Len(records'), records'[r].inUse, records'[r].file # Absent
      PROVE  \E i \in 1 .. k : stack'[i].rec = r
  BY <1>1, <1>2, <1>5
<1> QED BY <1>1, <1>2, <1>3, <1>4, <1>5 DEF RecInv

\* A file is closed.
LEMMA RecCloses ==
  ASSUME PreType, RecInv, stack # <<>>, NEW h, Closes(h), Marks(Top.rec, FALSE)
  PROVE  RecInv'
<1> DEFINE k == OpenFiles
           n == Len(records)
<1>1. k \in Nat \ {0} /\ n \in Nat /\ MAX_OPEN \in Nat /\ k \in 1 .. k
  BY TopType, PreAssumption DEF PreType
<1>2. Same(k - 1) /\ OpenFiles' = k - 1 /\ Top = stack[k]
  BY ClosesSame DEF Top, OpenFiles
<1>3. /\ Len(records') = n
      /\ \A j \in 1 .. n :
           records'[j] = IF j = Top.rec THEN Marked(records[j].file, FALSE) ELSE records[j]
  BY DEF Marks
<1> HIDE DEF k, n
<1>4. ASSUME NEW j \in 1 .. n
      PROVE  /\ records'[j].file = records[j].file
             /\ records'[j].inUse => j # Top.rec /\ records'[j] = records[j]
  <2>1. CASE j = Top.rec
    <3>1. records'[j] = Marked(records[j].file, FALSE)
      BY <1>3, <2>1
    <3> QED BY <3>1, MarkedHas
  <2>2. CASE j # Top.rec
    BY <1>3, <2>2
  <2> QED BY <2>1, <2>2
<1>5. \A i \in 1 .. k - 1 : i \in 1 .. k /\ i # k
  BY <1>1
<1>6. ASSUME NEW i \in 1 .. k - 1
      PROVE  stack'[i].rec \in 1 .. n /\ records'[stack'[i].rec] = Marked(stack'[i].file, TRUE)
  <2>1. stack[i].rec # Top.rec /\ stack[i].rec \in 1 .. n /\
        records[stack[i].rec] = Marked(stack[i].file, TRUE)
    BY <1>1, <1>2, <1>5 DEF RecInv, k, n
  <2> QED BY <1>2, <1>3, <2>1 DEF Same
<1>7. ASSUME NEW i \in 1 .. k - 1, NEW j \in 1 .. k - 1, i # j PROVE stack'[i].rec # stack'[j].rec
  BY <1>2, <1>5, <1>7 DEF RecInv, Same, k
<1>8. ASSUME NEW r \in 1 .. n, records'[r].inUse, records'[r].file # Absent
      PROVE  \E i \in 1 .. k - 1 : stack'[i].rec = r
  <2>1. r # Top.rec /\ records[r].inUse /\ records[r].file # Absent
    BY <1>4, <1>8
  <2>2. PICK i \in 1 .. k : stack[i].rec = r
    BY <2>1 DEF RecInv, k, n
  <2>3. i \in 1 .. k - 1
    BY <1>1, <1>2, <2>1, <2>2
  <2> QED BY <1>2, <2>2, <2>3 DEF Same
<1>9. n >= 1 /\ records'[1].file = Main /\ k - 1 <= MAX_OPEN
  <2>1. n >= 1 /\ records[1].file = Main /\ k <= MAX_OPEN
    BY DEF RecInv, k, n
  <2> QED BY <1>1, <1>4, <2>1
<1> QED BY <1>2, <1>3, <1>6, <1>7, <1>8, <1>9 DEF RecInv

\* A record is taken: what the records are then.
Taken(f) ==
  /\ Len(records') \in Nat /\ Len(records') >= Len(records)
  /\ \A r \in 1 .. Len(records) : records'[r].file = records[r].file
  /\ \A r \in 1 .. Len(records) : r # Record(f) => records'[r] = records[r]
  /\ \A r \in 1 .. Len(records') : r # Record(f) => r \in 1 .. Len(records)
  /\ Record(f) \in 1 .. Len(records') /\ records'[Record(f)] = Marked(f, TRUE)
  /\ Record(f) \in 1 .. Len(records) => ~records[Record(f)].inUse

LEMMA TakenIs ==
  ASSUME PreType, NEW f \in Files \union {Absent}, TakeRecord(f)
  PROVE  (records' = records /\ ~CanOpen(f)) \/ (Taken(f) /\ Fits(f))
<1> DEFINE n == Len(records)
           q == Record(f)
<1>1. n \in Nat /\ q \in Nat \ {0} /\ Free(f) \subseteq 1 .. n
  BY TakesIs, FreeIs
<1>2. CASE q \in Free(f) /\ Marks(q, TRUE) /\ Fits(f)
  <2>1. q \in 1 .. n /\ records[q].file = f /\ ~records[q].inUse
    BY <1>1, <1>2 DEF Free
  <2>2. /\ Len(records') = n
        /\ \A j \in 1 .. n :
             records'[j] = IF j = q THEN Marked(records[j].file, TRUE) ELSE records[j]
    BY <1>2 DEF Marks
  <2> HIDE DEF n, q
  <2>3. records'[q] = Marked(f, TRUE) /\ \A j \in 1 .. n : j # q => records'[j] = records[j]
    <3>1. records'[q] = Marked(records[q].file, TRUE)
      BY <2>1, <2>2
    <3>2. ASSUME NEW j \in 1 .. n, j # q PROVE records'[j] = records[j]
      BY <2>2, <3>2
    <3> QED BY <2>1, <3>1, <3>2
  <2>4. n >= n
    BY <1>1
  <2>5. ASSUME NEW j \in 1 .. n PROVE records'[j].file = records[j].file
    <3>1. CASE j = q
      <4>1. records'[q].file = f
        BY <2>3, MarkedHas
      <4> QED BY <2>1, <3>1, <4>1
    <3>2. CASE j # q
      BY <2>3, <3>2
    <3> QED BY <3>1, <3>2
  <2> QED BY <1>1, <1>2, <2>1, <2>2, <2>3, <2>4, <2>5 DEF Taken, n, q
<1>3. CASE q = n + 1 /\ Adds(f) /\ Fits(f)
  <2>1. Len(records') = n + 1 /\ records'[n + 1] = Marked(f, TRUE) /\
        \A j \in 1 .. n : records'[j] = records[j]
    BY <1>3 DEF Adds
  <2> HIDE DEF n, q
  <2>2. n + 1 >= n /\ n + 1 \in 1 .. n + 1 /\ ~(n + 1 \in 1 .. n) /\
        \A r \in 1 .. n + 1 : r # n + 1 => r \in 1 .. n
    BY <1>1
  <2>3. n + 1 \in Nat
    BY <1>1
  <2> QED BY <1>3, <2>1, <2>2, <2>3 DEF Taken, n, q
<1>4. \/ records' = records /\ ~CanOpen(f)
      \/ q \in Free(f) /\ Marks(q, TRUE) /\ Fits(f)
      \/ q = n + 1 /\ Adds(f) /\ Fits(f)
  BY TakesIs
<1> QED BY <1>2, <1>3, <1>4

\* A file is opened.
LEMMA RecOpens ==
  ASSUME PreType, RecInv, NEW f \in Files, Taken(f), Fits(f), Same(OpenFiles),
         OpenFiles' = OpenFiles + 1,
         stack'[OpenFiles + 1].file = f, stack'[OpenFiles + 1].rec = Record(f)
  PROVE  RecInv'
<1> DEFINE k == OpenFiles
           n == Len(records)
           m == Len(records')
           q == Record(f)
<1>1. k \in Nat /\ n \in Nat /\ MAX_OPEN \in Nat
  BY PreAssumption DEF PreType, OpenFiles
<1>2. /\ m \in Nat /\ m >= n
      /\ \A r \in 1 .. n : records'[r].file = records[r].file
      /\ \A r \in 1 .. n : r # q => records'[r] = records[r]
      /\ \A r \in 1 .. m : r # q => r \in 1 .. n
      /\ q \in 1 .. m /\ records'[q] = Marked(f, TRUE)
      /\ q \in 1 .. n => ~records[q].inUse
  BY DEF Taken
<1>3. /\ k <= MAX_OPEN /\ n >= 1 /\ records[1].file = Main
      /\ \A i \in 1 .. k : stack[i].rec \in 1 .. n /\
         records[stack[i].rec] = Marked(stack[i].file, TRUE)
      /\ \A i, j \in 1 .. k : i # j => stack[i].rec # stack[j].rec
      /\ \A r \in 1 .. n : records[r].inUse /\ records[r].file # Absent =>
         \E i \in 1 .. k : stack[i].rec = r
  BY DEF RecInv
<1>4. k # MAX_OPEN /\ OpenFiles' = k + 1 /\ stack'[k + 1].file = f /\ stack'[k + 1].rec = q
  BY DEF Fits
<1>5. \A j \in 1 .. k : stack'[j].file = stack[j].file /\ stack'[j].rec = stack[j].rec
  BY DEF Same
<1> HIDE DEF k, n, m, q
<1>6. \A i \in 1 .. k : stack[i].rec # q
  <2> SUFFICES ASSUME NEW i \in 1 .. k, stack[i].rec = q PROVE FALSE
    OBVIOUS
  <2>1. q \in 1 .. n /\ records[q] = Marked(stack[i].file, TRUE)
    BY <1>3
  <2>2. records[q].inUse
    BY <2>1, MarkedHas
  <2> QED BY <1>2, <2>1, <2>2
<1>7. \A i \in 1 .. k + 1 : i \in 1 .. k \/ i = k + 1
  BY <1>1
<1>8. \A i \in 1 .. k : i \in 1 .. k + 1 /\ i # k + 1
  BY <1>1
<1>9. ASSUME NEW i \in 1 .. k + 1
      PROVE  stack'[i].rec \in 1 .. m /\ records'[stack'[i].rec] = Marked(stack'[i].file, TRUE)
  <2>1. CASE i = k + 1
    BY <1>2, <1>4, <2>1
  <2>2. CASE i \in 1 .. k
    <3>1. stack[i].rec \in 1 .. n /\ records'[stack[i].rec] = Marked(stack[i].file, TRUE)
      BY <1>2, <1>3, <1>6, <2>2
    <3>2. stack[i].rec \in 1 .. m
      BY <1>1, <1>2, <3>1
    <3> QED BY <1>5, <2>2, <3>1, <3>2
  <2> QED BY <1>7, <2>1, <2>2
<1>10. ASSUME NEW i \in 1 .. k + 1, NEW j \in 1 .. k + 1, i # j PROVE stack'[i].rec # stack'[j].rec
  <2>1. CASE i \in 1 .. k /\ j \in 1 .. k
    BY <1>3, <1>5, <1>10, <2>1
  <2>2. CASE i \in 1 .. k /\ j = k + 1
    BY <1>4, <1>5, <1>6, <2>2
  <2>3. CASE i = k + 1 /\ j \in 1 .. k
    BY <1>4, <1>5, <1>6, <2>3
  <2> QED BY <1>7, <1>10, <2>1, <2>2, <2>3
<1>11. ASSUME NEW r \in 1 .. m, records'[r].inUse, records'[r].file # Absent
       PROVE  \E i \in 1 .. k + 1 : stack'[i].rec = r
  <2>1. CASE r = q
    <3>1. k + 1 \in 1 .. k + 1
      BY <1>1
    <3> QED BY <1>4, <2>1, <3>1
  <2>2. CASE r # q
    <3>1. r \in 1 .. n /\ records'[r] = records[r]
      BY <1>2, <2>2
    <3>2. PICK i \in 1 .. k : stack[i].rec = r
      BY <1>3, <1>11, <3>1
    <3> QED BY <1>5, <1>8, <3>2
  <2> QED BY <2>1, <2>2
<1>12. m >= 1 /\ records'[1].file = Main /\ k + 1 <= MAX_OPEN
  <2>1. 1 \in 1 .. n /\ m >= 1 /\ k + 1 <= MAX_OPEN
    BY <1>1, <1>2, <1>3, <1>4
  <2> QED BY <1>2, <1>3, <2>1
<1> QED BY <1>4, <1>9, <1>10, <1>11, <1>12 DEF RecInv, m

\* A missing file keeps its record.
LEMMA RecMisses ==
  ASSUME PreType, RecInv, Taken(Absent), Same(OpenFiles), OpenFiles' = OpenFiles
  PROVE  RecInv'
<1> DEFINE k == OpenFiles
           n == Len(records)
           m == Len(records')
           q == Record(Absent)
<1>1. k \in Nat /\ n \in Nat /\ Absent \notin Files
  BY PreAssumption DEF PreType, OpenFiles
<1>0. \A i \in 1 .. k : stack[i].file \in Files
  BY TopType DEF FrameRec, PreType, OpenFiles
<1>2. /\ m \in Nat /\ m >= n
      /\ \A r \in 1 .. n : records'[r].file = records[r].file
      /\ \A r \in 1 .. n : r # q => records'[r] = records[r]
      /\ \A r \in 1 .. m : r # q => r \in 1 .. n
      /\ q \in 1 .. m /\ records'[q] = Marked(Absent, TRUE)
      /\ q \in 1 .. n => ~records[q].inUse
  BY DEF Taken
<1>3. /\ k <= MAX_OPEN /\ n >= 1 /\ records[1].file = Main
      /\ \A i \in 1 .. k : stack[i].rec \in 1 .. n /\
         records[stack[i].rec] = Marked(stack[i].file, TRUE)
      /\ \A i, j \in 1 .. k : i # j => stack[i].rec # stack[j].rec
      /\ \A r \in 1 .. n : records[r].inUse /\ records[r].file # Absent =>
         \E i \in 1 .. k : stack[i].rec = r
  BY DEF RecInv
<1>5. OpenFiles' = k /\ \A j \in 1 .. k : stack'[j].file = stack[j].file /\
      stack'[j].rec = stack[j].rec
  BY DEF Same
<1> HIDE DEF k, n, m, q
<1>6. \A i \in 1 .. k : stack[i].rec # q
  <2> SUFFICES ASSUME NEW i \in 1 .. k, stack[i].rec = q PROVE FALSE
    OBVIOUS
  <2>1. q \in 1 .. n /\ records[q] = Marked(stack[i].file, TRUE)
    BY <1>3
  <2>2. records[q].inUse
    BY <2>1, MarkedHas
  <2> QED BY <1>2, <2>1, <2>2
<1>9. ASSUME NEW i \in 1 .. k
      PROVE  stack'[i].rec \in 1 .. m /\ records'[stack'[i].rec] = Marked(stack'[i].file, TRUE)
  <2>1. stack[i].rec \in 1 .. n /\ records'[stack[i].rec] = Marked(stack[i].file, TRUE)
    BY <1>2, <1>3, <1>6
  <2>2. stack[i].rec \in 1 .. m
    BY <1>1, <1>2, <2>1
  <2> QED BY <1>5, <2>1, <2>2
<1>10. ASSUME NEW i \in 1 .. k, NEW j \in 1 .. k, i # j PROVE stack'[i].rec # stack'[j].rec
  BY <1>3, <1>5, <1>10
<1>11. ASSUME NEW r \in 1 .. m, records'[r].inUse, records'[r].file # Absent
       PROVE  \E i \in 1 .. k : stack'[i].rec = r
  <2>1. r # q
    <3>1. records'[q].file = Absent
      BY <1>2, MarkedHas
    <3> QED BY <1>11, <3>1
  <2>2. r \in 1 .. n /\ records'[r] = records[r]
    BY <1>2, <2>1
  <2> QED BY <1>3, <1>5, <1>11, <2>2
<1>12. m >= 1 /\ records'[1].file = Main
  <2>1. 1 \in 1 .. n /\ m >= 1
    BY <1>1, <1>2, <1>3
  <2> QED BY <1>2, <1>3, <2>1
<1> QED BY <1>3, <1>5, <1>9, <1>10, <1>11, <1>12 DEF RecInv, m

\* The main file always has a free record.
LEMMA MainOpens ==
  ASSUME PreType, RecInv, OpenMain
  PROVE  CanOpen(Main) /\ Record(Main) <= Len(records)
<1>1. stack = <<>>
  BY DEF OpenMain, PreType
<1>2. OpenFiles = 0 /\ MAX_OPEN \in Nat \ {0} /\ SOURCEFILE_MAX \in Nat \ {0} /\ Main # Absent
  BY <1>1, PreAssumption DEF OpenFiles
<1>3. Len(records) \in Nat /\ Len(records) >= 1 /\ DOMAIN records = 1 .. Len(records) /\
      1 \in 1 .. Len(records)
  BY DEF RecInv, PreType
<1>4. ~records[1].inUse
  BY <1>2, <1>3 DEF RecInv
<1>5. 1 \in Free(Main)
  BY <1>3, <1>4 DEF Free, RecInv
<1>6. Record(Main) <= 1 /\ Record(Main) \in 1 .. Len(records)
  BY <1>5, FreeIs
<1> QED BY <1>2, <1>3, <1>6 DEF CanOpen

LEMMA RecNext == PreType /\ RecInv /\ [Next]_vars => RecInv'
<1> SUFFICES ASSUME PreType, RecInv, [Next]_vars PROVE RecInv'
  OBVIOUS
<1>0. Moves
  BY StepIs
<1>1. CASE stack' = stack /\ records' = records
  BY <1>1 DEF RecInv, OpenFiles
<1>2. CASE OpenMain
  <2>1. TakeRecord(Main) /\ stack' = <<Frame(Main)>> /\ stack = <<>> /\ Main \in Files
    BY <1>2, PreAssumption DEF OpenMain, PreType
  <2>2. Taken(Main) /\ Fits(Main)
    BY <1>2, <2>1, MainOpens, TakenIs
  <2>3. OpenFiles = 0 /\ OpenFiles' = 1 /\ stack'[1] = Frame(Main)
    BY <2>1 DEF OpenFiles
  <2>4. Frame(Main).file = Main /\ Frame(Main).rec = Record(Main)
    BY DEF Frame
  <2>5. Same(OpenFiles) /\ OpenFiles' = OpenFiles + 1 /\ OpenFiles + 1 = 1
    BY <2>3 DEF Same
  <2> QED BY <2>1, <2>2, <2>3, <2>4, <2>5, RecOpens
<1>3. CASE stack # <<>> /\ phase = "lines" /\ records' = records /\ \E h \in BOOLEAN : NextLine(h)
  BY <1>3, NextLineGoes, GoesSame, RecGoes
<1>4. CASE stack # <<>> /\ phase = "lines" /\ \E h \in BOOLEAN : Close(h)
  <2>1. PICK h \in BOOLEAN : Close(h)
    BY <1>4
  <2>2. records' = [records EXCEPT ![Top.rec].inUse = FALSE]
    BY <2>1 DEF Close
  <2>3. Marks(Top.rec, FALSE) /\ Closes(h /\ Pass = 2)
    BY <1>4, <2>1, <2>2, MarkedIs, CloseCloses
  <2> QED BY <1>4, <2>3, RecCloses
<1>5. CASE Include
  <2>1. stack # <<>> /\ TakeRecord(Cur.n) /\ Cur.n \in Files \union {Absent}
    BY <1>5, IncludeIs
  <2>2. CASE CanOpen(Cur.n)
    <3>1. Cur.n \in Files /\ Opens(Cur.n)
      BY <1>5, <2>2, IncludeIs
    <3>2. Taken(Cur.n) /\ Fits(Cur.n)
      BY <2>1, <2>2, TakenIs
    <3> QED BY <2>1, <3>1, <3>2, OpensSame, RecOpens
  <2>3. CASE ~CanOpen(Cur.n)
    <3>1. Goes(TRUE)
      BY <1>5, <2>3, IncludeIs
    <3>2. Same(OpenFiles) /\ OpenFiles' = OpenFiles
      BY <2>1, <3>1, GoesSame
    <3>3. CASE records' = records
      BY <3>2, <3>3, RecGoes
    <3>4. CASE Taken(Cur.n) /\ Fits(Cur.n)
      <4>1. OpenFiles \in Nat /\ MAX_OPEN \in Nat /\ OpenFiles <= MAX_OPEN
        BY PreAssumption DEF RecInv, PreType, OpenFiles
      <4>2. Cur.n = Absent
        BY <2>3, <3>4, <4>1 DEF Fits, CanOpen
      <4> QED BY <3>2, <3>4, <4>2, RecMisses
    <3> QED BY <2>1, <3>3, <3>4, TakenIs
  <2> QED BY <2>2, <2>3
<1> QED BY <1>0, <1>1, <1>2, <1>3, <1>4, <1>5 DEF Moves

-----------------------------------------------------------------------------
(* The second pass: without errors it does what the first did.             *)

\* The open files, without their records.
Frames(st) == [j \in DOMAIN st |-> [file |-> st[j].file, line |-> st[j].line]]

Seen(eq, conds, frames, words) ==
  [equates |-> eq, cc |-> conds, frames |-> frames, words |-> words]

\* What both passes have in common: all but the labels and the records.
View == Seen(equates, cc, Frames(stack), out[Pass])

Given == [n \in CommandLine |-> Num]
Start == Seen(Given, <<>>, [j \in 1 .. 1 |-> [file |-> Main, line |-> 1]], <<>>)

\* The line that is read, and whether the conditionals around it select it.
Inner(v) == v.frames[Len(v.frames)]
CurIn(src, v) == src[Inner(v).file][Inner(v).line]
OverIn(src, v) == Inner(v).line > Len(src[Inner(v).file])
LiveIn(v) == v.cc # <<>> => Last(v.cc).true

\* The innermost file goes on, includes another, or ends.
Moved(fs) ==
  [j \in 1 .. Len(fs) |->
     IF j = Len(fs) THEN [file |-> fs[j].file, line |-> fs[j].line + 1] ELSE fs[j]]
Deeper(fs, f) ==
  [j \in 1 .. Len(fs) + 1 |-> IF j = Len(fs) + 1 THEN [file |-> f, line |-> 1] ELSE Moved(fs)[j]]
Shallower(fs) == [j \in 1 .. Len(fs) - 1 |-> fs[j]]

OwnIn(l, v) == (l.n \in DOMAIN v.equates) <=> (l.op = "ifdef")
CondsIn(l, v) ==
  IF l.op \in {"ifdef", "ifndef"}
  THEN Append(v.cc, [true |-> LiveIn(v) /\ OwnIn(l, v), else |-> FALSE, own |-> OwnIn(l, v),
                     by |-> Len(v.frames)])
  ELSE IF l.op = "else"
  THEN [v.cc EXCEPT ![Len(v.cc)] =
          [true |-> ~v.cc[Len(v.cc)].true /\ \A i \in 1 .. Len(v.cc) - 1 : v.cc[i].true,
           else |-> TRUE, own |-> ~v.cc[Len(v.cc)].own, by |-> v.cc[Len(v.cc)].by]]
  ELSE Front(v.cc)
EquatesIn(l, v) ==
  IF l.op = "define"
  THEN [n \in DOMAIN v.equates \union {l.n} |-> IF n = l.n THEN l.data ELSE v.equates[n]]
  ELSE IF l.op = "undef" THEN [n \in DOMAIN v.equates \ {l.n} |-> v.equates[n]]
  ELSE v.equates
WordsIn(l, v) ==
  IF l.op \in {"text", "label"} THEN Append(v.words, ExpandBy(v.equates, l.n)) ELSE v.words

\* The one step that is possible without an error.
Forward(src, v) ==
  IF OverIn(src, v) THEN Seen(v.equates, v.cc, Shallower(v.frames), v.words)
  ELSE IF CurIn(src, v).op \in Conditional
  THEN Seen(v.equates, CondsIn(CurIn(src, v), v), Moved(v.frames), v.words)
  ELSE IF ~LiveIn(v) THEN Seen(v.equates, v.cc, Moved(v.frames), v.words)
  ELSE IF CurIn(src, v).op = "include"
  THEN Seen(v.equates, v.cc, Deeper(v.frames, CurIn(src, v).n), v.words)
  ELSE Seen(EquatesIn(CurIn(src, v), v), v.cc, Moved(v.frames), WordsIn(CurIn(src, v), v))

\* s begins u.
Starts(s, u) ==
  /\ Len(s) \in Nat /\ Len(u) \in Nat /\ Len(s) <= Len(u)
  /\ \A i \in 1 .. Len(s) : s[i] = u[i]

\* The files are seen one by one.
LEMMA FramesAre ==
  ASSUME NEW st \in Seq(FrameRec)
  PROVE  /\ DOMAIN Frames(st) = 1 .. Len(st) /\ Len(Frames(st)) = Len(st) /\ Len(st) \in Nat
         /\ Frames(st) = <<>> <=> st = <<>>
         /\ \A j \in 1 .. Len(st) : Frames(st)[j] = [file |-> st[j].file, line |-> st[j].line]
         /\ \A j \in 1 .. Len(st) : Frames(st)[j].file = st[j].file /\
            Frames(st)[j].line = st[j].line
<1> DEFINE f == Frames(st)
           S == [file : Files, line : Nat \ {0}]
<1>1. DOMAIN st = 1 .. Len(st) /\ Len(st) \in Nat /\ \A j \in 1 .. Len(st) : st[j] \in FrameRec
  OBVIOUS
<1>2. /\ DOMAIN f = 1 .. Len(st)
      /\ \A j \in 1 .. Len(st) : f[j] = [file |-> st[j].file, line |-> st[j].line]
  BY <1>1 DEF Frames
<1>3. f \in [1 .. Len(st) -> S]
  <2>1. \A d \in FrameRec : [file |-> d.file, line |-> d.line] \in S
    BY DEF FrameRec
  <2>2. f = [j \in 1 .. Len(st) |-> [file |-> st[j].file, line |-> st[j].line]]
    BY <1>1 DEF Frames
  <2> HIDE DEF S, f
  <2> QED BY <1>1, <2>1, <2>2
<1> DEFINE n == Len(st)
<1> HIDE DEF f, S, n
<1>4. f \in Seq(S) /\ Len(f) = n
  <2>1. n \in Nat /\ f \in [1 .. n -> S]
    BY <1>1, <1>3 DEF n
  <2> QED BY <2>1
<1>5. f = <<>> <=> st = <<>>
  BY <1>1, <1>4 DEF n
<1>6. ASSUME NEW j \in 1 .. Len(st) PROVE f[j].file = st[j].file /\ f[j].line = st[j].line
  <2>1. \A a, b : [file |-> a, line |-> b].file = a /\ [file |-> a, line |-> b].line = b
    OBVIOUS
  <2> QED BY <1>2, <2>1
<1> QED BY <1>1, <1>2, <1>4, <1>5, <1>6 DEF f, n

\* The view shows the state.
LEMMA SeenIs ==
  ASSUME PreType
  PROVE  /\ View.equates = equates /\ View.cc = cc /\ View.frames = Frames(stack)
         /\ View.words = out[Pass]
         /\ View.frames = <<>> <=> stack = <<>>
         /\ Len(View.frames) = OpenFiles
         /\ stack # <<>> => /\ Inner(View).file = Top.file /\ Inner(View).line = Top.line
                            /\ CurIn(source, View) = Cur
                            /\ OverIn(source, View) <=> ~HasLine
         /\ LiveIn(View) <=> Live
<1>1. /\ View.equates = equates /\ View.cc = cc /\ View.frames = Frames(stack)
      /\ View.words = out[Pass]
  BY DEF View, Seen
<1>2. stack \in Seq(FrameRec)
  BY DEF PreType
<1>3. (View.frames = <<>> <=> stack = <<>>) /\ Len(View.frames) = OpenFiles
  BY <1>1, <1>2, FramesAre DEF OpenFiles
<1>4. ASSUME stack # <<>>
      PROVE  /\ Inner(View).file = Top.file /\ Inner(View).line = Top.line
             /\ CurIn(source, View) = Cur
             /\ OverIn(source, View) <=> ~HasLine
  <2>1. Len(stack) \in 1 .. Len(stack) /\ Top \in FrameRec
    BY <1>2, <1>4, TopType DEF OpenFiles
  <2>2. Inner(View).file = Top.file /\ Inner(View).line = Top.line
    BY <1>1, <1>2, <1>3, <2>1, FramesAre DEF Top, Inner, OpenFiles
  <2>3. Top.line \in Nat /\ Len(source[Top.file]) \in Nat
    BY <2>1 DEF FrameRec, PreType
  <2> QED BY <2>2, <2>3 DEF CurIn, Cur, OverIn, HasLine
<1>5. LiveIn(View) <=> Live
  BY <1>1 DEF LiveIn, Live
<1> QED BY <1>1, <1>3, <1>4, <1>5

\* The three ways the stack changes, as they are seen.
LEMMA GoesSeen ==
  ASSUME PreType, stack # <<>>, stack' \in Seq(FrameRec), NEW h, Goes(h)
  PROVE  Frames(stack') = Moved(Frames(stack))
<1> DEFINE k == Len(stack)
<1>1. stack \in Seq(FrameRec) /\ k \in Nat /\ k \in 1 .. k
  BY TopType DEF PreType, OpenFiles
<1>2. /\ Len(Frames(stack)) = k /\ DOMAIN stack' = 1 .. k
      /\ \A j \in 1 .. k : Frames(stack)[j] = [file |-> stack[j].file, line |-> stack[j].line]
      /\ \A j \in 1 .. k : Frames(stack)[j].file = stack[j].file /\
         Frames(stack)[j].line = stack[j].line
  BY <1>1, FramesAre DEF Goes, OpenFiles
<1>3. /\ stack'[k].file = stack[k].file /\ stack'[k].line = stack[k].line + 1
      /\ \A j \in 1 .. k : j # k => stack'[j] = stack[j]
  BY GoHas DEF Goes, OpenFiles, Top
<1> HIDE DEF k
<1>4. Frames(stack') = [j \in 1 .. k |-> [file |-> stack'[j].file, line |-> stack'[j].line]]
  BY <1>2 DEF Frames
<1>5. Moved(Frames(stack))
        = [j \in 1 .. k |-> IF j = k THEN [file |-> stack[j].file, line |-> stack[j].line + 1]
                            ELSE [file |-> stack[j].file, line |-> stack[j].line]]
  BY <1>2 DEF Moved
<1> QED BY <1>3, <1>4, <1>5

LEMMA ClosesSeen ==
  ASSUME PreType, stack # <<>>, stack' \in Seq(FrameRec), NEW h, Closes(h)
  PROVE  Frames(stack') = Shallower(Frames(stack))
<1> DEFINE k == Len(stack)
<1>1. stack \in Seq(FrameRec) /\ k \in Nat \ {0}
  BY TopType DEF PreType, OpenFiles
<1>2. /\ Len(Frames(stack)) = k /\ DOMAIN stack' = 1 .. k - 1
      /\ \A j \in 1 .. k : Frames(stack)[j] = [file |-> stack[j].file, line |-> stack[j].line]
  BY <1>1, FramesAre DEF Closes, OpenFiles
<1>3. \A j \in 1 .. k - 1 : stack'[j].file = stack[j].file /\ stack'[j].line = stack[j].line
  BY GoHas DEF Closes, OpenFiles
<1>4. \A j \in 1 .. k - 1 : j \in 1 .. k
  BY <1>1
<1> HIDE DEF k
<1>5. Frames(stack') = [j \in 1 .. k - 1 |-> [file |-> stack'[j].file, line |-> stack'[j].line]]
  BY <1>2 DEF Frames
<1>6. Shallower(Frames(stack))
        = [j \in 1 .. k - 1 |-> [file |-> stack[j].file, line |-> stack[j].line]]
  BY <1>2, <1>4 DEF Shallower
<1> QED BY <1>3, <1>5, <1>6

LEMMA OpensSeen ==
  ASSUME PreType, stack # <<>>, stack' \in Seq(FrameRec), NEW f, Opens(f)
  PROVE  Frames(stack') = Deeper(Frames(stack), f)
<1> DEFINE k == Len(stack)
<1>1. stack \in Seq(FrameRec) /\ k \in Nat /\ k \in 1 .. k
  BY TopType DEF PreType, OpenFiles
<1>2. /\ Len(Frames(stack)) = k /\ DOMAIN stack' = 1 .. k + 1
      /\ \A j \in 1 .. k : Frames(stack)[j] = [file |-> stack[j].file, line |-> stack[j].line]
      /\ \A j \in 1 .. k : Frames(stack)[j].file = stack[j].file /\
         Frames(stack)[j].line = stack[j].line
  BY <1>1, FramesAre DEF Opens, OpenFiles
<1>3. /\ stack'[k].file = stack[k].file /\ stack'[k].line = stack[k].line + 1
      /\ \A j \in 1 .. k : j # k => stack'[j] = stack[j]
      /\ stack'[k + 1].file = f /\ stack'[k + 1].line = 1
  <2>1. stack'[k + 1] = Frame(f)
    BY DEF Opens, OpenFiles
  <2>2. Frame(f).file = f /\ Frame(f).line = 1
    BY DEF Frame
  <2>3. stack'[k] = Go(Top, Top.head) /\ \A j \in 1 .. k : j # k => stack'[j] = stack[j]
    BY DEF Opens, OpenFiles
  <2> QED BY <2>1, <2>2, <2>3, GoHas DEF Top, OpenFiles
<1>4. \A j \in 1 .. k + 1 : j = k + 1 \/ j \in 1 .. k
  BY <1>1
<1> HIDE DEF k
<1>5. Frames(stack') = [j \in 1 .. k + 1 |-> [file |-> stack'[j].file, line |-> stack'[j].line]]
  BY <1>2 DEF Frames
<1>6. Moved(Frames(stack))
        = [j \in 1 .. k |-> IF j = k THEN [file |-> stack[j].file, line |-> stack[j].line + 1]
                            ELSE [file |-> stack[j].file, line |-> stack[j].line]]
  BY <1>2 DEF Moved
<1>7. Deeper(Frames(stack), f) = [j \in 1 .. k + 1 |-> IF j = k + 1 THEN [file |-> f, line |-> 1]
                                                       ELSE Moved(Frames(stack))[j]]
  BY <1>2 DEF Deeper
<1>8. \A j \in 1 .. k : Moved(Frames(stack))[j] = [file |-> stack'[j].file, line |-> stack'[j].line]
  BY <1>3, <1>6
<1> HIDE DEF Moved
<1>9. \A j \in 1 .. k + 1 :
        (IF j = k + 1 THEN [file |-> f, line |-> 1] ELSE Moved(Frames(stack))[j])
          = [file |-> stack'[j].file, line |-> stack'[j].line]
  BY <1>3, <1>4, <1>8
<1> QED BY <1>5, <1>7, <1>9

-----------------------------------------------------------------------------
(* What a step without an error shows.                                     *)

\* What the next state shows.
LEMMA ViewNext ==
  View' = Seen(equates', cc', Frames(stack'), out'[Pass'])
BY DEF View, Seen, Frames

\* A word more, or none.
LEMMA WordsGrow ==
  ASSUME OutType, Pass \in 1 .. 2
  PROVE  /\ Len(out[Pass]) \in Nat /\ Starts(out[Pass], out[Pass])
         /\ \A w : Starts(out[Pass], Append(out[Pass], w))
         /\ \A w : [out EXCEPT ![Pass] = Append(@, w)][Pass] = Append(out[Pass], w)
         /\ \A w, p : p \in 1 .. 2 /\ p # Pass => [out EXCEPT ![Pass] = Append(@, w)][p] = out[p]
<1>1. PICK S : out \in [1 .. 2 -> Seq(S)]
  BY DEF OutType
<1>2. out[Pass] \in Seq(S)
  BY <1>1
<1>3. Len(out[Pass]) \in Nat
  BY <1>2
<1>4. Starts(out[Pass], out[Pass])
  BY <1>3 DEF Starts
<1>5. ASSUME NEW w PROVE Starts(out[Pass], Append(out[Pass], w))
  <2> DEFINE s == out[Pass]
             T == S \union {w}
  <2>1. s \in Seq(T) /\ w \in T
    BY <1>2
  <2> HIDE DEF s, T
  <2>2. Len(s) \in Nat /\ Len(Append(s, w)) = Len(s) + 1 /\
        \A i \in 1 .. Len(s) : Append(s, w)[i] = s[i]
    BY <2>1
  <2>3. Starts(s, Append(s, w))
    BY <2>2 DEF Starts
  <2> QED BY <2>3 DEF s
<1>6. \A w : [out EXCEPT ![Pass] = Append(@, w)][Pass] = Append(out[Pass], w)
  BY <1>1
<1>7. \A w, p : p \in 1 .. 2 /\ p # Pass => [out EXCEPT ![Pass] = Append(@, w)][p] = out[p]
  BY <1>1
<1> QED BY <1>3, <1>4, <1>5, <1>6, <1>7

LEMMA OutInit == Init => OutType
BY TypeInit

LEMMA OutNext ==
  ASSUME PreType, OutType, [Next]_vars
  PROVE  OutType'
<1>1. PICK S : out \in [1 .. 2 -> Seq(S)]
  BY DEF OutType
<1>2. CASE out' = out
  <2>1. out' \in [1 .. 2 -> Seq(S)]
    BY <1>1, <1>2
  <2> QED BY <2>1 DEF OutType
<1>3. CASE Emit
  <2> DEFINE w == Expand(Cur.n)
             T == S \union {w}
  <2>1. out' = [out EXCEPT ![Pass] = Append(out[Pass], w)]
    BY <1>3 DEF Emit
  <2> HIDE DEF w
  <2>2. out \in [1 .. 2 -> Seq(T)] /\ w \in T
    BY <1>1
  <2> HIDE DEF T
  <2>3. Pass \in 1 .. 2 /\ out[Pass] \in Seq(T)
    BY <2>2 DEF PreType
  <2>4. Append(out[Pass], w) \in Seq(T)
    BY <2>2, <2>3
  <2>5. out' \in [1 .. 2 -> Seq(T)]
    BY <2>1, <2>2, <2>4
  <2> QED BY <2>5 DEF OutType
<1>4. out' = out \/ Emit
  <2>1. CASE UNCHANGED vars
    BY <2>1 DEF vars
  <2> QED BY <2>1 DEF Next, Directive, OpenMain, EndPass, Abort, EndOfFile, IfDef, Else, Endif,
             Skip,
                Unknown, Error, Define, Undef, Include, Text, Label, Wrong, TooLong, Kept
<1> QED BY <1>2, <1>3, <1>4

\* Without errors nothing is given up.
LEMMA NotGivenUp ==
  ASSUME PreType, Errors = 0
  PROVE  ~GivenUp
BY PreAssumption DEF PreType, GivenUp

\* A step within a pass.
InPass == phase = "lines" /\ phase' = "lines" /\ Pass' = Pass /\ source' = source

\* A step is seen, and takes no word back; the words of the other pass stay.
Shows ==
  /\ View' = Forward(source, View) /\ Starts(View.words, View'.words)
  /\ \A p \in 1 .. 2 : p # Pass => out'[p] = out[p]

\* Steps that add no word.
LEMMA SilentShows ==
  ASSUME PreType, OutType, InPass, out' = out,
         Seen(equates', cc', Frames(stack'), out[Pass]) = Forward(source, View)
  PROVE  Shows
<1>1. View' = Seen(equates', cc', Frames(stack'), out[Pass])
  BY ViewNext DEF InPass
<1>2. View'.words = out[Pass] /\ View.words = out[Pass]
  BY <1>1, SeenIs DEF Seen
<1>3. Starts(out[Pass], out[Pass])
  BY WordsGrow DEF PreType
<1> QED BY <1>1, <1>2, <1>3 DEF Shows

LEMMA EndOfFileShows ==
  ASSUME PreType, OutType, Errors = 0, Errors' = 0, EndOfFile
  PROVE  Shows /\ InPass
<1>1. stack # <<>> /\ ~HasLine /\ Close(FALSE) /\ UNCHANGED <<equates, cc, out>> /\ InPass
  BY DEF EndOfFile, Reading, InPass
<1>2. Frames(stack') = Shallower(Frames(stack))
  BY <1>1, CloseCloses, ClosesSeen
<1>3. Forward(source, View) = Seen(equates, cc, Shallower(Frames(stack)), out[Pass])
  BY <1>1, SeenIs DEF Forward
<1> QED BY <1>1, <1>2, <1>3, SilentShows

\* A line: where the next is read.
LEMMA LineSeen ==
  ASSUME PreType, Reading, HasLine, NEW h \in BOOLEAN, NextLine(h)
  PROVE  /\ Frames(stack') = Moved(View.frames)
         /\ ~OverIn(source, View) /\ CurIn(source, View) = Cur
         /\ View.equates = equates /\ View.cc = cc /\ View.frames = Frames(stack)
         /\ View.words = out[Pass] /\ Len(View.frames) = OpenFiles
         /\ LiveIn(View) <=> Live
<1>1. stack # <<>>
  BY DEF Reading
<1>2. Frames(stack') = Moved(Frames(stack))
  BY <1>1, NextLineGoes, GoesSeen
<1> QED BY <1>1, <1>2, SeenIs

LEMMA Next1Line ==
  ASSUME PreType, Errors = 0, Errors' = 0, NEW e \in {0, 1}, Next1(e)
  PROVE  NextLine(FALSE) /\ e = 0
<1>1. e = 0
  BY DEF Next1
<1>2. (e # 0) = FALSE
  BY <1>1
<1> QED BY <1>1, <1>2 DEF Next1

LEMMA CondShows ==
  ASSUME PreType, OutType, Errors = 0, Errors' = 0, IfDef \/ Else \/ Endif
  PROVE  Shows /\ InPass
<1>1. Reading /\ HasLine /\ Cur.op \in Conditional /\ UNCHANGED <<equates, out>> /\ InPass
  BY DEF IfDef, Else, Endif, Kept, Reading, InPass, Conditional
<1>2. PICK e \in {0, 1} : Next1(e)
  BY DEF IfDef, Else, Endif
<1>3. NextLine(FALSE)
  BY <1>2, Next1Line
<1>4. ~Next1(1)
  BY Next1Line
<1>5. cc' = CondsIn(Cur, View)
  <2>1. CASE IfDef
    <3>1. cc' = Push(OwnIn(Cur, View)) /\ Cur.op \in {"ifdef", "ifndef"}
      BY <1>1, <1>3, <1>4, <2>1, LineSeen DEF IfDef, OwnIn
    <3> QED BY <1>1, <1>3, <3>1, LineSeen DEF Push, CondsIn
  <2>2. CASE Else
    <3>1. Cur.op = "else" /\ cc # <<>> /\ cc' = [cc EXCEPT ![Len(cc)] = Turned]
      BY <1>4, <2>2 DEF Else, Turned
    <3>2. CondsIn(Cur, View) = [cc EXCEPT ![Len(cc)] = Turned]
      BY <1>1, <1>3, <3>1, LineSeen DEF CondsIn, Turned
    <3> QED BY <3>1, <3>2
  <2>3. CASE Endif
    <3>1. Cur.op = "endif" /\ cc' = Front(cc)
      BY <1>4, <2>3 DEF Endif
    <3> QED BY <1>1, <1>3, <3>1, LineSeen DEF CondsIn
  <2> QED BY <2>1, <2>2, <2>3
<1>6. Forward(source, View) = Seen(equates, CondsIn(Cur, View), Moved(View.frames), out[Pass])
  BY <1>1, <1>3, LineSeen DEF Forward
<1>7. Frames(stack') = Moved(View.frames)
  BY <1>1, <1>3, LineSeen
<1> QED BY <1>1, <1>5, <1>6, <1>7, SilentShows

LEMMA SkipShows ==
  ASSUME PreType, OutType, Skip
  PROVE  Shows /\ InPass
<1>1. /\ Reading /\ HasLine /\ Cur.op \notin Conditional /\ ~Live /\ UNCHANGED <<equates, cc, out>>
      /\ InPass /\ NextLine(FALSE)
  BY DEF Skip, Kept, Reading, InPass
<1>2. Forward(source, View) = Seen(equates, cc, Moved(View.frames), out[Pass])
  BY <1>1, LineSeen DEF Forward
<1>3. Frames(stack') = Moved(View.frames)
  BY <1>1, LineSeen
<1> QED BY <1>1, <1>2, <1>3, SilentShows

LEMMA DefineShows ==
  ASSUME PreType, OutType, Errors = 0, Errors' = 0, Define \/ Undef
  PROVE  Shows /\ InPass
<1>1. /\ Reading /\ HasLine /\ Cur.op \in {"define", "undef"} /\ Live /\ UNCHANGED <<cc, out>>
      /\ InPass /\ NextLine(FALSE)
  BY DEF Define, Undef, At, Kept, Reading, InPass
<1>2. Cur.op \notin Conditional /\ Cur.op # "include" /\ Cur.op \notin {"text", "label"}
  BY <1>1 DEF Conditional
<1>3. equates' = EquatesIn(Cur, View)
  <2>1. CASE Define
    <3>1. /\ Cur.op = "define"
          /\ equates' = [n \in DOMAIN equates \union {Cur.n} |->
                           IF n = Cur.n THEN Cur.data ELSE equates[n]]
      BY <2>1 DEF Define, At
    <3> QED BY <3>1, SeenIs DEF EquatesIn
  <2>2. CASE Undef
    <3>1. /\ Cur.op = "undef" /\ equates' = [n \in DOMAIN equates \ {Cur.n} |-> equates[n]]
      BY <2>2 DEF Undef, At
    <3> QED BY <3>1, SeenIs DEF EquatesIn
  <2> QED BY <2>1, <2>2
<1>4. Forward(source, View) = Seen(EquatesIn(Cur, View), cc, Moved(View.frames), out[Pass])
  BY <1>1, <1>2, LineSeen DEF Forward, WordsIn
<1>5. Frames(stack') = Moved(View.frames)
  BY <1>1, LineSeen
<1> QED BY <1>1, <1>3, <1>4, <1>5, SilentShows

LEMMA IncludeShows ==
  ASSUME PreType, OutType, Errors = 0, Errors' = 0, Include
  PROVE  Shows /\ InPass
<1>1. /\ Reading /\ HasLine /\ Cur.op = "include" /\ Live /\ UNCHANGED <<equates, cc, out>>
      /\ InPass
  BY DEF Include, At, Reading, InPass
<1>2. stack # <<>> /\ stack' \in Seq(FrameRec) /\ Opens(Cur.n)
  BY IncludeIs
<1>3. Cur.op \notin Conditional
  BY <1>1 DEF Conditional
<1>4. Frames(stack') = Deeper(Frames(stack), Cur.n)
  BY <1>2, OpensSeen
<1>5. Forward(source, View) = Seen(equates, cc, Deeper(Frames(stack), Cur.n), out[Pass])
  BY <1>1, <1>2, <1>3, SeenIs DEF Forward
<1> QED BY <1>1, <1>4, <1>5, SilentShows

LEMMA TextShows ==
  ASSUME PreType, OutType, Errors = 0, Errors' = 0, Text \/ Label
  PROVE  Shows /\ InPass
<1>1. /\ Reading /\ HasLine /\ Cur.op \in {"text", "label"} /\ Live /\ UNCHANGED <<equates, cc>>
      /\ InPass /\ Emit
  BY DEF Text, Label, At, Reading, InPass
<1>2. NextLine(TRUE)
  <2>1. CASE Text
    BY <2>1 DEF Text
  <2>2. CASE Label
    <3>1. ~Reject
      BY DEF Reject
    <3> QED BY <2>2, <3>1 DEF Label
  <2> QED BY <2>1, <2>2
<1>3. Cur.op \notin Conditional /\ Cur.op # "include" /\ Cur.op \notin {"define", "undef"}
  BY <1>1 DEF Conditional
<1>4. Pass \in 1 .. 2 /\ Pass' = Pass
  BY <1>1 DEF PreType, InPass
<1> DEFINE w == ExpandBy(equates, Cur.n)
<1>5. out' = [out EXCEPT ![Pass] = Append(@, w)]
  BY <1>1 DEF Emit, Expand
<1> HIDE DEF w
<1>6. out'[Pass'] = Append(out[Pass], w) /\ \A p \in 1 .. 2 : p # Pass => out'[p] = out[p]
  BY <1>4, <1>5, WordsGrow
<1>7. Forward(source, View) = Seen(equates, cc, Moved(View.frames), Append(out[Pass], w))
  BY <1>1, <1>2, <1>3, LineSeen DEF Forward, EquatesIn, WordsIn, w
<1>8. View' = Forward(source, View)
  BY <1>1, <1>2, <1>6, <1>7, LineSeen, ViewNext
<1>9. View'.words = Append(out[Pass], w) /\ View.words = out[Pass]
  BY <1>7, <1>8, SeenIs DEF Seen
<1>10. Starts(out[Pass], Append(out[Pass], w))
  BY <1>4, WordsGrow
<1> QED BY <1>1, <1>6, <1>8, <1>9, <1>10 DEF Shows

\* Every step of a pass without an error is the one the view tells.
LEMMA NoErrorShows ==
  ASSUME PreType, OutType, Errors = 0, Errors' = 0, Next, ~EndPass, ~OpenMain
  PROVE  Shows /\ InPass
<1>1. ~GivenUp
  BY NotGivenUp
<1>2. ~Abort
  BY <1>1 DEF Abort
<1>3. ~Unknown
  BY Next1Line DEF Unknown
<1>4. ~Error /\ ~TooLong /\ ~Wrong
  BY DEF Error, TooLong, Wrong, Reject
<1> QED BY <1>2, <1>3, <1>4, EndOfFileShows, CondShows, SkipShows, DefineShows, IncludeShows,
           TextShows
        DEF Next, Directive

-----------------------------------------------------------------------------
(* The steps of the first pass, which the second takes again.              *)

\* The states t[0] to t[n] of a pass without errors.
Run(src, t, n) ==
  /\ t[0] = Start
  /\ \A i \in 0 .. n - 1 : t[i + 1] = Forward(src, t[i])
  /\ \A i \in 0 .. n : Starts(t[i].words, t[n].words)

\* There is a record for each of the open files.
Housed(fs, recs) ==
  \E g \in [1 .. Len(fs) -> 1 .. Len(recs)] :
    /\ \A j \in 1 .. Len(fs) : recs[g[j]].file = fs[j].file
    /\ \A i, j \in 1 .. Len(fs) : i # j => g[i] # g[j]

Roomy(t, n, recs) == \A i \in 0 .. n : Housed(t[i].frames, recs)

\* The first pass has ended without an error.
Ended(t, n) == t[n].frames = <<>> /\ out[1] = t[n].words

\* The second pass is in a state the first was in; once the first has ended,
\* nothing can follow its last state.
Where(t, n) ==
  \/ phase = "open" /\ equates = Given /\ cc = <<>> /\ out[Pass] = <<>>
     /\ (Pass = 1 => n = 0) /\ (Pass = 2 => Ended(t, n))
  \/ phase = "lines" /\ Pass = 1 /\ View = t[n]
  \/ phase = "lines" /\ Pass = 2 /\ Ended(t, n) /\ \E k \in 0 .. n : View = t[k]
  \/ phase = "done" /\ Starts(out[2], out[1])

\* Without errors, both passes take the same steps.
SameInv ==
  /\ Pass = 1 => out[2] = <<>>
  /\ Errors = 0 => \E n \in Nat : \E t : Run(source, t, n) /\ Roomy(t, n, records) /\ Where(t, n)

\* A first file has a record.
LEMMA StartHoused ==
  ASSUME PreType, RecInv
  PROVE  Housed(Start.frames, records)
<1> DEFINE fs == [j \in 1 .. 1 |-> [file |-> Main, line |-> 1]]
<1>1. Start.frames = fs
  BY DEF Start, Seen
<1>2. Len(fs) = 1 /\ fs[1].file = Main
  OBVIOUS
<1>3. 1 \in 1 .. Len(records) /\ records[1].file = Main
  BY DEF PreType, RecInv
<1> DEFINE g == [j \in 1 .. 1 |-> 1]
<1>4. g \in [1 .. 1 -> 1 .. Len(records)] /\ g[1] = 1
  BY <1>3
<1>5. \A j \in 1 .. 1 : j = 1
  OBVIOUS
<1> HIDE DEF fs, g
<1>6. \A j \in 1 .. Len(fs) : records[g[j]].file = fs[j].file
  BY <1>2, <1>3, <1>4, <1>5
<1>7. \A i, j \in 1 .. Len(fs) : i # j => g[i] # g[j]
  BY <1>2, <1>5
<1> QED BY <1>1, <1>2, <1>4, <1>6, <1>7 DEF Housed

\* So has each of the files that are open.
LEMMA ViewHoused ==
  ASSUME NEW st \in Seq(FrameRec), NEW recs,
         \A i \in 1 .. Len(st) : st[i].rec \in 1 .. Len(recs) /\
                                 recs[st[i].rec] = Marked(st[i].file, TRUE),
         \A i, j \in 1 .. Len(st) : i # j => st[i].rec # st[j].rec
  PROVE  Housed(Frames(st), recs)
<1> DEFINE k == Len(st)
           g == [j \in 1 .. k |-> st[j].rec]
           fs == Frames(st)
<1>1. Len(fs) = k /\ \A j \in 1 .. k : fs[j].file = st[j].file
  BY FramesAre
<1>2. g \in [1 .. k -> 1 .. Len(recs)] /\ \A j \in 1 .. k : g[j] = st[j].rec
  OBVIOUS
<1>3. \A i, j \in 1 .. k : i # j => st[i].rec # st[j].rec
  OBVIOUS
<1> HIDE DEF fs, g
<1>4. ASSUME NEW j \in 1 .. k PROVE recs[g[j]].file = fs[j].file
  <2>1. recs[g[j]] = Marked(st[j].file, TRUE)
    BY <1>2
  <2>2. recs[g[j]].file = st[j].file
    BY <2>1, MarkedHas
  <2> QED BY <1>1, <2>2
<1> HIDE DEF k
<1>5. \A i, j \in 1 .. k : i # j => g[i] # g[j]
  BY <1>2, <1>3
<1> QED BY <1>1, <1>2, <1>4, <1>5 DEF Housed, fs

\* Records keep their files.
RecordsStay ==
  /\ Len(records) \in Nat /\ Len(records') \in Nat /\ Len(records) <= Len(records')
  /\ \A r \in 1 .. Len(records) : records'[r].file = records[r].file

LEMMA RecordsKeep ==
  ASSUME PreType, [Next]_vars
  PROVE  RecordsStay
<1>0. Len(records) \in Nat
  BY DEF PreType
<1>1. CASE records' = records
  BY <1>0, <1>1 DEF RecordsStay
<1>2. CASE stack # <<>> /\ \E h \in BOOLEAN : Close(h)
  <2>1. records' = [records EXCEPT ![Top.rec].inUse = FALSE]
    BY <1>2 DEF Close
  <2>2. /\ Len(records') = Len(records)
        /\ \A j \in 1 .. Len(records) :
             records'[j] = IF j = Top.rec THEN Marked(records[j].file, FALSE) ELSE records[j]
    BY <2>1, MarkedIs DEF Marks
  <2>3. ASSUME NEW j \in 1 .. Len(records) PROVE records'[j].file = records[j].file
    BY <2>2, MarkedHas
  <2> QED BY <1>0, <2>2, <2>3 DEF RecordsStay
<1>3. CASE \E f \in Files \union {Absent} : TakeRecord(f)
  <2>1. PICK f \in Files \union {Absent} : TakeRecord(f)
    BY <1>3
  <2>2. records' = records \/ Taken(f)
    BY <2>1, TakenIs
  <2> QED BY <1>0, <1>1, <2>2 DEF Taken, RecordsStay
<1>4. Moves
  BY StepIs
<1>5. CASE OpenMain
  BY <1>3, <1>5, PreAssumption DEF OpenMain
<1>6. CASE Include
  BY <1>3, <1>6, IncludeIs
<1> QED BY <1>1, <1>2, <1>4, <1>5, <1>6 DEF Moves

LEMMA HousedStays ==
  ASSUME RecordsStay, NEW fs, Housed(fs, records)
  PROVE  Housed(fs, records')
<1> DEFINE n == Len(records)
           m == Len(records')
<1>1. PICK g \in [1 .. Len(fs) -> 1 .. n] :
        /\ \A j \in 1 .. Len(fs) : records[g[j]].file = fs[j].file
        /\ \A i, j \in 1 .. Len(fs) : i # j => g[i] # g[j]
  BY DEF Housed
<1>2. n \in Nat /\ m \in Nat /\ n <= m /\ \A r \in 1 .. n : records'[r].file = records[r].file
  BY DEF RecordsStay
<1>3. 1 .. n \subseteq 1 .. m
  BY <1>2
<1> HIDE DEF n, m
<1>4. g \in [1 .. Len(fs) -> 1 .. m] /\ \A j \in 1 .. Len(fs) : g[j] \in 1 .. n
  BY <1>1, <1>3
<1>5. \A j \in 1 .. Len(fs) : records'[g[j]].file = fs[j].file
  BY <1>1, <1>2, <1>4
<1> QED BY <1>1, <1>4, <1>5 DEF Housed, m

LEMMA SameInit == Init => SameInv
<1> SUFFICES ASSUME Init PROVE SameInv
  OBVIOUS
<1>0. PreType /\ RecInv
  BY TypeInit, RecInit
<1> DEFINE t == [i \in {0} |-> Start]
<1>1. t[0] = Start
  OBVIOUS
<1> HIDE DEF t
<1>2. Start.words = <<>> /\ Starts(<<>>, <<>>)
  BY DEF Start, Seen, Starts
<1>3. Run(source, t, 0)
  BY <1>1, <1>2 DEF Run
<1>4. Roomy(t, 0, records)
  BY <1>0, <1>1, StartHoused DEF Roomy
<1>5. out[1] = <<>> /\ out[2] = <<>> /\ Pass = 1 /\ phase = "open" /\ cc = <<>>
  BY DEF Init
<1>6. equates = Given
  <2>1. CommandLine \ labels = CommandLine
    BY DEF Init
  <2> QED BY <2>1 DEF Init, Defined, Given
<1>7. Where(t, 0)
  BY <1>5, <1>6 DEF Where
<1>8. \E n \in Nat : \E u : Run(source, u, n) /\ Roomy(u, n, records) /\ Where(u, n)
  BY <1>3, <1>4, <1>7
<1> QED BY <1>5, <1>8 DEF SameInv

\* What begins a beginning is a beginning.
LEMMA Further ==
  ASSUME NEW s, NEW u, NEW w, Starts(s, u), Starts(u, w)
  PROVE  Starts(s, w)
BY DEF Starts

\* Nothing but the end of the pass is possible at its end.
LEMMA FinishedEnds ==
  ASSUME PreType, Next, stack = <<>>, phase = "lines"
  PROVE  EndPass
BY DEF Next, Directive, OpenMain, Abort, EndOfFile, IfDef, Else, Endif, Skip, Unknown, Error,
   Define,
       Undef, Include, Text, Label, Wrong, TooLong, At, Reading

\* The pass begins.
LEMMA OpenMainSame ==
  ASSUME PreType, RecInv, OutType, NEW n \in Nat, NEW t,
         Run(source, t, n), Roomy(t, n, records'), Where(t, n), OpenMain
  PROVE  Where(t, n)'
<1>1. /\ phase = "open" /\ phase' = "lines" /\ stack' = <<Frame(Main)>>
      /\ UNCHANGED <<source, Pass, equates, cc, out>> /\ Pass \in 1 .. 2
  BY DEF OpenMain, PreType
<1>2. equates = Given /\ cc = <<>> /\ out[Pass] = <<>> /\ (Pass = 1 => n = 0) /\
      (Pass = 2 => Ended(t, n))
  BY <1>1 DEF Where
<1>3. Frames(stack') = [j \in 1 .. 1 |-> [file |-> Main, line |-> 1]]
  <2>1. Frame(Main).file = Main /\ Frame(Main).line = 1
    BY DEF Frame
  <2>2. DOMAIN stack' = 1 .. 1 /\ stack'[1] = Frame(Main)
    BY <1>1
  <2>3. \A j \in 1 .. 1 : j = 1
    OBVIOUS
  <2> QED BY <2>1, <2>2, <2>3 DEF Frames
<1>4. View' = Start
  BY <1>1, <1>2, <1>3, ViewNext DEF Start
<1>5. View' = t[0] /\ 0 \in 0 .. n
  BY <1>4 DEF Run
<1>6. CASE Pass = 1
  BY <1>1, <1>2, <1>5, <1>6 DEF Where
<1>7. CASE Pass = 2
  <2>1. Ended(t, n)'
    BY <1>1, <1>2, <1>7 DEF Ended
  <2> QED BY <1>1, <1>5, <1>7, <2>1 DEF Where
<1> QED BY <1>1, <1>6, <1>7

\* The pass ends.
LEMMA EndPassSame ==
  ASSUME PreType, OutType, SameInv, Errors = 0, Errors' = 0, NEW n \in Nat, NEW t,
         Run(source, t, n), Where(t, n), EndPass
  PROVE  Where(t, n)'
<1>1. /\ phase = "lines" /\ stack = <<>> /\ cc' = <<>> /\ equates' = Defined /\ out' = out
      /\ labels' = labels /\ Pass \in 1 .. 2
  BY DEF EndPass, ppCleanup, PreType
<1>2. CASE Pass = 1
  <2>1. Pass' = 2 /\ phase' = "open" /\ Cardinality(CommandLine \intersect labels) = 0
    BY <1>2 DEF EndPass
  <2>2. CommandLine \intersect labels = {}
    <3>1. IsFiniteSet(CommandLine \intersect labels)
      BY PreAssumption, FS_Subset, Zenon
    <3> QED BY <2>1, <3>1, FS_EmptySet, Zenon
  <2>3. equates' = Given
    <3>1. CommandLine \ labels = CommandLine
      BY <2>2
    <3> QED BY <1>1, <3>1 DEF Defined, Given
  <2>4. View = t[n]
    BY <1>1, <1>2 DEF Where
  <2>5. t[n].frames = <<>> /\ out[1] = t[n].words
    BY <1>1, <1>2, <2>4, SeenIs
  <2>6. Ended(t, n)' /\ out'[Pass'] = <<>>
    BY <1>1, <1>2, <2>1, <2>5 DEF Ended, SameInv
  <2> QED BY <1>1, <2>1, <2>3, <2>6 DEF Where
<1>3. CASE Pass = 2
  <2>1. phase' = "done"
    BY <1>3 DEF EndPass
  <2>2. PICK k \in 0 .. n : View = t[k]
    BY <1>1, <1>3 DEF Where
  <2>3. out[1] = t[n].words /\ out[2] = t[k].words
    BY <1>1, <1>3, <2>2, SeenIs DEF Where, Ended
  <2>4. Starts(out[2], out[1])
    BY <2>3 DEF Run
  <2> QED BY <1>1, <2>1, <2>4 DEF Where
<1> QED BY <1>1, <1>2, <1>3

LEMMA SameNext ==
  ASSUME PreType, RecInv, OutType, SameInv, [Next]_vars, PreType', RecInv'
  PROVE  SameInv'
<1>1. Errors' \in Nat /\ Errors' >= Errors /\ Errors \in Nat
  BY StepIs DEF Counts, PreType
<1>2. Pass' = 1 => out'[2] = <<>>
  <2>1. CASE UNCHANGED vars
    BY <2>1 DEF vars, SameInv
  <2>2. CASE Next
    <3>1. (Pass' = Pass \/ Pass' = 2) /\ (out' = out \/ (Emit /\ Pass' = Pass))
      <4>1. CASE OpenMain \/ EndPass
        BY <4>1 DEF OpenMain, EndPass
      <4>2. CASE Directive
        BY <4>2 DEF Directive, IfDef, Else, Endif, Skip, Unknown, Error, Define, Undef, Include,
           Kept
      <4>3. CASE Abort \/ EndOfFile \/ Text \/ Label \/ Wrong \/ TooLong
        BY <4>3 DEF Abort, EndOfFile, Text, Label, Wrong, TooLong
      <4> QED BY <2>2, <4>1, <4>2, <4>3 DEF Next
    <3>2. CASE Emit /\ Pass' = Pass /\ Pass' = 1
      <4>1. out' = [out EXCEPT ![Pass] = Append(@, Expand(Cur.n))] /\ Pass = 1 /\ 2 \in 1 .. 2 /\
            Pass \in 1 .. 2
        BY <3>2 DEF Emit
      <4>2. out'[2] = out[2]
        BY <4>1, WordsGrow
      <4> QED BY <4>1, <4>2 DEF SameInv
    <3> QED BY <3>1, <3>2 DEF SameInv
  <2> QED BY <2>1, <2>2
<1>3. ASSUME Errors' = 0
      PROVE  \E n \in Nat : \E t : Run(source', t, n) /\ Roomy(t, n, records') /\ Where(t, n)'
  <2>0. source' = source
    BY StepIs DEF Counts
  <2>1. Errors = 0
    BY <1>1, <1>3
  <2>2. PICK n \in Nat : \E t : Run(source, t, n) /\ Roomy(t, n, records) /\ Where(t, n)
    BY <2>1 DEF SameInv
  <2>3. PICK t : Run(source, t, n) /\ Roomy(t, n, records) /\ Where(t, n)
    BY <2>2
  <2>4. Roomy(t, n, records')
    BY <2>3, RecordsKeep, HousedStays DEF Roomy
  <2>5. CASE UNCHANGED vars
    <3>1. Where(t, n)'
      <4>1. View' = View
        BY <2>5 DEF vars, View, Seen, Frames
      <4> QED BY <2>3, <2>5, <4>1 DEF vars, Where, Ended
    <3> QED BY <2>0, <2>3, <2>4, <3>1
  <2>6. CASE OpenMain
    BY <2>0, <2>3, <2>4, <2>6, OpenMainSame
  <2>7. CASE EndPass
    BY <1>3, <2>0, <2>1, <2>3, <2>4, <2>7, EndPassSame
  <2>8. CASE Next /\ ~EndPass /\ ~OpenMain
    <3>1. Shows /\ InPass /\ Pass \in 1 .. 2
      BY <1>3, <2>1, <2>8, NoErrorShows DEF PreType
    <3>2. CASE Pass = 1
      <4>1. View = t[n]
        BY <2>3, <3>1, <3>2 DEF Where, InPass
      <4>2. PICK u : u[n + 1] = View' /\ \A i \in 0 .. n : u[i] = t[i]
        <5> DEFINE w == [i \in 0 .. n + 1 |-> IF i = n + 1 THEN View' ELSE t[i]]
        <5>1. w[n + 1] = View' /\ \A i \in 0 .. n : w[i] = t[i]
          OBVIOUS
        <5> HIDE DEF w
        <5> QED BY <5>1
      <4>3. Starts(View'.words, View'.words)
        BY <3>1 DEF Shows, Starts
      <4>4. Run(source', u, n + 1)
        <5>1. u[0] = Start
          BY <2>3, <4>2 DEF Run
        <5>2. ASSUME NEW i \in 0 .. n PROVE u[i + 1] = Forward(source, u[i])
          <6>1. CASE i = n
            BY <3>1, <4>1, <4>2, <6>1 DEF Shows
          <6>2. CASE i # n
            <7>1. i \in 0 .. n - 1 /\ i + 1 \in 0 .. n
              BY <6>2
            <7> QED BY <2>3, <4>2, <7>1 DEF Run
          <6> QED BY <6>1, <6>2
        <5>3. ASSUME NEW i \in 0 .. n + 1 PROVE Starts(u[i].words, u[n + 1].words)
          <6>1. CASE i = n + 1
            BY <4>2, <4>3, <6>1
          <6>2. CASE i # n + 1
            <7>1. i \in 0 .. n /\ u[i] = t[i]
              BY <4>2, <6>2
            <7>2. Starts(u[i].words, t[n].words)
              BY <2>3, <7>1 DEF Run
            <7> QED BY <3>1, <4>1, <4>2, <7>2, Further DEF Shows
          <6> QED BY <6>1, <6>2
        <5>4. 0 .. (n + 1) - 1 = 0 .. n
          OBVIOUS
        <5> QED BY <2>0, <5>1, <5>2, <5>3, <5>4 DEF Run
      <4>5. Where(u, n + 1)'
        BY <3>1, <3>2, <4>2 DEF Where, InPass
      <4>6. Roomy(u, n + 1, records')
        <5>1. Housed(View'.frames, records')
          <6>1. /\ \A i \in 1 .. Len(stack') :
                     /\ stack'[i].rec \in 1 .. Len(records')
                     /\ records'[stack'[i].rec] = Marked(stack'[i].file, TRUE)
                /\ \A i, j \in 1 .. Len(stack') : i # j => stack'[i].rec # stack'[j].rec
            BY DEF RecInv, OpenFiles
          <6>2. stack' \in Seq(FrameRec)
            BY DEF PreType
          <6>3. Housed(Frames(stack'), records')
            BY <6>1, <6>2, ViewHoused
          <6> QED BY <6>3, ViewNext DEF Seen
        <5>2. ASSUME NEW i \in 0 .. n + 1 PROVE Housed(u[i].frames, records')
          <6>1. CASE i = n + 1
            BY <4>2, <5>1, <6>1
          <6>2. CASE i # n + 1
            <7>1. i \in 0 .. n
              BY <6>2
            <7> QED BY <2>4, <4>2, <7>1 DEF Roomy
          <6> QED BY <6>1, <6>2
        <5> QED BY <5>2 DEF Roomy
      <4> QED BY <4>4, <4>5, <4>6
    <3>3. CASE Pass = 2
      <4>1. Ended(t, n) /\ \E k \in 0 .. n : View = t[k]
        BY <2>3, <3>1, <3>3 DEF Where, InPass
      <4>2. PICK k \in 0 .. n : View = t[k]
        BY <4>1
      <4>3. k # n
        <5>1. ASSUME k = n PROVE FALSE
          <6>1. stack = <<>>
            BY <4>1, <4>2, <5>1, SeenIs DEF Ended
          <6> QED BY <2>8, <3>1, <6>1, FinishedEnds DEF InPass
        <5> QED BY <5>1
      <4>4. k \in 0 .. n - 1 /\ k + 1 \in 0 .. n
        BY <4>3
      <4>5. View' = t[k + 1]
        BY <2>3, <3>1, <4>2, <4>4 DEF Run, Shows
      <4>6. out'[1] = out[1]
        BY <3>1, <3>3 DEF Shows
      <4>7. Ended(t, n)'
        BY <4>1, <4>6 DEF Ended
      <4>8. Where(t, n)'
        BY <3>1, <3>3, <4>4, <4>5, <4>7 DEF Where, InPass
      <4> QED BY <2>0, <2>3, <2>4, <4>8
    <3> QED BY <3>1, <3>2, <3>3
  <2> QED BY <2>5, <2>6, <2>7, <2>8
<1> QED BY <1>2, <1>3 DEF SameInv

-----------------------------------------------------------------------------
(* The second pass finds its words and its records.                        *)

\* IsPrefix, word by word.
LEMMA StartsIsPrefix ==
  ASSUME NEW S, NEW s \in Seq(S), NEW u \in Seq(S), Starts(s, u)
  PROVE  IsPrefix(s, u)
<1>1. SubSeq(s, 1, Len(s)) = [i \in 1 .. Len(s) |-> s[i]]
  BY DEF Starts
<1>2. SubSeq(u, 1, Len(s)) = [i \in 1 .. Len(s) |-> u[i]]
  BY DEF Starts
<1> QED BY <1>1, <1>2 DEF Starts, IsPrefix

LEMMA SameIsText ==
  ASSUME PreType, OutType, SameInv
  PROVE  SameText
<1> SUFFICES ASSUME Errors = 0 PROVE IsPrefix(out[2], out[1])
  BY DEF SameText
<1>1. PICK n \in Nat : \E t : Run(source, t, n) /\ Roomy(t, n, records) /\ Where(t, n)
  BY DEF SameInv
<1>2. PICK t : Run(source, t, n) /\ Roomy(t, n, records) /\ Where(t, n)
  BY <1>1
<1>3. PICK S : out \in [1 .. 2 -> Seq(S)]
  BY DEF OutType
<1>4. out[1] \in Seq(S) /\ out[2] \in Seq(S) /\ Len(out[1]) \in Nat /\ Pass \in 1 .. 2
  BY <1>3 DEF PreType
<1>5. CASE out[2] = <<>>
  <2>1. Starts(out[2], out[1])
    BY <1>4, <1>5 DEF Starts
  <2> QED BY <1>4, <2>1, StartsIsPrefix
<1>6. CASE phase = "lines" /\ Pass = 2
  <2>1. PICK k \in 0 .. n : View = t[k]
    BY <1>2, <1>6 DEF Where
  <2>2. out[1] = t[n].words /\ out[2] = t[k].words
    BY <1>2, <1>6, <2>1, SeenIs DEF Where, Ended
  <2>3. Starts(out[2], out[1])
    BY <1>2, <2>2 DEF Run
  <2> QED BY <1>4, <2>3, StartsIsPrefix
<1>7. CASE phase = "done"
  <2>1. Starts(out[2], out[1])
    BY <1>2, <1>7 DEF Where
  <2> QED BY <1>4, <2>1, StartsIsPrefix
<1>8. CASE phase = "open" /\ Pass = 2
  BY <1>2, <1>5, <1>8 DEF Where
<1>9. CASE Pass = 1
  BY <1>5, <1>9 DEF SameInv
<1> QED BY <1>4, <1>6, <1>7, <1>8, <1>9 DEF PreType

\* The whole invariant.
PreInv == PreType /\ OutType /\ RecInv /\ SameInv

LEMMA PreInit == Init => PreInv
BY TypeInit, RecInit, SameInit DEF PreInv

LEMMA PreNext == PreInv /\ [Next]_vars => PreInv'
<1> SUFFICES ASSUME PreInv, [Next]_vars PROVE PreInv'
  OBVIOUS
<1>1. PreType' /\ RecInv'
  BY TypeNext, RecNext DEF PreInv
<1>2. OutType'
  BY OutNext DEF PreInv
<1>3. SameInv'
  BY <1>1, SameNext DEF PreInv
<1> QED BY <1>1, <1>2, <1>3 DEF PreInv

\* Without errors the second pass hands the assembler the words of the first, although
\* it starts with the first's labels and records (pasmpp.c:427).
THEOREM PassesReadTheSame == Spec => []SameText
<1>1. PreInv => SameText
  BY SameIsText DEF PreInv
<1> QED BY <1>1, PreInit, PreNext, PTL DEF Spec

\* If every record of f were in use, more records than files would be open.
LEMMA RoomFor ==
  ASSUME PreType, RecInv, NEW f \in Files, NEW fs, Len(fs) = OpenFiles + 1,
         fs[OpenFiles + 1].file = f,
         \A j \in 1 .. OpenFiles : fs[j].file = stack[j].file, Housed(fs, records)
  PROVE  Free(f) # {}
<1> SUFFICES ASSUME Free(f) = {} PROVE FALSE
  OBVIOUS
<1> DEFINE k == OpenFiles
           n == Len(records)
           D == {d \in 1 .. k : stack[d].file = f}
           E == D \union {k + 1}
<1>1. k \in Nat /\ DOMAIN records = 1 .. n /\ f # Absent
  BY PreAssumption DEF PreType, OpenFiles
<1>2. PICK g \in [1 .. k + 1 -> 1 .. n] : /\ \A j \in 1 .. k + 1 : records[g[j]].file = fs[j].file
                                          /\ \A i, j \in 1 .. k + 1 : i # j => g[i] # g[j]
  BY DEF Housed
<1>3. E \subseteq 1 .. k + 1 /\ k + 1 \notin D
  BY <1>1
<1>4. \A d \in E : fs[d].file = f
  OBVIOUS
<1>5. ASSUME NEW d \in E PROVE \E i \in D : stack[i].rec = g[d]
  <2>1. g[d] \in 1 .. n /\ records[g[d]].file = f
    BY <1>2, <1>3, <1>4
  <2>2. records[g[d]].inUse
    BY <1>1, <2>1 DEF Free
  <2>3. PICK i \in 1 .. k : stack[i].rec = g[d]
    BY <1>1, <2>1, <2>2 DEF RecInv
  <2>4. records[g[d]] = Marked(stack[i].file, TRUE)
    BY <2>3 DEF RecInv
  <2>5. stack[i].file = f
    BY <2>1, <2>4, MarkedHas
  <2> QED BY <2>3, <2>5
<1> DEFINE h == [d \in E |-> CHOOSE i \in D : stack[i].rec = g[d]]
<1>6. \A d \in E : h[d] \in D /\ stack[h[d]].rec = g[d]
  BY <1>5
<1>7. h \in [E -> D]
  BY <1>6
<1>8. IsFiniteSet(D)
  <2>1. IsFiniteSet(1 .. k)
    BY <1>1, FS_Interval
  <2>2. D \subseteq 1 .. k
    OBVIOUS
  <2> QED BY <2>1, <2>2, FS_Subset, Zenon
<1> HIDE DEF h, D, k
<1>9. IsFiniteSet(E) /\ Cardinality(E) = Cardinality(D) + 1 /\ Cardinality(D) \in Nat
  BY <1>3, <1>8, FS_AddElement, FS_CardinalityType
<1>10. Cardinality(D) < Cardinality(E)
  BY <1>9
<1> HIDE DEF E
<1>11. PICK x, y \in E : x # y /\ h[x] = h[y]
  <2>1. IsFiniteSet(E)
    BY <1>9
  <2>2. \E x, y \in E : x # y /\ h[x] = h[y]
    BY <1>7, <1>8, <1>10, <2>1, FS_PigeonHole
  <2> QED BY <2>2, Zenon
<1>12. g[x] = g[y]
  BY <1>6, <1>11
<1> QED BY <1>2, <1>3, <1>11, <1>12

\* Pass 2 opens no more files at a time than pass 1 did.
LEMMA IncludeFinds ==
  ASSUME PreInv, Pass = 2, Errors = 0, Errors' = 0, Include
  PROVE  Free(Cur.n) # {} /\ CanOpen(Cur.n)
<1>0. PreType /\ OutType /\ RecInv /\ SameInv
  BY DEF PreInv
<1>1. /\ stack # <<>> /\ phase = "lines" /\ CanOpen(Cur.n) /\ Cur.n \in Files
      /\ stack' \in Seq(FrameRec) /\ Opens(Cur.n)
  BY <1>0, IncludeIs
<1>2. PICK n \in Nat : \E t : Run(source, t, n) /\ Roomy(t, n, records) /\ Where(t, n)
  BY <1>0 DEF SameInv
<1>3. PICK t : Run(source, t, n) /\ Roomy(t, n, records) /\ Where(t, n)
  BY <1>2
<1>4. PICK k \in 0 .. n : View = t[k]
  BY <1>1, <1>3 DEF Where
<1>5. k # n
  <2>1. ASSUME k = n PROVE FALSE
    <3>1. View.frames = <<>>
      BY <1>1, <1>3, <1>4, <2>1 DEF Where, Ended
    <3> QED BY <1>0, <1>1, <3>1, SeenIs
  <2> QED BY <2>1
<1>6. k \in 0 .. n - 1 /\ k + 1 \in 0 .. n
  BY <1>5
<1>7. View' = t[k + 1]
  BY <1>0, <1>3, <1>4, <1>6, IncludeShows DEF Run, Shows
<1> DEFINE fs == Frames(stack')
<1>8. Housed(fs, records)
  <2>1. View'.frames = fs
    BY ViewNext DEF Seen
  <2> QED BY <1>3, <1>6, <1>7, <2>1 DEF Roomy
<1>9. Len(fs) = Len(stack') /\ \A j \in 1 .. Len(stack') : fs[j].file = stack'[j].file
  BY <1>1, FramesAre
<1>10. /\ Same(OpenFiles) /\ Len(stack') = OpenFiles + 1 /\ stack'[OpenFiles + 1].file = Cur.n
       /\ OpenFiles \in Nat
  BY <1>0, <1>1, OpensSame, TopType DEF OpenFiles
<1>11. \A j \in 1 .. OpenFiles : j \in 1 .. OpenFiles + 1
  BY <1>10
<1> HIDE DEF fs
<1>12. /\ Len(fs) = OpenFiles + 1 /\ fs[OpenFiles + 1].file = Cur.n
       /\ \A j \in 1 .. OpenFiles : fs[j].file = stack[j].file
  BY <1>9, <1>10, <1>11 DEF Same
<1> QED BY <1>0, <1>1, <1>8, <1>12, RoomFor

LEMMA ReusesNext ==
  ASSUME PreInv, [Next]_vars, Pass = 2, Errors' = 0
  PROVE  Len(records') = Len(records)
<1>0. PreType /\ RecInv /\ Errors \in Nat
  BY DEF PreInv, PreType
<1>1. Moves /\ Errors = 0
  BY <1>0, StepIs DEF Counts
<1>2. ASSUME NEW f \in Files \union {Absent}, TakeRecord(f), Free(f) # {}
      PROVE  Len(records') = Len(records)
  <2>1. Record(f) # Len(records) + 1
    BY <1>0, <1>2, FreeIs
  <2> QED BY <1>0, <1>2, <2>1, TakesIs DEF Marks
<1>3. CASE OpenMain
  <2>1. Record(Main) <= Len(records) /\ TakeRecord(Main) /\ Main \in Files
    BY <1>0, <1>3, MainOpens, PreAssumption DEF OpenMain
  <2>2. Free(Main) # {}
    BY <1>0, <2>1, FreeIs
  <2> QED BY <1>2, <2>1, <2>2
<1>4. CASE Include
  BY <1>0, <1>1, <1>2, <1>4, IncludeFinds, IncludeIs
<1>5. CASE stack # <<>> /\ \E h \in BOOLEAN : Close(h)
  <2>1. records' = [records EXCEPT ![Top.rec].inUse = FALSE]
    BY <1>5 DEF Close
  <2> QED BY <1>0, <2>1, MarkedIs DEF Marks
<1> QED BY <1>1, <1>3, <1>4, <1>5 DEF Moves

\* Each open file has a record of its own.
OwnRecords ==
  \A i, j \in DOMAIN stack :
    /\ records[stack[i].rec] = [file |-> stack[i].file, inUse |-> TRUE]
    /\ i # j => stack[i].rec # stack[j].rec

LEMMA RecOwns == PreInv => OwnRecords
<1> SUFFICES ASSUME PreInv PROVE OwnRecords
  OBVIOUS
<1>1. DOMAIN stack = 1 .. OpenFiles
  BY DEF PreInv, PreType, OpenFiles
<1>2. /\ \A i \in 1 .. OpenFiles : records[stack[i].rec] = [file |-> stack[i].file, inUse |-> TRUE]
      /\ \A i, j \in 1 .. OpenFiles : i # j => stack[i].rec # stack[j].rec
  BY DEF PreInv, RecInv, Marked
<1> QED BY <1>1, <1>2 DEF OwnRecords

\* Each open file has a record of its own, and a second pass without errors finds a
\* record for every file it opens again (pasmpp.c:212-230).
THEOREM RecordsAreReused == Spec => RecordsReused
<1>1. PreInv /\ [Next]_vars => [Pass = 2 /\ Errors' = 0 => Len(records') = Len(records)]_vars
  BY ReusesNext
<1>2. RecordsReused <=> /\ []OwnRecords
                        /\ [][Pass = 2 /\ Errors' = 0 => Len(records') = Len(records)]_vars
  BY DEF RecordsReused, OwnRecords
<1> QED BY <1>1, <1>2, PreInit, PreNext, RecOwns, PTL DEF Spec
===============================================================================
