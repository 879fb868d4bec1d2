--------------------------- MODULE PasmUse_proofs ---------------------------
(***************************************************************************)
(* What names stand for, for every structure, operand and program: the     *)
(* bytes of the register file an operand, an element and an instruction    *)
(* mean, and the scope an assignment is found in; and what is written of   *)
(* every program.  What the models compute by recursion or by a fold is    *)
(* handled by least counterexamples: a fold is the value of a function     *)
(* that exists and is unique on every set up to the least one where it     *)
(* would not be.                                                           *)
(***************************************************************************)
EXTENDS PasmUse, PasmScope, PasmOutput, FiniteSetTheorems, WellFoundedInduction,
        SequenceTheorems, TLAPS

-----------------------------------------------------------------------------
(* Structures and instructions: PasmUse.                                   *)

\* The pairs of numbers of which the first is less.
Less == {ss \in Nat \X Nat : ss[1] < ss[2]}

\* A set of numbers that is not empty has a least one: induction.
LEMMA LeastNumber ==
  ASSUME NEW T \in SUBSET Nat, T # {}
  PROVE  \E n \in T : \A m \in T : n <= m
<1>1. IsWellFoundedOn({ss \in Nat \X Nat : ss[1] < ss[2]}, Nat)
  BY NatLessThanWellFounded DEF OpToRel
<1>2. IsWellFoundedOn(Less, Nat)
  BY <1>1 DEF Less
<1>3. PICK n \in T : \A y \in T : ~ (<<y, n>> \in Less)
  BY <1>2, WFMin
<1>4. ASSUME NEW m \in T PROVE n <= m
  <2>1. ~ (<<m, n>> \in Less)
    BY <1>3
  <2>2. <<m, n>> \in Nat \X Nat
    OBVIOUS
  <2>3. ~ (m < n)
    BY <2>1, <2>2 DEF Less
  <2> QED BY <2>3
<1> QED BY <1>4

\* Max of a bounded set of numbers is its largest.
LEMMA LargestNumber ==
  ASSUME NEW n \in Nat, NEW T \in SUBSET (0 .. n), T # {}
  PROVE  Max(T) \in T /\ \A m \in T : m <= Max(T)
<1> DEFINE U == {i \in Nat : \E m \in T : i = n - m}
<1>1. U \in SUBSET Nat /\ U # {}
  <2>1. PICK m \in T : TRUE
    OBVIOUS
  <2>2. n - m \in U
    BY <2>1
  <2> QED BY <2>2
<1>2. PICK u \in U : \A v \in U : u <= v
  BY <1>1, LeastNumber
<1>3. PICK t \in T : u = n - t
  OBVIOUS
<1>4. ASSUME NEW m \in T PROVE m <= t
  <2>1. n - m \in U
    OBVIOUS
  <2>2. u <= n - m
    BY <1>2, <2>1
  <2> QED BY <2>2, <1>3
<1>5. \E x \in T : \A y \in T : x >= y
  BY <1>4
<1>6. Max(T) \in T /\ \A y \in T : Max(T) >= y
  <2>1. Max(T) = CHOOSE x \in T : \A y \in T : x >= y
    BY DEF Max
  <2> QED BY <1>5, <2>1
<1>7. \A m \in T : m \in Nat
  OBVIOUS
<1> QED BY <1>6, <1>7

\* A set of numbers below n + 1 that holds n has n as its largest.
LEMMA LargestIs ==
  ASSUME NEW n \in Nat, NEW T \in SUBSET (1 .. n), n \in T
  PROVE  Max(T) = n
<1>1. T \in SUBSET (0 .. n) /\ T # {}
  OBVIOUS
<1>2. Max(T) \in T /\ \A m \in T : m <= Max(T)
  BY <1>1, LargestNumber
<1>3. Max(T) \in 1 .. n /\ n <= Max(T)
  BY <1>2
<1> QED BY <1>3

\* g is the function that GetRegister folds the first n modifiers of seq with.
Narrows(g, seq, n) ==
  g = [s \in SUBSET (1 .. n) |-> IF s = {} THEN Whole ELSE Narrow(g[s \ {Max(s)}], seq[Max(s)])]

\* There is such a function.
LEMMA NarrowsExists ==
  ASSUME NEW seq, NEW k \in Nat
  PROVE  \E g : Narrows(g, seq, k)
<1> DEFINE Bad == {m \in Nat : ~ \E g : Narrows(g, seq, m)}
<1>1. SUFFICES ASSUME Bad # {} PROVE FALSE
  OBVIOUS
<1>3. PICK n \in Bad : \A m \in Bad : n <= m
  BY <1>1, LeastNumber
<1>4. n \in Nat /\ ~ \E g : Narrows(g, seq, n)
  OBVIOUS
<1>5. CASE n = 0
  <2>1. 1 .. 0 = {} /\ SUBSET {} = {{}}
    OBVIOUS
  <2>2. Narrows([s \in SUBSET (1 .. 0) |-> Whole], seq, 0)
    BY <2>1 DEF Narrows
  <2> QED BY <2>2, <1>4, <1>5
<1>6. CASE n # 0
  <2>1. n - 1 \in Nat /\ n - 1 \notin Bad
    BY <1>3, <1>4, <1>6
  <2>2. PICK g : Narrows(g, seq, n - 1)
    BY <2>1
  <2> DEFINE h == [s \in SUBSET (1 .. n) |-> IF n \in s THEN Narrow(g[s \ {n}], seq[n]) ELSE g[s]]
  <2>5. ASSUME NEW s \in SUBSET (1 .. n)
        PROVE  h[s] = IF s = {} THEN Whole ELSE Narrow(h[s \ {Max(s)}], seq[Max(s)])
    <3>1. CASE n \in s
      <4>1. Max(s) = n /\ s # {}
        BY <3>1, <1>4, LargestIs
      <4>2. s \ {n} \in SUBSET (1 .. n) /\ n \notin s \ {n}
        OBVIOUS
      <4>3. h[s \ {n}] = g[s \ {n}]
        BY <4>2
      <4> QED BY <3>1, <4>1, <4>3
    <3>2. CASE n \notin s
      <4>1. s \in SUBSET (1 .. (n - 1))
        BY <3>2, <1>4
      <4>2. g[s] = IF s = {} THEN Whole ELSE Narrow(g[s \ {Max(s)}], seq[Max(s)])
        BY <4>1, <2>2 DEF Narrows
      <4>3. h[s \ {Max(s)}] = g[s \ {Max(s)}]
        BY <3>2
      <4>4. h[s] = g[s]
        BY <3>2
      <4> HIDE DEF h
      <4> QED BY <4>2, <4>3, <4>4
    <3> QED BY <3>1, <3>2
  <2>6. h = [s \in SUBSET (1 .. n) |->
               IF s = {} THEN Whole ELSE Narrow(h[s \ {Max(s)}], seq[Max(s)])]
    <3> HIDE DEF h
    <3>1. h = [s \in SUBSET (1 .. n) |-> h[s]]
      BY DEF h
    <3> QED BY <3>1, <2>5
  <2> HIDE DEF h
  <2>7. Narrows(h, seq, n)
    BY <2>6 DEF Narrows
  <2> QED BY <2>7, <1>4
<1> QED BY <1>5, <1>6

\* The field that modifiers select.
Select(seq) == FoldLeft(Narrow, Whole, seq)

\* It is read off such a function.
LEMMA SelectIs ==
  ASSUME NEW T, NEW seq \in Seq(T)
  PROVE  \E g : Narrows(g, seq, Len(seq)) /\ Select(seq) = g[1 .. Len(seq)]
<1> DEFINE G == CHOOSE g : Narrows(g, seq, Len(seq))
<1>1. Narrows(G, seq, Len(seq))
  <2>1. Len(seq) \in Nat
    OBVIOUS
  <2> QED BY <2>1, NarrowsExists
<1>2. DOMAIN seq = 1 .. Len(seq)
  OBVIOUS
<1>3. Select(seq) = G[1 .. Len(seq)]
  BY <1>2 DEF Select, FoldLeft, MapThenFoldSet, Narrows
<1> HIDE DEF G
<1> QED BY <1>1, <1>3

\* Two of them agree on the modifiers that both fold.
LEMMA NarrowsAgree ==
  ASSUME NEW T, NEW seq \in Seq(T), NEW m \in T, NEW g, NEW h,
         Narrows(g, seq, Len(seq)), Narrows(h, Append(seq, m), Len(seq) + 1)
  PROVE  h[1 .. Len(seq)] = g[1 .. Len(seq)]
<1> DEFINE l == Len(seq)
           a == Append(seq, m)
           Bad == {k \in 0 .. l : ~ \A s \in SUBSET (1 .. k) : h[s] = g[s]}
<1>0. l \in Nat /\ \A k \in 1 .. l : a[k] = seq[k]
  OBVIOUS
<1>1. SUFFICES ASSUME Bad # {} PROVE FALSE
  <2>1. l \in 0 .. l
    BY <1>0
  <2>2. l \notin Bad => \A s \in SUBSET (1 .. l) : h[s] = g[s]
    BY <2>1
  <2> QED BY <2>2, <1>1
<1> HIDE DEF a
<1>2. Bad \in SUBSET Nat
  OBVIOUS
<1>3. PICK k \in Bad : \A j \in Bad : k <= j
  BY <1>1, <1>2, LeastNumber
<1>4. k \in 0 .. l /\ ~ \A s \in SUBSET (1 .. k) : h[s] = g[s]
  OBVIOUS
<1>5. PICK s \in SUBSET (1 .. k) : h[s] # g[s]
  BY <1>4
<1>6. s \in SUBSET (1 .. l) /\ s \in SUBSET (1 .. (l + 1))
  BY <1>4, <1>0
<1>7. g[s] = IF s = {} THEN Whole ELSE Narrow(g[s \ {Max(s)}], seq[Max(s)])
  BY <1>6 DEF Narrows
<1>8. h[s] = IF s = {} THEN Whole ELSE Narrow(h[s \ {Max(s)}], a[Max(s)])
  BY <1>6 DEF Narrows, a
<1>9. s # {}
  BY <1>5, <1>7, <1>8
<1>10. Max(s) \in s /\ \A j \in s : j <= Max(s)
  <2>1. k \in Nat /\ s \in SUBSET (0 .. k)
    BY <1>4
  <2> QED BY <2>1, <1>9, LargestNumber
<1>11. Max(s) \in 1 .. k /\ Max(s) - 1 \in 0 .. l /\ ~ (k <= Max(s) - 1)
  <2>1. Max(s) \in 1 .. k
    BY <1>10
  <2>2. k \in 0 .. l /\ l \in Nat
    BY <1>4, <1>0
  <2> QED BY <2>1, <2>2
<1>12. Max(s) - 1 \notin Bad
  BY <1>3, <1>11
<1>13. s \ {Max(s)} \in SUBSET (1 .. (Max(s) - 1))
  <2>1. ASSUME NEW j \in s, j # Max(s) PROVE j \in 1 .. (Max(s) - 1)
    <3>1. j \in 1 .. k /\ j <= Max(s)
      BY <1>10
    <3> QED BY <3>1, <2>1, <1>11, <1>4
  <2> QED BY <2>1
<1>14. h[s \ {Max(s)}] = g[s \ {Max(s)}]
  BY <1>11, <1>12, <1>13
<1>15. a[Max(s)] = seq[Max(s)]
  BY <1>0, <1>11, <1>4
<1> QED BY <1>5, <1>7, <1>8, <1>9, <1>14, <1>15

\* No modifier selects the whole register.
LEMMA SelectNone == Select(<<>>) = Whole
<1>1. PICK g : Narrows(g, <<>>, Len(<<>>)) /\ Select(<<>>) = g[1 .. Len(<<>>)]
  <2>1. <<>> \in Seq(Modifiers)
    OBVIOUS
  <2> QED BY <2>1, SelectIs
<1>2. 1 .. Len(<<>>) = {} /\ {} \in SUBSET (1 .. Len(<<>>))
  OBVIOUS
<1> QED BY <1>1, <1>2 DEF Narrows

\* Another modifier selects a part of the field.
LEMMA SelectMore ==
  ASSUME NEW T, NEW seq \in Seq(T), NEW m \in T
  PROVE  Select(Append(seq, m)) = Narrow(Select(seq), m)
<1> DEFINE l == Len(seq)
<1>1. l \in Nat /\ Append(seq, m) \in Seq(T) /\ Len(Append(seq, m)) = l + 1
        /\ Append(seq, m)[l + 1] = m
  OBVIOUS
<1>2. PICK g : Narrows(g, seq, l) /\ Select(seq) = g[1 .. l]
  BY SelectIs
<1>3. PICK h : Narrows(h, Append(seq, m), l + 1) /\ Select(Append(seq, m)) = h[1 .. (l + 1)]
  BY <1>1, SelectIs
<1>4. h[1 .. l] = g[1 .. l]
  BY <1>2, <1>3, NarrowsAgree
<1>5. l + 1 \in 1 .. (l + 1) /\ 1 .. (l + 1) \in SUBSET (1 .. (l + 1)) /\ 1 .. (l + 1) # {}
  BY <1>1
<1>6. Max(1 .. (l + 1)) = l + 1
  <2>1. l + 1 \in Nat
    BY <1>1
  <2> QED BY <2>1, <1>5, LargestIs
<1>7. (1 .. (l + 1)) \ {l + 1} = 1 .. l
  BY <1>1
<1> HIDE DEF l
<1>8. h[1 .. (l + 1)] = Narrow(h[(1 .. (l + 1)) \ {l + 1}], Append(seq, m)[l + 1])
  BY <1>3, <1>5, <1>6 DEF Narrows
<1> QED BY <1>1, <1>2, <1>3, <1>4, <1>7, <1>8

\* A field that GetRegister may return.
FieldIn(field) ==
  /\ field \in [ok : BOOLEAN, width : {8, 16, 32}, offset : Nat]
  /\ field.ok => field.offset * 8 + field.width <= 32

\* A modifier keeps a field within the register.
LEMMA NarrowIn ==
  ASSUME NEW field, FieldIn(field), NEW m \in Modifiers
  PROVE  FieldIn(Narrow(field, m))
<1>1. m.v \in Nat /\ Width(m) \in {8, 16}
  BY DEF Modifiers, Width
<1>2. field \in [ok : BOOLEAN, width : {8, 16, 32}, offset : Nat]
  BY DEF FieldIn
<1>3. field.ok \in BOOLEAN /\ field.width \in {8, 16, 32} /\ field.offset \in Nat
  BY <1>2
<1>4. field.ok => field.offset * 8 + field.width <= 32
  BY DEF FieldIn
<1> DEFINE w == Width(m)
           v == m.v
<1>5. w \in {8, 16} /\ v \in Nat
  BY <1>1
<1> HIDE DEF w, v
<1>6. Narrow(field, m) = [ok |-> field.ok /\ v * 8 + w <= field.width, width |-> w,
                          offset |-> field.offset + v]
  BY DEF Narrow, w, v
<1>7. field.offset + v \in Nat
  BY <1>3, <1>5
<1>8. (field.ok /\ v * 8 + w <= field.width) => (field.offset + v) * 8 + w <= 32
  BY <1>3, <1>4, <1>5
<1> DEFINE ok == field.ok /\ v * 8 + w <= field.width
<1>9. ok \in BOOLEAN
  BY <1>3
<1> DEFINE e == Narrow(field, m)
<1>10. e = [ok |-> ok, width |-> w, offset |-> field.offset + v]
  BY <1>6
<1>11. ok => (field.offset + v) * 8 + w <= 32
  BY <1>8
<1> HIDE DEF ok, e
<1>12. e \in [ok : BOOLEAN, width : {8, 16, 32}, offset : Nat]
  BY <1>5, <1>7, <1>9, <1>10
<1>13. e.ok = ok /\ e.width = w /\ e.offset = field.offset + v
  BY <1>10
<1>14. FieldIn(e)
  BY <1>11, <1>12, <1>13 DEF FieldIn
<1> QED BY <1>14 DEF e

\* A field lies in its register, whatever modifiers select it.
LEMMA SelectIn ==
  ASSUME NEW seq \in Seq(Modifiers)
  PROVE  FieldIn(Select(seq))
<1> DEFINE Bad == {k \in Nat : \E q \in Seq(Modifiers) : Len(q) = k /\ ~FieldIn(Select(q))}
<1>1. SUFFICES ASSUME Bad # {} PROVE FALSE
  <2>1. Len(seq) \in Nat
    OBVIOUS
  <2>2. ~FieldIn(Select(seq)) => Len(seq) \in Bad
    BY <2>1
  <2> QED BY <2>2, <1>1
<1>3. PICK k \in Bad : \A j \in Bad : k <= j
  BY <1>1, LeastNumber
<1>4. PICK q \in Seq(Modifiers) : Len(q) = k /\ ~FieldIn(Select(q))
  OBVIOUS
<1>5. CASE q = <<>>
  <2>1. FieldIn(Whole)
    BY DEF FieldIn, Whole
  <2> QED BY <2>1, <1>4, <1>5, SelectNone
<1>6. CASE q # <<>>
  <2> DEFINE p == SubSeq(q, 1, k - 1)
             m == q[k]
  <2>1. k \in Nat \ {0} /\ m \in Modifiers
    BY <1>4, <1>6
  <2>2. p \in Seq(Modifiers) /\ Len(p) = k - 1
    BY <1>4, <2>1, SubSeqProperties
  <2>3. q = Append(p, m)
    <3>1. SubSeq(q, 1, k) = SubSeq(q, 1, k - 1) \o <<q[k]>>
      BY <1>4, <2>1, SubSeqRecursiveSecond
    <3>2. SubSeq(q, 1, k) = q
      BY <1>4, SubSeqFull
    <3>3. Append(p, m) = p \o <<m>>
      BY <2>1, <2>2
    <3> QED BY <3>1, <3>2, <3>3
  <2>4. FieldIn(Select(p))
    <3>1. k - 1 \in Nat /\ k - 1 \notin Bad
      BY <1>3, <2>1
    <3> HIDE DEF p
    <3> QED BY <3>1, <2>2
  <2> HIDE DEF p, m
  <2>5. Select(q) = Narrow(Select(p), m)
    BY <2>1, <2>2, <2>3, SelectMore
  <2>6. FieldIn(Narrow(Select(p), m))
    BY <2>1, <2>4, NarrowIn
  <2> QED BY <2>5, <2>6, <1>4
<1> QED BY <1>5, <1>6

\* A register that an operand names.
RegisterIn(field) ==
  /\ field \in [ok : BOOLEAN, reg : Nat, width : {8, 16, 32}, offset : Nat]
  /\ field.ok => field.offset * 8 + field.width <= 32 /\ field.reg <= LAST_REG

\* GetRegister returns one.
LEMMA RegisterOfName ==
  ASSUME NEW name, name.reg \in Nat, name.mods \in Seq(Modifiers)
  PROVE  /\ RegisterIn(GetRegister(name))
         /\ GetRegister(name).reg = name.reg
         /\ GetRegister(name).width = Select(name.mods).width
         /\ GetRegister(name).offset = Select(name.mods).offset
         /\ GetRegister(name).ok <=> Select(name.mods).ok /\ name.reg <= LAST_REG
<1> DEFINE s == Select(name.mods)
<1>1. FieldIn(s)
  BY SelectIn
<1> HIDE DEF s
<1>2. GetRegister(name) = [ok |-> s.ok /\ name.reg <= LAST_REG, reg |-> name.reg,
                           width |-> s.width, offset |-> s.offset]
  BY DEF GetRegister, s, Select
<1>3. s \in [ok : BOOLEAN, width : {8, 16, 32}, offset : Nat]
  BY <1>1 DEF FieldIn
<1>4. s.ok \in BOOLEAN /\ s.width \in {8, 16, 32} /\ s.offset \in Nat
  BY <1>3
<1> DEFINE ok == s.ok /\ name.reg <= LAST_REG
<1>5. ok \in BOOLEAN
  BY <1>4
<1>6. ok => s.offset * 8 + s.width <= 32 /\ name.reg <= LAST_REG
  BY <1>1 DEF FieldIn
<1>7. ok <=> s.ok /\ name.reg <= LAST_REG
  OBVIOUS
<1> DEFINE e == GetRegister(name)
<1>8. e = [ok |-> ok, reg |-> name.reg, width |-> s.width, offset |-> s.offset]
  BY <1>2
<1> HIDE DEF ok, e
<1>9. e.ok = ok /\ e.reg = name.reg /\ e.width = s.width /\ e.offset = s.offset
  BY <1>8
<1>10. e \in [ok : BOOLEAN, reg : Nat, width : {8, 16, 32}, offset : Nat]
  BY <1>4, <1>5, <1>8
<1>11. RegisterIn(e)
  BY <1>6, <1>9, <1>10 DEF RegisterIn
<1> QED BY <1>7, <1>9, <1>11 DEF e, s

\* The lane of a byte lies in the same register, and no two bytes share one.
LEMMA LaneOfLane ==
  ASSUME big \in BOOLEAN, NEW a \in Nat
  PROVE  Lane(a) \in Nat /\ Lane(Lane(a)) = a /\ Lane(a) \div 4 = a \div 4
<1>1. CASE big
  <2> DEFINE q == a \div 4
             r == a % 4
  <2>1. q \in Nat /\ r \in 0 .. 3 /\ a = 4 * q + r
    OBVIOUS
  <2> HIDE DEF q, r
  <2>2. Lane(a) = 4 * q + 3 - r
    BY <1>1 DEF Lane, q, r
  <2>3. (4 * q + 3 - r) \div 4 = q /\ (4 * q + 3 - r) % 4 = 3 - r
    BY <2>1
  <2>4. Lane(4 * q + 3 - r) = 4 * q + 3 - (3 - r)
    BY <1>1, <2>3 DEF Lane
  <2> QED BY <2>1, <2>2, <2>3, <2>4 DEF q
<1>2. CASE ~big
  BY <1>2 DEF Lane
<1> QED BY <1>1, <1>2

\* The bytes of memory are lanes one for one.
LEMMA LanesDiffer ==
  ASSUME big \in BOOLEAN, NEW a \in Nat, NEW b \in Nat, Lane(a) = Lane(b)
  PROVE  a = b
BY LaneOfLane

\* The lanes of a range of bytes determine it.
LEMMA LanesAreOf ==
  ASSUME big \in BOOLEAN, NEW a \in Nat, NEW b \in Nat, NEW n \in Nat \ {0},
         Lanes(a, n) = Lanes(b, n)
  PROVE  a = b
<1>1. ASSUME NEW c \in Nat, NEW d \in Nat, Lanes(c, n) = Lanes(d, n) PROVE d <= c
  <2>1. Lane(c) \in Lanes(c, n)
    <3>1. c \in c .. c + n - 1
      OBVIOUS
    <3> QED BY <3>1 DEF Lanes
  <2>2. PICK e \in d .. d + n - 1 : Lane(c) = Lane(e)
    BY <2>1, <1>1 DEF Lanes
  <2>3. e \in Nat /\ d <= e
    OBVIOUS
  <2>4. e = c
    BY <2>2, <2>3, LanesDiffer
  <2> QED BY <2>3, <2>4
<1>2. a <= b /\ b <= a
  BY <1>1
<1> QED BY <1>2

\* The lanes of a field are those of the bytes StartOff and EndOff are computed for.
LEMMA FieldLanesAre ==
  ASSUME big \in BOOLEAN, NEW f, RegisterIn(f), f.offset * 8 + f.width <= 32
  PROVE  /\ StartOff(f) \in Nat /\ EndOff(f) = StartOff(f) + f.width \div 8
         /\ f.width \div 8 \in {1, 2, 4}
         /\ StartOff(f) \div 4 = f.reg /\ (StartOff(f) % 4) + f.width \div 8 <= 4
         /\ FieldLanes(f) = Lanes(StartOff(f), f.width \div 8)
<1> DEFINE n == f.width \div 8
           o == f.offset
           r == f.reg
<1>0. f \in [ok : BOOLEAN, reg : Nat, width : {8, 16, 32}, offset : Nat]
  BY DEF RegisterIn
<1>1. f.width \in {8, 16, 32} /\ f.offset \in Nat /\ f.reg \in Nat
  BY <1>0
<1>2. n \in {1, 2, 4} /\ o \in Nat /\ r \in Nat /\ o + n <= 4
  BY <1>1
<1> HIDE DEF n, o, r
<1> DEFINE p == IF big THEN 4 - o - n ELSE o
<1>3. StartOff(f) = 4 * r + p /\ EndOff(f) = 4 * r + p + n
  <2>1. CASE big
    BY <1>2, <2>1 DEF StartOff, EndOff, n, o, r
  <2>2. CASE ~big
    BY <1>2, <2>2 DEF StartOff, EndOff, n, o, r
  <2> QED BY <2>1, <2>2
<1>4. p \in 0 .. 3 /\ p + n <= 4
  <2>1. 4 - o - n \in 0 .. 3 /\ 4 - o - n + n <= 4
    BY <1>2
  <2>2. o \in 0 .. 3 /\ o + n <= 4
    BY <1>2
  <2> QED BY <2>1, <2>2
<1>10. p = IF big THEN 4 - o - n ELSE o
  OBVIOUS
<1> HIDE DEF p
<1> DEFINE s == 4 * r + p
<1>5. s \in Nat /\ s \div 4 = r /\ s % 4 = p
  BY <1>2, <1>4
<1>6. \A k \in 0 .. n - 1 : Lane(s + k) = IF big THEN 4 * r + o + (n - 1 - k) ELSE 4 * r + o + k
  <2> TAKE k \in 0 .. n - 1
  <2>1. p + k \in 0 .. 3 /\ k \in Int
    BY <1>2, <1>4
  <2>2. (4 * r + (p + k)) \div 4 = r /\ (4 * r + (p + k)) % 4 = p + k
    BY <1>2, <2>1
  <2>3. s + k = 4 * r + (p + k)
    BY <1>2, <1>4, <2>1
  <2>4. CASE big
    BY <1>2, <1>10, <2>1, <2>2, <2>3, <2>4 DEF Lane
  <2>5. CASE ~big
    BY <1>2, <1>10, <2>1, <2>2, <2>3, <2>5 DEF Lane
  <2> QED BY <2>4, <2>5
<1>7. FieldLanes(f) = {4 * r + o + k : k \in 0 .. n - 1}
  BY DEF FieldLanes, n, o, r
<1>8. Lanes(s, n) = {Lane(s + k) : k \in 0 .. n - 1}
  <2> HIDE DEF s
  <2>1. \A k \in 0 .. n - 1 : s + k \in s .. s + n - 1
    BY <1>2, <1>5
  <2>2. \A a \in s .. s + n - 1 : a - s \in 0 .. n - 1 /\ s + (a - s) = a
    BY <1>2, <1>5
  <2> QED BY <2>1, <2>2 DEF Lanes
<1> HIDE DEF s
<1>9. {4 * r + o + k : k \in 0 .. n - 1} = {Lane(s + k) : k \in 0 .. n - 1}
  <2>1. CASE ~big
    BY <1>6, <2>1
  <2>2. CASE big
    <3>1. \A k \in 0 .. n - 1 : n - 1 - k \in 0 .. n - 1 /\ n - 1 - (n - 1 - k) = k
      BY <1>2
    <3>2. \A k \in 0 .. n - 1 : Lane(s + k) = 4 * r + o + (n - 1 - k)
      BY <1>6, <2>2
    <3>3. \A k \in 0 .. n - 1 : 4 * r + o + k = Lane(s + (n - 1 - k))
      BY <3>1, <3>2
    <3> QED BY <3>1, <3>2, <3>3
  <2> QED BY <2>1, <2>2
<1> QED BY <1>2, <1>3, <1>4, <1>5, <1>7, <1>8, <1>9 DEF n, r, s

\* The first byte of a field is the one StartOff computes.
LEMMA FirstIsStart ==
  ASSUME big \in BOOLEAN, NEW f, RegisterIn(f), f.ok
  PROVE  First(f) = StartOff(f)
<1>0. f.offset * 8 + f.width <= 32 /\ f.reg <= LAST_REG /\ f.reg \in Nat
  <2>1. f \in [ok : BOOLEAN, reg : Nat, width : {8, 16, 32}, offset : Nat]
    BY DEF RegisterIn
  <2>2. f.reg \in Nat
    BY <2>1
  <2> QED BY <2>2 DEF RegisterIn
<1> DEFINE n == f.width \div 8
           s == StartOff(f)
<1>1. s \in Nat /\ n \in {1, 2, 4} /\ s \div 4 = f.reg /\ (s % 4) + n <= 4
        /\ FieldLanes(f) = Lanes(s, n)
  BY <1>0, FieldLanesAre
<1> HIDE DEF s, n
<1>2. s \in 0 .. 4 * LAST_REG + 3
  <2>1. s = 4 * (s \div 4) + (s % 4) /\ s % 4 \in 0 .. 3
    BY <1>1
  <2>2. LAST_REG \in Nat
    BY RegisterAssumption
  <2> QED BY <1>0, <1>1, <2>1, <2>2
<1>3. \A a \in 0 .. 4 * LAST_REG + 3 : Lanes(a, n) = FieldLanes(f) => a = s
  <2>1. \A a \in 0 .. 4 * LAST_REG + 3 : a \in Nat
    BY RegisterAssumption
  <2> QED BY <1>1, <2>1, LanesAreOf
<1>4. First(f) = CHOOSE a \in 0 .. 4 * LAST_REG + 3 : Lanes(a, n) = FieldLanes(f)
  BY DEF First, n
<1>5. First(f) = s
  BY <1>1, <1>2, <1>3, <1>4
<1> QED BY <1>5 DEF s

\* t adds up the first n elements of a sequence over any set of positions.
Totals(t, seq, n) ==
  \A s \in SUBSET (1 .. n) :
    /\ t[s] \in Nat
    /\ s = {} => t[s] = 0
    /\ \A x \in s : t[s] = seq[x] + t[s \ {x}]

\* There is such a function.
LEMMA TotalsExists ==
  ASSUME NEW seq \in Seq(Nat), NEW k \in 0 .. Len(seq)
  PROVE  \E t : Totals(t, seq, k)
<1> DEFINE Bad == {m \in 0 .. Len(seq) : ~ \E t : Totals(t, seq, m)}
<1>1. SUFFICES ASSUME Bad # {} PROVE FALSE
  OBVIOUS
<1>2. Bad \in SUBSET Nat
  OBVIOUS
<1>3. PICK n \in Bad : \A m \in Bad : n <= m
  BY <1>1, <1>2, LeastNumber
<1>4. n \in 0 .. Len(seq) /\ ~ \E t : Totals(t, seq, n)
  OBVIOUS
<1>5. CASE n = 0
  <2>1. 1 .. 0 = {} /\ SUBSET {} = {{}}
    OBVIOUS
  <2>2. Totals([s \in SUBSET (1 .. 0) |-> 0], seq, 0)
    BY <2>1 DEF Totals
  <2> QED BY <2>2, <1>4, <1>5
<1>6. CASE n # 0
  <2>1. n - 1 \in 0 .. Len(seq) /\ n - 1 \notin Bad
    BY <1>3, <1>4, <1>6
  <2>2. PICK g : Totals(g, seq, n - 1)
    BY <2>1
  <2> DEFINE h == [s \in SUBSET (1 .. n) |-> IF n \in s THEN seq[n] + g[s \ {n}] ELSE g[s]]
  <2>3. seq[n] \in Nat
    BY <1>4, <1>6
  <2>4. \A s \in SUBSET (1 .. n) : s \ {n} \in SUBSET (1 .. (n - 1))
          /\ (n \notin s => s \in SUBSET (1 .. (n - 1)))
    BY <1>4
  <2>5. ASSUME NEW s \in SUBSET (1 .. n)
        PROVE  h[s] \in Nat /\ (s = {} => h[s] = 0)
    <3>1. CASE n \in s
      <4>1. g[s \ {n}] \in Nat
        BY <2>2, <2>4 DEF Totals
      <4> QED BY <3>1, <4>1, <2>3
    <3>2. CASE n \notin s
      <4>1. g[s] \in Nat /\ (s = {} => g[s] = 0)
        BY <2>2, <2>4, <3>2 DEF Totals
      <4> QED BY <3>2, <4>1
    <3> QED BY <3>1, <3>2
  <2>6. ASSUME NEW s \in SUBSET (1 .. n), NEW x \in s
        PROVE  h[s] = seq[x] + h[s \ {x}]
    <3>1. CASE n \notin s
      <4>1. g[s] = seq[x] + g[s \ {x}]
        BY <2>2, <2>4, <3>1 DEF Totals
      <4>2. h[s] = g[s] /\ h[s \ {x}] = g[s \ {x}]
        BY <3>1
      <4> HIDE DEF h
      <4> QED BY <4>1, <4>2
    <3>2. CASE n \in s /\ x = n
      <4>1. h[s] = seq[n] + g[s \ {n}] /\ h[s \ {n}] = g[s \ {n}]
        BY <3>2
      <4> HIDE DEF h
      <4> QED BY <3>2, <4>1
    <3>3. CASE n \in s /\ x # n
      <4> DEFINE r == s \ {n}
                 q == (s \ {n}) \ {x}
      <4>1. r \in SUBSET (1 .. (n - 1)) /\ x \in r /\ q \in SUBSET (1 .. (n - 1))
        BY <3>3, <2>4
      <4>2. g[r] = seq[x] + g[q] /\ g[r] \in Nat /\ g[q] \in Nat
        BY <4>1, <2>2 DEF Totals
      <4>3. h[s] = seq[n] + g[r]
        BY <3>3
      <4>4. (s \ {x}) \ {n} = q /\ n \in s \ {x} /\ s \ {x} \in SUBSET (1 .. n)
        BY <3>3
      <4>5. h[s \ {x}] = seq[n] + g[q]
        <5>1. h[s \ {x}] = seq[n] + g[(s \ {x}) \ {n}]
          BY <4>4
        <5> HIDE DEF h, q
        <5> QED BY <5>1, <4>4
      <4>6. seq[x] \in Nat
        <5>1. x \in 1 .. Len(seq)
          BY <1>4
        <5> QED BY <5>1
      <4> HIDE DEF h, r, q
      <4> QED BY <2>3, <4>2, <4>3, <4>5, <4>6
    <3> QED BY <3>1, <3>2, <3>3
  <2> HIDE DEF h
  <2>7. Totals(h, seq, n)
    BY <2>5, <2>6 DEF Totals
  <2> QED BY <2>7, <1>4
<1> QED BY <1>5, <1>6

\* SumFunction adds up the whole sequence, in whatever order.
LEMMA SumIs ==
  ASSUME NEW seq \in Seq(Nat), NEW t, Totals(t, seq, Len(seq))
  PROVE  SumFunction(seq) = t[1 .. Len(seq)]
<1> DEFINE D == 1 .. Len(seq)
           Adds(g) == g = [s \in SUBSET D |-> IF s = {} THEN 0
                             ELSE seq[CHOOSE x \in s : TRUE] + g[s \ {CHOOSE x \in s : TRUE}]]
           G == CHOOSE g : Adds(g)
<1>1. DOMAIN seq = D
  OBVIOUS
<1>2. SumFunction(seq) = G[D]
  BY <1>1 DEF SumFunction, SumFunctionOnSet, FoldFunctionOnSet, MapThenFoldSet
<1>3. \E g : Adds(g)
  <2> DEFINE h == [s \in SUBSET D |-> t[s]]
  <2>1. ASSUME NEW s \in SUBSET D
        PROVE  h[s] = IF s = {} THEN 0
                      ELSE seq[CHOOSE x \in s : TRUE] + h[s \ {CHOOSE x \in s : TRUE}]
    <3>1. CASE s = {}
      BY <3>1 DEF Totals
    <3>2. CASE s # {}
      <4> DEFINE c == CHOOSE x \in s : TRUE
      <4>1. c \in s
        BY <3>2
      <4> HIDE DEF c
      <4>2. t[s] = seq[c] + t[s \ {c}]
        BY <4>1 DEF Totals
      <4>3. h[s] = t[s] /\ h[s \ {c}] = t[s \ {c}]
        OBVIOUS
      <4> HIDE DEF h
      <4>4. h[s] = seq[c] + h[s \ {c}]
        BY <4>2, <4>3
      <4> QED BY <4>4, <3>2 DEF c
    <3> QED BY <3>1, <3>2
  <2>2. Adds(h)
    <3>1. h = [s \in SUBSET D |-> h[s]]
      OBVIOUS
    <3> HIDE DEF h
    <3> QED BY <2>1, <3>1
  <2> HIDE DEF h, Adds
  <2> QED BY <2>2
<1>4. Adds(G)
  <2> HIDE DEF Adds
  <2> QED BY <1>3
<1> HIDE DEF G
<1> DEFINE Bad == {s \in SUBSET D : G[s] # t[s]}
<1>5. Bad = {}
  <2> DEFINE Sizes == {Cardinality(s) : s \in Bad}
  <2>1. SUFFICES ASSUME Bad # {} PROVE FALSE
    OBVIOUS
  <2>2. \A s \in SUBSET D : IsFiniteSet(s) /\ Cardinality(s) \in Nat
    <3>1. IsFiniteSet(D)
      BY FS_Interval
    <3> QED BY <3>1, FS_Subset, FS_CardinalityType
  <2>3. Sizes \in SUBSET Nat /\ Sizes # {}
    BY <2>1, <2>2
  <2>4. PICK n \in Sizes : \A m \in Sizes : n <= m
    BY <2>3, LeastNumber
  <2>5. PICK s \in Bad : Cardinality(s) = n
    OBVIOUS
  <2> DEFINE c == CHOOSE x \in s : TRUE
  <2>6. s \in SUBSET D /\ G[s] # t[s]
    OBVIOUS
  <2>7. s # {}
    BY <2>6, <1>4 DEF Totals
  <2>8. G[s] = seq[c] + G[s \ {c}]
    BY <2>6, <2>7, <1>4
  <2>9. c \in s
    BY <2>7
  <2> HIDE DEF c
  <2>10. t[s] = seq[c] + t[s \ {c}]
    BY <2>6, <2>9 DEF Totals
  <2>11. s \ {c} \in Bad
    BY <2>6, <2>8, <2>10
  <2>12. Cardinality(s \ {c}) = Cardinality(s) - 1
    BY <2>2, <2>6, <2>9, FS_RemoveElement
  <2>13. Cardinality(s \ {c}) \in Sizes
    BY <2>11
  <2>14. Cardinality(s) \in Nat /\ n <= Cardinality(s \ {c})
    BY <2>2, <2>4, <2>6, <2>13
  <2> QED BY <2>5, <2>12, <2>14
<1> QED BY <1>2, <1>5

\* The empty sum.
LEMMA SumNone == SumFunction(<<>>) = 0
<1>1. <<>> \in Seq(Nat) /\ Len(<<>>) = 0 /\ 0 \in 0 .. Len(<<>>)
  OBVIOUS
<1>2. PICK t : Totals(t, <<>>, Len(<<>>))
  BY <1>1, TotalsExists
<1>3. SumFunction(<<>>) = t[1 .. Len(<<>>)]
  BY <1>1, <1>2, SumIs
<1>4. 1 .. Len(<<>>) = {} /\ {} \in SUBSET (1 .. Len(<<>>))
  BY <1>1
<1> QED BY <1>2, <1>3, <1>4 DEF Totals

\* A sum is a number, the last element and the sum of those before it.
LEMMA SumMore ==
  ASSUME NEW seq \in Seq(Nat), NEW i \in 1 .. Len(seq)
  PROVE  /\ SumFunction(SubSeq(seq, 1, i - 1)) \in Nat
         /\ SumFunction(SubSeq(seq, 1, i)) = SumFunction(SubSeq(seq, 1, i - 1)) + seq[i]
<1>1. PICK t : Totals(t, seq, Len(seq))
  <2>1. Len(seq) \in 0 .. Len(seq)
    OBVIOUS
  <2> QED BY <2>1, TotalsExists
<1>2. ASSUME NEW n \in 0 .. Len(seq)
      PROVE  SumFunction(SubSeq(seq, 1, n)) = t[1 .. n]
  <2> DEFINE p == SubSeq(seq, 1, n)
  <2>1. p \in Seq(Nat) /\ Len(p) = n /\ \A x \in 1 .. n : p[x] = seq[x]
    <3>1. 1 \in Int /\ n \in Int /\ \A x \in 1 .. n : seq[x] \in Nat
      OBVIOUS
    <3> HIDE DEF p
    <3>2. p \in Seq(Nat) /\ Len(p) = IF 1 <= n THEN n - 1 + 1 ELSE 0
      BY <3>1, SubSeqProperties DEF p
    <3>3. \A x \in 1 .. n - 1 + 1 : p[x] = seq[1 + x - 1]
      BY <3>1, SubSeqProperties DEF p
    <3> QED BY <3>2, <3>3
  <2> HIDE DEF p
  <2>2. SUBSET (1 .. n) \subseteq SUBSET (1 .. Len(seq))
    OBVIOUS
  <2>3. Totals(t, p, n)
    <3>1. ASSUME NEW s \in SUBSET (1 .. n)
          PROVE  t[s] \in Nat /\ (s = {} => t[s] = 0) /\ \A x \in s : t[s] = p[x] + t[s \ {x}]
      <4>1. s \in SUBSET (1 .. Len(seq))
        BY <2>2
      <4>2. t[s] \in Nat /\ (s = {} => t[s] = 0) /\ \A x \in s : t[s] = seq[x] + t[s \ {x}]
        BY <4>1, <1>1 DEF Totals
      <4> QED BY <4>2, <2>1
    <3> QED BY <3>1 DEF Totals
  <2>4. SumFunction(p) = t[1 .. n]
    BY <2>1, <2>3, SumIs
  <2> QED BY <2>4 DEF p
<1>3. i \in 0 .. Len(seq) /\ i - 1 \in 0 .. Len(seq)
  OBVIOUS
<1>4. 1 .. i \in SUBSET (1 .. Len(seq)) /\ i \in 1 .. i /\ (1 .. i) \ {i} = 1 .. (i - 1)
        /\ 1 .. (i - 1) \in SUBSET (1 .. Len(seq))
  OBVIOUS
<1>5. t[1 .. i] = seq[i] + t[1 .. (i - 1)] /\ t[1 .. (i - 1)] \in Nat
  BY <1>1, <1>4 DEF Totals
<1>6. seq[i] \in Nat
  OBVIOUS
<1>7. SumFunction(SubSeq(seq, 1, i)) = t[1 .. i]
        /\ SumFunction(SubSeq(seq, 1, i - 1)) = t[1 .. (i - 1)]
  BY <1>2, <1>3
<1> QED BY <1>5, <1>6, <1>7

\* The bytes before an element of a structure, and with it, are numbers.
LEMMA SumsGrow ==
  ASSUME NEW e \in Seq({1, 2, 4}), NEW i \in 1 .. Len(e)
  PROVE  /\ SumFunction(SubSeq(e, 1, i - 1)) \in Nat /\ e[i] \in {1, 2, 4}
         /\ SumFunction(SubSeq(e, 1, i)) = SumFunction(SubSeq(e, 1, i - 1)) + e[i]
<1>1. e \in Seq(Nat)
  <2>1. {1, 2, 4} \subseteq Nat
    OBVIOUS
  <2> QED BY <2>1, SeqMonotonic
<1>2. i \in 1 .. Len(e) /\ e[i] \in {1, 2, 4}
  OBVIOUS
<1> QED BY <1>1, <1>2, SumMore

\* The sum of the first elements.
Before(e, i) == SumFunction(SubSeq(e, 1, i))

\* Nothing lies before the first element.
LEMMA BeforeNone == \A e : Before(e, 0) = 0
<1> TAKE e
<1>1. SubSeq(e, 1, 0) = <<>>
  BY SubSeqEmpty
<1> QED BY <1>1, SumNone DEF Before

\* An element lies after what is before it.
LEMMA BeforeMore ==
  ASSUME NEW e \in Seq({1, 2, 4}), NEW i \in 1 .. Len(e)
  PROVE  Before(e, i - 1) \in Nat /\ e[i] \in {1, 2, 4} /\ Before(e, i) = Before(e, i - 1) + e[i]
BY SumsGrow DEF Before

\* The bytes before an element are a number.
LEMMA BeforeIn ==
  ASSUME NEW e \in Seq({1, 2, 4}), NEW i \in 0 .. Len(e)
  PROVE  Before(e, i) \in Nat
<1>1. CASE i = 0
  BY <1>1, BeforeNone
<1>2. CASE i # 0
  <2>1. i \in 1 .. Len(e)
    BY <1>2
  <2>2. Before(e, i - 1) \in Nat /\ e[i] \in {1, 2, 4} /\ Before(e, i) = Before(e, i - 1) + e[i]
    BY <2>1, BeforeMore
  <2> QED BY <2>2
<1> QED BY <1>1, <1>2

\* Before the end lies the whole structure.
LEMMA BeforeAll ==
  ASSUME NEW e \in Seq({1, 2, 4})
  PROVE  Before(e, Len(e)) = SumFunction(e)
<1>1. SubSeq(e, 1, Len(e)) = e
  BY SubSeqFull
<1> QED BY <1>1 DEF Before

\* The more elements, the more bytes.
LEMMA BeforeGrows ==
  ASSUME NEW e \in Seq({1, 2, 4}), NEW i \in 0 .. Len(e), NEW j \in i .. Len(e)
  PROVE  Before(e, i) <= Before(e, j)
<1> DEFINE Bad == {k \in i .. Len(e) : ~ (Before(e, i) <= Before(e, k))}
<1>0. Len(e) \in Nat /\ i \in Nat
  OBVIOUS
<1>1. SUFFICES ASSUME Bad # {} PROVE FALSE
  OBVIOUS
<1>2. Bad \in SUBSET Nat
  BY <1>0
<1>3. PICK k \in Bad : \A m \in Bad : k <= m
  BY <1>1, <1>2, LeastNumber
<1>4. k \in i .. Len(e) /\ ~ (Before(e, i) <= Before(e, k))
  OBVIOUS
<1>5. k # i
  <2>1. Before(e, i) \in Nat
    BY BeforeIn
  <2> QED BY <1>4, <2>1
<1>6. k \in 1 .. Len(e) /\ k - 1 \in i .. Len(e) /\ ~ (k <= k - 1)
  BY <1>0, <1>4, <1>5
<1>7. k - 1 \notin Bad
  BY <1>3, <1>6
<1>8. Before(e, i) <= Before(e, k - 1)
  BY <1>6, <1>7
<1>9. Before(e, k - 1) \in Nat /\ e[k] \in Nat /\ Before(e, k) = Before(e, k - 1) + e[k]
  <2>1. Before(e, k - 1) \in Nat /\ e[k] \in {1, 2, 4} /\ Before(e, k) = Before(e, k - 1) + e[k]
    BY <1>6, BeforeMore
  <2> QED BY <2>1
<1>10. Before(e, i) \in Nat
  BY BeforeIn
<1> QED BY <1>4, <1>8, <1>9, <1>10

\* Every byte of a structure lies in one of its elements.
LEMMA BeforeCovers ==
  ASSUME NEW e \in Seq({1, 2, 4}), NEW x \in Nat, x < SumFunction(e)
  PROVE  \E i \in 1 .. Len(e) : Before(e, i - 1) <= x /\ x < Before(e, i)
<1> DEFINE Above == {k \in 0 .. Len(e) : x < Before(e, k)}
<1>0. Len(e) \in Nat
  OBVIOUS
<1>1. Above \in SUBSET Nat /\ Len(e) \in Above
  BY <1>0, BeforeAll
<1>2. PICK k \in Above : \A m \in Above : k <= m
  BY <1>1, LeastNumber
<1>3. k \in 0 .. Len(e) /\ x < Before(e, k)
  OBVIOUS
<1>4. k # 0
  BY <1>3, BeforeNone
<1>5. k \in 1 .. Len(e) /\ k - 1 \in 0 .. Len(e) /\ ~ (k <= k - 1)
  BY <1>0, <1>3, <1>4
<1>6. k - 1 \notin Above
  BY <1>2, <1>5
<1>7. Before(e, k - 1) \in Nat /\ ~ (x < Before(e, k - 1))
  BY <1>5, <1>6, BeforeIn
<1> QED BY <1>3, <1>5, <1>7

\* One modifier of a whole register.
LEMMA SelectOne ==
  ASSUME NEW m \in Modifiers
  PROVE  /\ <<m>> \in Seq(Modifiers)
         /\ Select(<<m>>) = [ok |-> TRUE, width |-> Width(m), offset |-> m.v]
<1>1. <<>> \in Seq(Modifiers) /\ Append(<<>>, m) = <<m>> /\ <<m>> \in Seq(Modifiers)
  OBVIOUS
<1>2. Select(<<m>>) = Narrow(Whole, m)
  BY <1>1, SelectMore, SelectNone
<1>3. m.v * 8 + Width(m) <= 32 /\ m.v \in Nat
  BY DEF Modifiers, Width
<1>4. Narrow(Whole, m) = [ok |-> m.v * 8 + Width(m) <= 32, width |-> Width(m), offset |-> m.v]
  BY <1>3 DEF Narrow, Whole
<1> QED BY <1>1, <1>2, <1>3, <1>4

\* The register GetRegname names for bytes that lie in one.
LEMMA RegnameIs ==
  ASSUME big \in BOOLEAN, NEW off \in Nat, NEW size \in {1, 2, 4}, Aligned(off, size)
  PROVE  LET name == GetRegname(off, size)
         IN  /\ name.reg = off \div 4 /\ name.reg \in Nat /\ name.mods \in Seq(Modifiers)
             /\ name = [reg |-> name.reg, mods |-> name.mods]
             /\ Select(name.mods) = [ok |-> TRUE, width |-> 8 * size,
                                     offset |-> IF big THEN 4 - (off % 4) - size ELSE off % 4]
<1> DEFINE o == off % 4
           name == GetRegname(off, size)
<1>1. o \in 0 .. 3 /\ o + size <= 4 /\ off \div 4 \in Nat
  BY DEF Aligned
<1>2. CASE size = 4
  <2>1. name = [reg |-> off \div 4, mods |-> <<>>]
    BY <1>2 DEF GetRegname
  <2>2. o = 0 /\ 4 - o - size = 0 /\ 8 * size = 32
    BY <1>1, <1>2
  <2>3. (IF big THEN 4 - o - size ELSE o) = 0
    BY <2>2
  <2>4. <<>> \in Seq(Modifiers)
    OBVIOUS
  <2> HIDE DEF o
  <2> QED BY <1>1, <2>1, <2>2, <2>3, <2>4, SelectNone DEF Whole, o
<1>3. CASE size = 2
  <2> DEFINE m == [f |-> "W", v |-> IF big THEN 2 - o ELSE o]
  <2>1. name = [reg |-> off \div 4, mods |-> <<m>>]
    BY <1>3 DEF GetRegname
  <2>2. (IF big THEN 2 - o ELSE o) \in 0 .. 2
    BY <1>1, <1>3
  <2>3. (IF big THEN 4 - o - size ELSE o) = IF big THEN 2 - o ELSE o
    BY <1>1, <1>3
  <2>4. m \in Modifiers
    BY <2>2 DEF Modifiers
  <2>5. Width(m) = 16 /\ m.v = IF big THEN 2 - o ELSE o
    BY DEF Width
  <2> HIDE DEF o, m
  <2>6. <<m>> \in Seq(Modifiers)
          /\ Select(<<m>>) = [ok |-> TRUE, width |-> Width(m), offset |-> m.v]
    BY <2>4, SelectOne
  <2>7. 8 * size = 16
    BY <1>3
  <2> DEFINE p == IF big THEN 4 - o - size ELSE o
  <2>8. p = m.v
    BY <2>3, <2>5
  <2> HIDE DEF name, p
  <2>9. name.reg = off \div 4 /\ name.mods = <<m>>
    BY <2>1
  <2>10. Select(name.mods) = [ok |-> TRUE, width |-> 8 * size, offset |-> p]
    BY <2>5, <2>6, <2>7, <2>8, <2>9
  <2> QED BY <1>1, <2>1, <2>6, <2>9, <2>10 DEF o, p, name
<1>4. CASE size = 1
  <2> DEFINE m == [f |-> "B", v |-> IF big THEN 3 - o ELSE o]
  <2>1. name = [reg |-> off \div 4, mods |-> <<m>>]
    BY <1>4 DEF GetRegname
  <2>2. (IF big THEN 3 - o ELSE o) \in 0 .. 3
    BY <1>1, <1>4
  <2>3. (IF big THEN 4 - o - size ELSE o) = IF big THEN 3 - o ELSE o
    BY <1>1, <1>4
  <2>4. m \in Modifiers
    BY <2>2 DEF Modifiers
  <2>5. Width(m) = 8 /\ m.v = IF big THEN 3 - o ELSE o
    BY DEF Width
  <2> HIDE DEF o, m
  <2>6. <<m>> \in Seq(Modifiers)
          /\ Select(<<m>>) = [ok |-> TRUE, width |-> Width(m), offset |-> m.v]
    BY <2>4, SelectOne
  <2>7. 8 * size = 8
    BY <1>4
  <2> DEFINE p == IF big THEN 4 - o - size ELSE o
  <2>8. p = m.v
    BY <2>3, <2>5
  <2> HIDE DEF name, p
  <2>9. name.reg = off \div 4 /\ name.mods = <<m>>
    BY <2>1
  <2>10. Select(name.mods) = [ok |-> TRUE, width |-> 8 * size, offset |-> p]
    BY <2>5, <2>6, <2>7, <2>8, <2>9
  <2> QED BY <1>1, <2>1, <2>6, <2>9, <2>10 DEF o, p, name
<1> QED BY <1>2, <1>3, <1>4

\* It is the field that the bytes are the lanes of.
LEMMA RegnameField ==
  ASSUME big \in BOOLEAN, NEW off \in Nat, NEW size \in {1, 2, 4}, Aligned(off, size)
  PROVE  LET field == GetRegister(GetRegname(off, size))
         IN  /\ RegisterIn(field) /\ field.width = 8 * size /\ field.reg = off \div 4
             /\ field.offset = IF big THEN 4 - (off % 4) - size ELSE off % 4
             /\ StartOff(field) = off /\ FieldLanes(field) = Lanes(off, size)
             /\ field.ok <=> off \div 4 <= LAST_REG
<1> DEFINE o == off % 4
           r == off \div 4
           name == GetRegname(off, size)
           field == GetRegister(name)
           p == IF big THEN 4 - o - size ELSE o
<1>1. o \in 0 .. 3 /\ o + size <= 4 /\ r \in Nat /\ off = 4 * r + o
  BY DEF Aligned
<1>2. /\ name.reg = r /\ name.reg \in Nat /\ name.mods \in Seq(Modifiers)
      /\ Select(name.mods) = [ok |-> TRUE, width |-> 8 * size, offset |-> p]
  BY RegnameIs
<1> HIDE DEF name
<1>3. /\ RegisterIn(field) /\ field.reg = r /\ field.width = 8 * size /\ field.offset = p
      /\ field.ok <=> r <= LAST_REG
  BY <1>2, RegisterOfName
<1>4. p \in 0 .. 3 /\ p * 8 + 8 * size <= 32
  BY <1>1
<1>5. field.offset * 8 + field.width <= 32 /\ field.width \div 8 = size
  BY <1>3, <1>4
<1>6. StartOff(field) = off
  <2> HIDE DEF o, r, field
  <2>1. CASE big
    BY <1>1, <1>3, <1>5, <2>1 DEF StartOff
  <2>2. CASE ~big
    BY <1>1, <1>3, <1>5, <2>2 DEF StartOff
  <2> QED BY <2>1, <2>2
<1> HIDE DEF field
<1>7. FieldLanes(field) = Lanes(StartOff(field), field.width \div 8)
  BY <1>3, <1>5, FieldLanesAre
<1> QED BY <1>3, <1>5, <1>6, <1>7 DEF field, name

\* What a program is told about a part of an element.
Answer(i, mod) ==
  LET name == [mapped[i] EXCEPT !.mods = Append(@, mod)]
  IN  [element |-> i, field |-> GetRegister(name), sub |-> mod,
       address |-> GetRegisterOffset(name),
       ok |-> FinalOk(mod, elements[i]),
       offset |-> GetFinalOffset(mod, i), size |-> GetFinalSize(mod)]

\* The registers an .assign may name, with one modifier or none.
RegisterNames == [reg : 0 .. LAST_REG, mods : {<<>>} \cup {<<m>> : m \in Modifiers}]

\* The part of the invariant that is about structures.
LayoutInv ==
  /\ big \in BOOLEAN /\ elements \in Seq({1, 2, 4})
  /\ rs \in RegisterNames /\ re \subseteq RegisterNames
  /\ layout \in {"none", "new", "rejected", "assigned", "asked", "used"}
  /\ layout # "none" => elements # <<>>
  /\ Assigned =>
       /\ RangeOk
       /\ \A i \in DOMAIN elements : Aligned(ElementOff(i), elements[i])
       /\ mapped = [i \in DOMAIN elements |-> GetRegname(ElementOff(i), elements[i])]
  /\ query # {} => Assigned
  /\ \A q \in query : \E i \in DOMAIN elements, mod \in Modifiers : q = Answer(i, mod)

\* The registers named in an assignment exist.
LEMMA NamedRegister ==
  ASSUME big \in BOOLEAN, NEW name \in RegisterNames
  PROVE  /\ RegisterIn(GetRegister(name)) /\ GetRegister(name).ok
         /\ First(GetRegister(name)) = StartOff(GetRegister(name))
         /\ StartOff(GetRegister(name)) \in Nat
         /\ EndOff(GetRegister(name))
              = StartOff(GetRegister(name)) + GetRegister(name).width \div 8
         /\ GetRegister(name).width \div 8 \in {1, 2, 4}
<1>1. name.reg \in Nat /\ name.reg <= LAST_REG /\ name.mods \in Seq(Modifiers)
        /\ Select(name.mods).ok
  <2>1. name.reg \in 0 .. LAST_REG /\ LAST_REG \in Nat
           /\ name.mods \in {<<>>} \cup {<<m>> : m \in Modifiers}
    BY RegisterAssumption DEF RegisterNames
  <2>2. CASE name.mods = <<>>
    <3>1. <<>> \in Seq(Modifiers)
      OBVIOUS
    <3> QED BY <2>1, <2>2, <3>1, SelectNone DEF Whole
  <2>3. ASSUME NEW m \in Modifiers, name.mods = <<m>>
        PROVE  name.mods \in Seq(Modifiers) /\ Select(name.mods).ok
    <3>1. <<m>> \in Seq(Modifiers)
            /\ Select(<<m>>) = [ok |-> TRUE, width |-> Width(m), offset |-> m.v]
      BY SelectOne
    <3>2. Select(<<m>>).ok
      BY <3>1
    <3> QED BY <2>3, <3>1, <3>2
  <2>4. name.mods \in Seq(Modifiers) /\ Select(name.mods).ok
    BY <2>1, <2>2, <2>3
  <2> QED BY <2>1, <2>4
<1> DEFINE f == GetRegister(name)
<1>2. RegisterIn(f) /\ f.ok
  BY <1>1, RegisterOfName
<1> HIDE DEF f
<1>3. f.offset * 8 + f.width <= 32
  BY <1>2 DEF RegisterIn
<1>4. First(f) = StartOff(f)
  BY <1>2, FirstIsStart
<1>5. /\ StartOff(f) \in Nat /\ EndOff(f) = StartOff(f) + f.width \div 8
      /\ f.width \div 8 \in {1, 2, 4}
  BY <1>2, <1>3, FieldLanesAre
<1> QED BY <1>2, <1>4, <1>5 DEF f

\* Where an element of an assigned structure is.
LEMMA ElementField ==
  ASSUME LayoutInv, Assigned, NEW i \in DOMAIN elements
  PROVE  LET start == StartOff(GetRegister(rs))
             field == GetRegister(mapped[i])
         IN  /\ start \in Nat /\ Offset(i) = Before(elements, i - 1) /\ Offset(i) \in Nat
             /\ ElementOff(i) = start + Offset(i) /\ ElementOff(i) \in Nat
             /\ i \in 1 .. Len(elements) /\ elements[i] \in {1, 2, 4}
             /\ Aligned(ElementOff(i), elements[i])
             /\ mapped[i] = GetRegname(ElementOff(i), elements[i])
             /\ FieldLanes(field) = Lanes(start + Offset(i), elements[i])
<1>0. big \in BOOLEAN /\ elements \in Seq({1, 2, 4}) /\ rs \in RegisterNames
  BY DEF LayoutInv
<1>1. i \in 1 .. Len(elements) /\ elements[i] \in {1, 2, 4}
  BY <1>0
<1>2. StartOff(GetRegister(rs)) \in Nat
  BY <1>0, NamedRegister
<1>3. Offset(i) = Before(elements, i - 1)
  BY DEF Offset, Before
<1>4. Offset(i) \in Nat
  BY <1>0, <1>1, <1>3, BeforeMore
<1>5. ElementOff(i) = StartOff(GetRegister(rs)) + Offset(i)
  BY DEF ElementOff
<1>6. ElementOff(i) \in Nat
  BY <1>2, <1>4, <1>5
<1>7. Aligned(ElementOff(i), elements[i]) /\ mapped[i] = GetRegname(ElementOff(i), elements[i])
  BY DEF LayoutInv
<1>8. FieldLanes(GetRegister(mapped[i])) = Lanes(ElementOff(i), elements[i])
  BY <1>0, <1>1, <1>6, <1>7, RegnameField
<1> QED BY <1>1, <1>2, <1>3, <1>4, <1>5, <1>6, <1>7, <1>8

\* The elements fill the bytes from the first register on.
LEMMA ElementsFill ==
  ASSUME big \in BOOLEAN, NEW e \in Seq({1, 2, 4}), NEW start \in Nat
  PROVE  UNION {Lanes(start + Before(e, i - 1), e[i]) : i \in DOMAIN e}
           = Lanes(start, SumFunction(e))
<1> DEFINE total == SumFunction(e)
<1>0. DOMAIN e = 1 .. Len(e) /\ Len(e) \in Nat
  OBVIOUS
<1>1. total \in Nat /\ total = Before(e, Len(e))
  <2>1. Len(e) \in 0 .. Len(e)
    BY <1>0
  <2> QED BY <2>1, BeforeIn, BeforeAll
<1> HIDE DEF total
<1>2. ASSUME NEW i \in DOMAIN e, NEW l \in Lanes(start + Before(e, i - 1), e[i])
      PROVE  l \in Lanes(start, total)
  <2>1. i \in 1 .. Len(e)
    BY <1>0
  <2>2. Before(e, i - 1) \in Nat /\ e[i] \in {1, 2, 4} /\ Before(e, i) = Before(e, i - 1) + e[i]
    BY <2>1, BeforeMore
  <2>3. Before(e, i) <= total
    <3>1. i \in 0 .. Len(e) /\ Len(e) \in i .. Len(e)
      BY <1>0, <2>1
    <3> QED BY <1>1, <3>1, BeforeGrows
  <2> DEFINE b == Before(e, i - 1)
             n == e[i]
  <2>4. PICK a \in start + b .. start + b + n - 1 : l = Lane(a)
    BY DEF Lanes
  <2>5. a \in start .. start + total - 1
    BY <2>2, <2>3, <1>1
  <2> QED BY <2>4, <2>5 DEF Lanes
<1>3. ASSUME NEW l \in Lanes(start, total)
      PROVE  \E i \in DOMAIN e : l \in Lanes(start + Before(e, i - 1), e[i])
  <2>1. PICK a \in start .. start + total - 1 : l = Lane(a)
    BY DEF Lanes
  <2>2. a - start \in Nat /\ a - start < total
    BY <1>1
  <2>3. PICK i \in 1 .. Len(e) : Before(e, i - 1) <= a - start /\ a - start < Before(e, i)
    BY <2>2, BeforeCovers DEF total
  <2>4. Before(e, i - 1) \in Nat /\ e[i] \in {1, 2, 4} /\ Before(e, i) = Before(e, i - 1) + e[i]
    BY BeforeMore
  <2> DEFINE b == Before(e, i - 1)
             n == e[i]
  <2>5. a \in start + b .. start + b + n - 1
    <3>1. b \in Nat /\ n \in Nat /\ b <= a - start /\ a - start < b + n /\ a \in Int
      BY <1>1, <2>1, <2>3, <2>4
    <3> HIDE DEF b, n
    <3> QED BY <3>1
  <2>6. l \in Lanes(start + b, n)
    BY <2>1, <2>5 DEF Lanes
  <2> QED BY <1>0, <2>6
<1> QED BY <1>2, <1>3 DEF total

\* The lanes of a range, by its end.
LEMMA LanesTo ==
  ASSUME NEW first \in Int, NEW n \in Int, NEW z \in Int, first + n = z
  PROVE  Lanes(first, n) = {Lane(a) : a \in first .. z - 1}
<1> DEFINE A == Lanes(first, n)
           B == {Lane(a) : a \in first .. z - 1}
<1>1. first .. first + n - 1 = first .. z - 1
  OBVIOUS
<1>2. \A l : l \in A <=> \E a \in first .. z - 1 : l = Lane(a)
  BY <1>1 DEF Lanes
<1>3. \A l : l \in B <=> \E a \in first .. z - 1 : l = Lane(a)
  OBVIOUS
<1>4. A = B
  <2> HIDE DEF A, B
  <2> QED BY <1>2, <1>3
<1> QED BY <1>4

\* Elements take the lanes of their bytes: InMemoryOrder.
LEMMA LayoutInOrder == LayoutInv => InMemoryOrder
<1> SUFFICES ASSUME LayoutInv, Assigned PROVE InMemoryOrder
  BY DEF InMemoryOrder
<1> DEFINE start == StartOff(GetRegister(rs))
           Of(i) == FieldLanes(GetRegister(mapped[i]))
<1>1. big \in BOOLEAN /\ elements \in Seq({1, 2, 4}) /\ rs \in RegisterNames
        /\ re \subseteq RegisterNames /\ RangeOk
  BY DEF LayoutInv
<1>2. First(GetRegister(rs)) = start /\ start \in Nat
  BY <1>1, NamedRegister
<1>3. ASSUME NEW i \in DOMAIN elements
      PROVE  Of(i) = Lanes(start + Offset(i), elements[i]) /\ Offset(i) = Before(elements, i - 1)
  BY <1>3, ElementField
<1> HIDE DEF start, Of
<1>4. ASSUME NEW last \in re
      PROVE  UNION {Of(i) : i \in DOMAIN elements}
               = {Lane(a) : a \in
                     start .. First(GetRegister(last)) + GetRegister(last).width \div 8 - 1}
  <2>1. UNION {Of(i) : i \in DOMAIN elements} = Lanes(start, SumFunction(elements))
    <3>1. \A i \in DOMAIN elements : Of(i) = Lanes(start + Before(elements, i - 1), elements[i])
      BY <1>3
    <3>2. UNION {Lanes(start + Before(elements, i - 1), elements[i]) : i \in DOMAIN elements}
            = Lanes(start, SumFunction(elements))
      BY <1>1, <1>2, ElementsFill
    <3> QED BY <3>1, <3>2
  <2>2. start + SumFunction(elements) = EndOff(GetRegister(last))
    BY <1>1 DEF RangeOk, TotalSize, start
  <2>3. EndOff(GetRegister(last)) = First(GetRegister(last)) + GetRegister(last).width \div 8
    BY <1>1, NamedRegister
  <2>4. PICK z : z = First(GetRegister(last)) + GetRegister(last).width \div 8
    OBVIOUS
  <2>5. start + SumFunction(elements) = z /\ z \in Int /\ SumFunction(elements) \in Int
    <3>1. Len(elements) \in 0 .. Len(elements)
      BY <1>1
    <3>2. SumFunction(elements) \in Nat
      BY <1>1, <3>1, BeforeIn, BeforeAll
    <3> QED BY <1>2, <2>2, <2>3, <2>4, <3>2
  <2>6. Lanes(start, SumFunction(elements)) = {Lane(a) : a \in start .. z - 1}
    BY <1>2, <2>5, LanesTo
  <2>7. {Lane(a) : a \in start .. z - 1}
           = {Lane(a) : a \in
                     start .. First(GetRegister(last)) + GetRegister(last).width \div 8 - 1}
    <3>1. start .. z - 1 = start .. First(GetRegister(last)) + GetRegister(last).width \div 8 - 1
      <4>1. First(GetRegister(last)) \in Nat /\ GetRegister(last).width \div 8 \in {1, 2, 4}
        <5>1. First(GetRegister(last)) = StartOff(GetRegister(last))
                /\ StartOff(GetRegister(last)) \in Nat
                     /\ GetRegister(last).width \div 8 \in {1, 2, 4}
          BY <1>1, NamedRegister
        <5> QED BY <5>1
      <4> QED BY <2>4, <4>1
    <3> QED BY <3>1, Zenon
  <2> QED BY <2>1, <2>6, <2>7
<1> QED BY <1>2, <1>3, <1>4 DEF InMemoryOrder, Of

\* Where an aligned element lies in its word.
LEMMA AlignedParts ==
  ASSUME NEW off \in Nat, NEW size \in {1, 2, 4}, Aligned(off, size)
  PROVE  /\ off % 4 \in 0 .. 3 /\ (off % 4) + size <= 4
         /\ off = 4 * (off \div 4) + (off % 4) /\ off \div 4 \in Nat
<1>1. (off % 4) + size <= 4
  BY DEF Aligned
<1> QED BY <1>1

\* A part of an element means the same bytes in every way it is referred to.
LEMMA LayoutAgrees == LayoutInv => ReferencesAgree
<1> SUFFICES ASSUME LayoutInv, NEW q \in query, Exists(q.element)
             PROVE  /\ q.ok <=> q.field.ok
                    /\ q.ok => LET start == First(GetRegister(rs))
                               IN  /\ q.address = start + q.offset
                                   /\ FieldLanes(q.field) = Lanes(start + q.offset, q.size)
  BY DEF ReferencesAgree
<1>1. PICK i \in DOMAIN elements, mod \in Modifiers : q = Answer(i, mod)
  BY DEF LayoutInv
<1>2. Assigned /\ big \in BOOLEAN /\ rs \in RegisterNames
  BY DEF LayoutInv
<1> DEFINE start == StartOff(GetRegister(rs))
           name == [mapped[i] EXCEPT !.mods = Append(@, mod)]
           field == GetRegister(name)
           e == elements[i]
           off == ElementOff(i)
           o == off % 4
           p == IF big THEN 4 - o - e ELSE o
           w == Width(mod)
           v == mod.v
<1>3. First(GetRegister(rs)) = start
  BY <1>2, NamedRegister
<1>4. /\ start \in Nat /\ Offset(i) \in Nat /\ off = start + Offset(i) /\ off \in Nat
      /\ e \in {1, 2, 4} /\ Aligned(off, e) /\ mapped[i] = GetRegname(off, e)
  BY <1>2, ElementField
<1> HIDE DEF start, off, e
<1>5. /\ mapped[i].reg = off \div 4 /\ mapped[i].reg \in Nat /\ mapped[i].mods \in Seq(Modifiers)
      /\ mapped[i] = [reg |-> mapped[i].reg, mods |-> mapped[i].mods]
      /\ Select(mapped[i].mods) = [ok |-> TRUE, width |-> 8 * e, offset |-> p]
  <2> DEFINE n == GetRegname(off, e)
  <2>1. /\ n.reg = off \div 4 /\ n.reg \in Nat /\ n.mods \in Seq(Modifiers)
        /\ n = [reg |-> n.reg, mods |-> n.mods]
        /\ Select(n.mods) = [ok |-> TRUE, width |-> 8 * e, offset |-> p]
    BY <1>2, <1>4, RegnameIs
  <2>2. n = mapped[i]
    BY <1>4
  <2> HIDE DEF n, p
  <2> QED BY <2>1, <2>2
<1>6. name.reg = off \div 4 /\ name.mods = Append(mapped[i].mods, mod)
  BY <1>5
<1>7. name.mods \in Seq(Modifiers) /\ name.reg \in Nat
  BY <1>5, <1>6
<1>8. o \in 0 .. 3 /\ o + e <= 4 /\ off = 4 * (off \div 4) + o /\ off \div 4 \in Nat
  BY <1>4, AlignedParts
<1>9. p \in 0 .. 3 /\ p + e <= 4
  <2>2. o \in 0 .. 3 /\ o + e <= 4 /\ e \in {1, 2, 4}
    BY <1>4, <1>8
  <2>1. 4 - o - e \in 0 .. 3 /\ (4 - o - e) + e <= 4
    <3> HIDE DEF o
    <3> QED BY <2>2
  <2>3. p = 4 - o - e \/ p = o
    OBVIOUS
  <2> HIDE DEF p, o
  <2> QED BY <2>1, <2>2, <2>3
<1>10. w \in {8, 16} /\ v \in 0 .. 3
  BY DEF Modifiers, Width
<1>p. p = IF big THEN 4 - o - e ELSE o
  OBVIOUS
<1> HIDE DEF o, p, name
<1>11. Select(name.mods) = [ok |-> v * 8 + w <= 8 * e, width |-> w, offset |-> p + v]
  <2>1. Select(name.mods) = Narrow(Select(mapped[i].mods), mod)
    BY <1>5, <1>6, SelectMore
  <2> QED BY <2>1, <1>5, <1>10 DEF Narrow
<1>12. /\ RegisterIn(field) /\ field.reg = off \div 4 /\ field.width = w /\ field.offset = p + v
       /\ field.ok <=> (v * 8 + w <= 8 * e) /\ off \div 4 <= LAST_REG
  <2>1. /\ RegisterIn(GetRegister(name)) /\ GetRegister(name).reg = name.reg
        /\ GetRegister(name).width = Select(name.mods).width
        /\ GetRegister(name).offset = Select(name.mods).offset
        /\ GetRegister(name).ok <=> Select(name.mods).ok /\ name.reg <= LAST_REG
    BY <1>7, RegisterOfName
  <2>2. Select(name.mods).width = w /\ Select(name.mods).offset = p + v
          /\ (Select(name.mods).ok <=> v * 8 + w <= 8 * e)
    <3> HIDE DEF w, v
    <3> DEFINE fits == v * 8 + w <= 8 * e
    <3>1. Select(name.mods) = [ok |-> fits, width |-> w, offset |-> p + v]
      BY <1>11
    <3>2. fits \in BOOLEAN
      OBVIOUS
    <3> HIDE DEF fits
    <3>3. Select(name.mods).width = w /\ Select(name.mods).offset = p + v
             /\ Select(name.mods).ok = fits
      BY <3>1
    <3> QED BY <3>2, <3>3 DEF fits
  <2> QED BY <2>1, <2>2, <1>6
<1> HIDE DEF field, w, v
<1>13. q.ok <=> v * 8 + w <= 8 * e
  <2>1. q.ok <=> v + w \div 8 <= e
    BY <1>1 DEF Answer, FinalOk, v, w, e
  <2> QED BY <2>1, <1>4, <1>10
<1>14. q.field = field /\ q.address = GetRegisterOffset(name) /\ q.size = w \div 8
  BY <1>1 DEF Answer, GetFinalSize, w, field, name
<1>15. q.offset = Offset(i) + IF big THEN e - v - w \div 8 ELSE v
  BY <1>1 DEF Answer, GetFinalOffset, GetFinalSize, w, v, e
<1>16. off \div 4 <= LAST_REG
  <2>1. q.element = i
    BY <1>1 DEF Answer
  <2> QED BY <2>1, <1>5 DEF Exists
<1>17. q.ok <=> q.field.ok
  BY <1>12, <1>13, <1>14, <1>16
<1>18. ASSUME q.ok
       PROVE  q.address = start + q.offset /\ FieldLanes(q.field) = Lanes(start + q.offset, q.size)
  <2>1. field.offset * 8 + field.width <= 32
    BY <1>12, <1>17, <1>18, <1>14 DEF RegisterIn
  <2>2. FieldLanes(field) = Lanes(StartOff(field), w \div 8)
    BY <2>1, <1>2, <1>12, FieldLanesAre
  <2>3. StartOff(field) = 4 * (off \div 4) + IF big THEN 4 - (p + v) - w \div 8 ELSE p + v
    BY <1>12 DEF StartOff
  <2>4. q.address = StartOff(field)
    BY <1>14 DEF GetRegisterOffset, StartOff, field
  <2>5. start + q.offset = StartOff(field)
    <3>1. CASE big
      BY <2>3, <3>1, <1>4, <1>8, <1>10, <1>15, <1>p
    <3>2. CASE ~big
      BY <2>3, <3>2, <1>4, <1>8, <1>10, <1>15, <1>p
    <3> QED BY <3>1, <3>2, <1>2
  <2> QED BY <2>2, <2>4, <2>5, <1>14
<1> QED BY <1>3, <1>17, <1>18

\* The opcodes of the arithmetic group.
LEMMA ArithmeticOpcodes ==
  Range(Arithmetic) = {"ADD", "ADC", "SUB", "SUC", "LSL", "LSR", "RSB", "RSC", "AND",
                       "OR", "XOR", "NOT", "MIN", "MAX", "CLR", "SET"}
<1>1. DOMAIN Arithmetic = {1, 2, 3, 4, 5, 6, 7, 8, 9, 10, 11, 12, 13, 14, 15, 16}
  BY DEF Arithmetic
<1>2. Range(Arithmetic) = {Arithmetic[k] :
        k \in {1, 2, 3, 4, 5, 6, 7, 8, 9, 10, 11, 12, 13, 14, 15, 16}}
  BY <1>1 DEF Range
<1> QED BY <1>2 DEF Arithmetic

\* The instructions properties are about, taken apart.
LEMMA OfZero ==
  ASSUME NEW i, i.op = "ZERO"
  PROVE  Legal(i) <=> ZeroOk(i)
<1>1. i.op \notin Range(Arithmetic)
  BY ArithmeticOpcodes
<1>2. ZeroOk(i) \in BOOLEAN
  BY DEF ZeroOk
<1> QED BY <1>1, <1>2 DEF Legal, Bursts, Branches

\* What Legal and Forms are of a burst, of an MVI and of a MOV: the arms of ProcessOp.
LEMMA OfBurst ==
  ASSUME NEW i, i.op \in Bursts
  PROVE  (Legal(i) <=> BurstOk(i)) /\ Forms(i) = <<BurstForm(i)>>
<1>1. i.op \notin Range(Arithmetic)
  BY ArithmeticOpcodes DEF Bursts
<1>2. BurstOk(i) \in BOOLEAN
  BY DEF BurstOk
<1>3. Legal(i) = BurstOk(i)
  <2>1. CASE i.op = "LBBO"
    BY <1>1, <2>1 DEF Legal, Bursts, Branches
  <2>2. CASE i.op = "SBBO"
    BY <1>1, <2>2 DEF Legal, Bursts, Branches
  <2>3. CASE i.op = "LBCO"
    BY <1>1, <2>3 DEF Legal, Bursts, Branches
  <2>4. CASE i.op = "SBCO"
    BY <1>1, <2>4 DEF Legal, Bursts, Branches
  <2> QED BY <2>1, <2>2, <2>3, <2>4 DEF Bursts
<1>4. Forms(i) = <<BurstForm(i)>>
  BY <1>1 DEF Forms, Bursts, Branches
<1> QED BY <1>3, <1>4

\* The same of an MVI.
LEMMA OfMvi ==
  ASSUME NEW i, i.op \in {"MVIB", "MVIW", "MVID"}
  PROVE  (Legal(i) <=> MviOk(i)) /\ Forms(i) = MviForms(i)
<1>1. i.op \notin Range(Arithmetic)
  BY ArithmeticOpcodes
<1>2. MviOk(i) \in BOOLEAN
  BY DEF MviOk
<1>3. Legal(i) = MviOk(i)
  <2>1. CASE i.op = "MVIB"
    BY <1>1, <2>1 DEF Legal, Bursts, Branches
  <2>2. CASE i.op = "MVIW"
    BY <1>1, <2>2 DEF Legal, Bursts, Branches
  <2>3. CASE i.op = "MVID"
    BY <1>1, <2>3 DEF Legal, Bursts, Branches
  <2> QED BY <2>1, <2>2, <2>3
<1>4. Forms(i) = MviForms(i)
  BY <1>1 DEF Forms, Bursts, Branches
<1> QED BY <1>3, <1>4

\* The same of a MOV.
LEMMA OfMov ==
  ASSUME NEW i, i.op = "MOV"
  PROVE  (Legal(i) <=> MovOk(i)) /\ Forms(i) = MovForms(i)
<1>1. i.op \notin Range(Arithmetic)
  BY ArithmeticOpcodes
<1>2. MovOk(i) \in BOOLEAN
  BY DEF MovOk
<1>3. Legal(i) = MovOk(i)
  BY <1>1, <1>2 DEF Legal, Bursts, Branches
<1>4. Forms(i) = MovForms(i)
  BY <1>1 DEF Forms, Bursts, Branches
<1> QED BY <1>3, <1>4

\* The lanes a form names are those of the field it was made from.
LEMMA FormLanesAre ==
  ASSUME NEW f, RegisterIn(f), f.offset * 8 + f.width <= 32,
         NEW x, x.n = f.reg, x.f = FieldType(f)
  PROVE  FormLanes(x) = FieldLanes(f)
<1>0. f \in [ok : BOOLEAN, reg : Nat, width : {8, 16, 32}, offset : Nat]
  BY DEF RegisterIn
<1>1. f.width \in {8, 16, 32} /\ f.offset \in Nat /\ f.reg \in Nat
  BY <1>0
<1> DEFINE o == f.offset
           w == f.width
           r == f.reg
<1>2. CASE w = 8
  <2>1. x.f = o /\ o \in 0 .. 3
    BY <1>1, <1>2 DEF FieldType
  <2>2. FormLanes(x) = {4 * x.n + o + k : k \in 0 .. 1 - 1}
    BY <2>1 DEF FormLanes
  <2>3. w \div 8 = 1
    BY <1>2
  <2> QED BY <2>2, <2>3 DEF FieldLanes
<1>3. CASE w = 16
  <2>1. x.f = 4 + o /\ o \in 0 .. 2
    BY <1>1, <1>3 DEF FieldType
  <2>2. FormLanes(x) = {4 * x.n + (4 + o - 4) + k : k \in 0 .. 2 - 1}
    BY <2>1 DEF FormLanes
  <2>3. w \div 8 = 2 /\ 4 + o - 4 = o
    BY <1>3, <2>1
  <2> QED BY <2>2, <2>3 DEF FieldLanes
<1>4. CASE w = 32
  <2>1. x.f = 7 /\ o = 0
    BY <1>1, <1>4 DEF FieldType
  <2>2. FormLanes(x) = {4 * x.n + 0 + k : k \in 0 .. 4 - 1}
    BY <2>1 DEF FormLanes
  <2>3. w \div 8 = 4
    BY <1>4
  <2> QED BY <2>1, <2>2, <2>3 DEF FieldLanes
<1> QED BY <1>1, <1>2, <1>3, <1>4

\* The field at an address has the lanes of the bytes there.
LEMMA Offset2RegIs ==
  ASSUME big \in BOOLEAN, NEW addr \in Nat, NEW size \in {1, 2, 4}, Aligned(addr, size)
  PROVE  LET field == GetRegister(GetRegname(addr, size))
         IN  /\ Offset2Reg(addr, size) = [t |-> "reg", n |-> field.reg, f |-> FieldType(field)]
             /\ FormLanes(Offset2Reg(addr, size)) = Lanes(addr, size)
<1> DEFINE name == GetRegname(addr, size)
           field == GetRegister(name)
           x == Offset2Reg(addr, size)
           p == IF big THEN 4 - (addr % 4) - size ELSE addr % 4
           cut == [width |-> 8 * size, offset |-> p]
<1>1. /\ RegisterIn(field) /\ field.width = 8 * size /\ field.reg = addr \div 4
      /\ field.offset = p /\ FieldLanes(field) = Lanes(addr, size)
  BY RegnameField
<1>2. p * 8 + 8 * size <= 32
  BY DEF Aligned
<1>3. x = [t |-> "reg", n |-> addr \div 4, f |-> FieldType(cut)]
  BY DEF Offset2Reg
<1> HIDE DEF field, p, x
<1>4. cut.width = field.width /\ cut.offset = field.offset
  BY <1>1
<1> HIDE DEF cut
<1>5. FieldType(cut) = FieldType(field)
  BY <1>4 DEF FieldType
<1>6. x = [t |-> "reg", n |-> field.reg, f |-> FieldType(field)]
  BY <1>1, <1>3, <1>5
<1>7. FormLanes(x) = FieldLanes(field)
  <2>1. x.n = field.reg /\ x.f = FieldType(field)
    BY <1>6
  <2> QED BY <1>1, <1>2, <2>1, FormLanesAre
<1> QED BY <1>1, <1>6, <1>7 DEF x, field

\* What an operand may be.
LEMMA ArgumentIs ==
  ASSUME NEW a \in Arguments
  PROVE  /\ a.k \in Kinds /\ a.reg \in Nat /\ a.mods \in Seq(Modifiers) /\ a.v \in Int
         /\ RegisterIn(GetRegister(a)) /\ GetRegister(a).reg = a.reg
<1>1. a.k \in Kinds /\ a.reg \in Nat /\ a.mods \in Seq(Modifiers) /\ a.v \in Int
  BY DEF Arguments
<1> QED BY <1>1, RegisterOfName

\* A field that is accepted lies in a register that exists.
LEMMA NameIsOk ==
  ASSUME NEW a \in Arguments, NEW limit, NameOk(a, limit)
  PROVE  LET f == GetRegister(a) IN f.offset * 8 + f.width <= 32 /\ f.ok
<1>1. RegisterIn(GetRegister(a))
  BY ArgumentIs
<1> QED BY <1>1 DEF NameOk, RegisterIn

\* An address is a number.
LEMMA ValueIs ==
  ASSUME big \in BOOLEAN, NEW a \in Arguments
  PROVE  Value(a) \in Int /\ GetRegisterOffset(a) \in Int
           /\ GetRegisterOffset(a) = StartOff(GetRegister(a))
<1> DEFINE f == GetRegister(a)
<1>1. RegisterIn(f) /\ a.v \in Int
  BY ArgumentIs
<1> HIDE DEF f
<1>2. f \in [ok : BOOLEAN, reg : Nat, width : {8, 16, 32}, offset : Nat]
  BY <1>1 DEF RegisterIn
<1>3. f.width \in {8, 16, 32} /\ f.offset \in Nat /\ f.reg \in Nat
  BY <1>2
<1>4. StartOff(f) \in Int
  BY <1>3 DEF StartOff
<1>5. GetRegisterOffset(a) = StartOff(f)
  BY DEF GetRegisterOffset, StartOff, f
<1> QED BY <1>1, <1>4, <1>5 DEF Value, f

\* ZERO clears a register, two bytes of one, or one, within its range.
LEMMA PieceIs ==
  ASSUME NEW off \in Nat, NEW len \in Nat \ {0}
  PROVE  Piece(off, len) \in {1, 2, 4} /\ Piece(off, len) <= len /\ Aligned(off, Piece(off, len))
<1> DEFINE o == off % 4
<1>1. o \in 0 .. 3
  OBVIOUS
<1> HIDE DEF o
<1>2. CASE o = 0 /\ len >= 4
  <2>1. Piece(off, len) = 4
    BY <1>2 DEF Piece, o
  <2> QED BY <1>2, <2>1 DEF Aligned, o
<1>3. CASE o # 3 /\ len >= 2 /\ ~ (o = 0 /\ len >= 4)
  <2>1. Piece(off, len) = 2
    BY <1>3 DEF Piece, o
  <2>2. o + 2 <= 4
    BY <1>1, <1>3
  <2> QED BY <1>3, <2>1, <2>2 DEF Aligned, o
<1>4. CASE ~ (o = 0 /\ len >= 4) /\ ~ (o # 3 /\ len >= 2)
  <2>1. Piece(off, len) = 1
    BY <1>4 DEF Piece, o
  <2>2. o + 1 <= 4
    BY <1>1
  <2> QED BY <2>1, <2>2 DEF Aligned, o
<1> QED BY <1>2, <1>3, <1>4

\* A lane in either byte order.
LaneIn(b, a) == IF b THEN 4 * (a \div 4) + 3 - (a % 4) ELSE a

\* The words of ZERO have cleared the bytes from first to the one before at, each once.
Cleared(b, first, at, ws) ==
  /\ UNION {FormLanes(w.form.x[1]) : w \in Range(ws)} = {LaneIn(b, a) : a \in first .. at - 1}
  /\ \A j, k \in DOMAIN ws :
       j # k => FormLanes(ws[j].form.x[1]) \cap FormLanes(ws[k].form.x[1]) = {}

\* Lanes are told apart.
LEMMA LaneInDiffers ==
  ASSUME NEW b \in BOOLEAN, NEW a \in Nat, NEW c \in Nat, LaneIn(b, a) = LaneIn(b, c)
  PROVE  a = c
<1>1. CASE b
  <2> DEFINE q == a \div 4  r == a % 4  s == c \div 4  t == c % 4
  <2>1. q \in Nat /\ s \in Nat /\ r \in 0 .. 3 /\ t \in 0 .. 3 /\ a = 4 * q + r /\ c = 4 * s + t
    OBVIOUS
  <2>2. 4 * q + 3 - r = 4 * s + 3 - t
    BY <1>1 DEF LaneIn
  <2> HIDE DEF q, r, s, t
  <2> QED BY <2>1, <2>2
<1>2. CASE ~b
  BY <1>2 DEF LaneIn
<1> QED BY <1>1, <1>2

\* Nothing is cleared before the first word.
LEMMA ClearedNone ==
  ASSUME NEW b, NEW first \in Nat
  PROVE  Cleared(b, first, first, <<>>)
<1>1. Range(<<>>) = {}
  BY DEF Range
<1>2. first .. first - 1 = {}
  OBVIOUS
<1> QED BY <1>1, <1>2 DEF Cleared

\* One more word clears the bytes that come next.
LEMMA ClearedMore ==
  ASSUME NEW b \in BOOLEAN, NEW first \in Nat, NEW at \in Nat, first <= at, NEW size \in Nat,
         NEW S, NEW ws \in Seq(S), NEW w, Cleared(b, first, at, ws),
         FormLanes(w.form.x[1]) = {LaneIn(b, a) : a \in at .. at + size - 1}
  PROVE  Cleared(b, first, at + size, Append(ws, w))
<1> DEFINE L(v) == FormLanes(v.form.x[1])
           n == Len(ws)
           next == Append(ws, w)
<1>1. /\ n \in Nat /\ DOMAIN ws = 1 .. n /\ DOMAIN next = 1 .. n + 1
      /\ \A k \in 1 .. n : next[k] = ws[k]
      /\ next[n + 1] = w
  OBVIOUS
<1> HIDE DEF next, n
<1>2. Range(next) = Range(ws) \cup {w}
  <2>1. \A v : v \in Range(next) <=> \E k \in 1 .. n + 1 : v = next[k]
    BY <1>1 DEF Range
  <2>2. \A v : v \in Range(ws) <=> \E k \in 1 .. n : v = ws[k]
    BY <1>1 DEF Range
  <2>3. 1 .. n + 1 = (1 .. n) \cup {n + 1}
    BY <1>1
  <2> QED BY <1>1, <2>1, <2>2, <2>3
<1>3. UNION {L(v) : v \in Range(ws)} = {LaneIn(b, a) : a \in first .. at - 1}
        /\ \A j, k \in DOMAIN ws : j # k => L(ws[j]) \cap L(ws[k]) = {}
  BY DEF Cleared
<1>4. L(w) = {LaneIn(b, a) : a \in at .. at + size - 1}
  OBVIOUS
<1> HIDE DEF L
<1> DEFINE Sofar == UNION {L(v) : v \in Range(ws)}
           Grown == UNION {L(v) : v \in Range(next)}
<1>11. \A l : l \in Sofar <=> \E v \in Range(ws) : l \in L(v)
  OBVIOUS
<1>12. \A l : l \in Grown <=> \E v \in Range(next) : l \in L(v)
  OBVIOUS
<1>13. Sofar = {LaneIn(b, a) : a \in first .. at - 1}
  BY <1>3
<1> HIDE DEF Sofar, Grown
<1>5. Grown = {LaneIn(b, a) : a \in first .. at + size - 1}
  <2>1. Grown = Sofar \cup L(w)
    BY <1>2, <1>11, <1>12
  <2>2. first .. at + size - 1 = (first .. at - 1) \cup (at .. at + size - 1)
    OBVIOUS
  <2>3. {LaneIn(b, a) : a \in first .. at + size - 1}
          = {LaneIn(b, a) : a \in first .. at - 1} \cup {LaneIn(b, a) : a \in at .. at + size - 1}
    BY <2>2
  <2> QED BY <1>4, <1>13, <2>1, <2>3
<1>6. \A k \in 1 .. n : L(ws[k]) \cap L(w) = {}
  <2> SUFFICES ASSUME NEW k \in 1 .. n, NEW l \in L(ws[k]) \cap L(w) PROVE FALSE
    OBVIOUS
  <2>1. ws[k] \in Range(ws)
    BY <1>1 DEF Range
  <2>2. l \in {LaneIn(b, a) : a \in first .. at - 1}
    BY <1>11, <1>13, <2>1
  <2>3. PICK a \in first .. at - 1 : l = LaneIn(b, a)
    BY <2>2
  <2>4. PICK c \in at .. at + size - 1 : l = LaneIn(b, c)
    BY <1>4
  <2>5. a \in Nat /\ c \in Nat /\ a < c
    OBVIOUS
  <2>6. a = c
    BY <2>3, <2>4, <2>5, LaneInDiffers
  <2> QED BY <2>5, <2>6
<1>7. ASSUME NEW j \in DOMAIN next, NEW k \in DOMAIN next, j # k
      PROVE  L(next[j]) \cap L(next[k]) = {}
  <2>1. CASE j \in 1 .. n /\ k \in 1 .. n
    BY <1>1, <1>3, <1>7, <2>1
  <2>2. CASE j = n + 1
    <3>1. k \in 1 .. n
      BY <1>1, <1>7, <2>2
    <3> QED BY <1>1, <1>6, <2>2, <3>1
  <2>3. CASE k = n + 1
    <3>1. j \in 1 .. n
      BY <1>1, <1>7, <2>3
    <3> QED BY <1>1, <1>6, <2>3, <3>1
  <2>4. j \in (1 .. n) \cup {n + 1} /\ k \in (1 .. n) \cup {n + 1}
    BY <1>1
  <2> QED BY <2>1, <2>2, <2>3, <2>4
<1>8. UNION {FormLanes(v.form.x[1]) : v \in Range(next)}
        = {LaneIn(b, a) : a \in first .. at + size - 1}
  BY <1>5 DEF L, Grown
<1>9. \A j, k \in DOMAIN next :
        j # k => FormLanes(next[j].form.x[1]) \cap FormLanes(next[k].form.x[1]) = {}
  BY <1>7 DEF L
<1>10. Cleared(b, first, at + size, next)
  <2>1. UNION {FormLanes(v.form.x[1]) : v \in Range(next)}
          = {LaneIn(b, a) : a \in first .. (at + size) - 1}
    <3>1. at + size - 1 = (at + size) - 1
      OBVIOUS
    <3> QED BY <1>8, <3>1
  <2> QED BY <1>9, <2>1 DEF Cleared
<1> QED BY <1>10 DEF next

\* Reading depends on the byte order, the core and the instruction only.
LEMMA ReadingKept ==
  ASSUME big' = big, core' = core, inst' = inst
  PROVE  /\ BurstOk(inst)' = BurstOk(inst) /\ BurstForm(inst)' = BurstForm(inst)
         /\ MviOk(inst)' = MviOk(inst)
         /\ MovOk(inst)' = MovOk(inst) /\ MovForms(inst)' = MovForms(inst)
         /\ ZeroOk(inst)' = ZeroOk(inst)
         /\ Value(inst.a[1])' = Value(inst.a[1]) /\ Value(inst.a[2])' = Value(inst.a[2])
<1>1. \A a : Value(a)' = Value(a)
  BY DEF Value, GetRegisterOffset
<1>2. \A a, m : NameOk(a, m)' = NameOk(a, m)
  BY DEF NameOk
<1>3. \A a : RegOk(a)' = RegOk(a)
  BY <1>2 DEF RegOk
<1>4. \A a, m, n : ImOk(a, m, n)' = ImOk(a, m, n)
  BY <1>1, <1>2 DEF ImOk
<1>5. \A a, m : OpOk(a, m)' = OpOk(a, m)
  BY <1>3, <1>4 DEF OpOk
<1>6. \A a : Operand(a)' = Operand(a)
  BY <1>1 DEF Operand
<1>7. BurstOk(inst)' = BurstOk(inst)
  BY <1>3, <1>4, <1>5 DEF BurstOk
<1>8. BurstForm(inst)' = BurstForm(inst)
  BY <1>1, <1>6 DEF BurstForm, Start, StartByte
<1>9. \A a, s : MviArgOk(a, s)' = MviArgOk(a, s)
  BY <1>2, <1>3 DEF MviArgOk, GetRegisterOffset
<1>10. MviOk(inst)' = MviOk(inst)
  BY <1>9 DEF MviOk
<1>11. MovOk(inst)' = MovOk(inst)
  BY <1>3, <1>4 DEF MovOk
<1>12. MovForms(inst)' = MovForms(inst)
  BY <1>1 DEF MovForms
<1>13. ZeroOk(inst)' = ZeroOk(inst)
  BY <1>1, <1>4 DEF ZeroOk
<1> QED BY <1>1, <1>7, <1>8, <1>10, <1>11, <1>12, <1>13

\* ZERO while it clears, and when it has: what is left of its range.
Clearing ==
  LET first == Value(inst.a[1])
  IN  /\ first \in Nat /\ rest[1] \in Nat /\ rest[2] \in Nat /\ first <= rest[1]
      /\ rest[1] + rest[2] = first + Value(inst.a[2])
      /\ Cleared(big, first, rest[1], words)

\* The part of the invariant that is about instructions.
OpInv ==
  /\ core \in Cores /\ inst.a \in Seq(Arguments) /\ inst = [op |-> inst.op, a |-> inst.a]
  /\ state \in {"none", "read", "clear", "done", "rejected"}
  /\ state \in {"none", "read"} => words = <<>>
  /\ state = "clear" => inst.op = "ZERO"
  /\ state \in {"clear", "done"} /\ inst.op = "ZERO" => Clearing /\ \E S : words \in Seq(S)
  /\ state = "done" =>
       /\ inst.op \in Bursts => BurstOk(inst) /\ words[1].form = BurstForm(inst)
       /\ inst.op \in {"MVIB", "MVIW", "MVID"} => MviOk(inst)
       /\ inst.op = "MOV" =>
            /\ MovOk(inst)
            /\ words = [k \in DOMAIN MovForms(inst) |->
                          [form |-> MovForms(inst)[k], bits |-> Encode(MovForms(inst)[k])]]

\* What is not changed keeps its part of the invariant.
LEMMA OpInvKept ==
  ASSUME OpInv, UNCHANGED <<big, opVars>>
  PROVE  OpInv'
<1>1. big' = big /\ core' = core /\ inst' = inst /\ state' = state /\ rest' = rest /\ words' = words
  BY DEF opVars
<1>2. Clearing' = Clearing
  <2>1. Value(inst.a[1])' = Value(inst.a[1]) /\ Value(inst.a[2])' = Value(inst.a[2])
    BY <1>1, ReadingKept
  <2> QED BY <1>1, <2>1 DEF Clearing
<1>3. /\ BurstOk(inst)' = BurstOk(inst) /\ BurstForm(inst)' = BurstForm(inst)
      /\ MviOk(inst)' = MviOk(inst)
      /\ MovOk(inst)' = MovOk(inst) /\ MovForms(inst)' = MovForms(inst)
  BY <1>1, ReadingKept
<1> QED BY <1>1, <1>2, <1>3 DEF OpInv

\* Reject: nothing is generated.
LEMMA RejectKept ==
  ASSUME OpInv, Reject, big' = big
  PROVE  OpInv'
BY DEF OpInv, Reject

\* ZeroStart: the whole range is left.
LEMMA ZeroStartKept ==
  ASSUME OpInv, ZeroStart, big \in BOOLEAN, big' = big
  PROVE  OpInv'
<1>1. /\ inst.op = "ZERO" /\ Legal(inst) /\ rest' = <<Value(inst.a[1]), Value(inst.a[2])>>
      /\ state' = "clear" /\ core' = core /\ inst' = inst /\ words' = words /\ words = <<>>
  BY DEF ZeroStart, OpInv
<1>2. ZeroOk(inst)
  BY <1>1, OfZero
<1>3. Value(inst.a[1])' = Value(inst.a[1]) /\ Value(inst.a[2])' = Value(inst.a[2])
  BY <1>1, ReadingKept
<1> DEFINE first == Value(inst.a[1])
           len == Value(inst.a[2])
<1>4. first \in Nat /\ len \in Nat
  <2>1. 0 <= first /\ 1 <= len
    BY <1>2 DEF ZeroOk, ImOk
  <2>2. inst.a \in Seq(Arguments) /\ Len(inst.a) = 2
    BY <1>2 DEF ZeroOk, OpInv
  <2>3. inst.a[1] \in Arguments /\ inst.a[2] \in Arguments
    BY <2>2
  <2>4. first \in Int /\ len \in Int
    BY <2>3, ValueIs
  <2> QED BY <2>1, <2>4
<1> HIDE DEF first, len
<1>5. rest'[1] = first /\ rest'[2] = len
  BY <1>1 DEF first, len
<1>6. Cleared(big, first, first, <<>>)
  BY <1>4, ClearedNone
<1>7. Clearing'
  BY <1>1, <1>3, <1>4, <1>5, <1>6 DEF Clearing, first, len
<1>8. words' \in Seq(Nat)
  BY <1>1
<1> QED BY <1>1, <1>7, <1>8 DEF OpInv

\* ZeroStep: one more word, for the bytes that come next.
LEMMA ZeroStepKept ==
  ASSUME OpInv, ZeroStep, big \in BOOLEAN, big' = big
  PROVE  OpInv'
<1> DEFINE size == Piece(rest[1], rest[2])
           form == Form("LDI", <<Offset2Reg(rest[1], size), I(0)>>)
           w == [form |-> form, bits |-> Encode(form)]
           first == Value(inst.a[1])
<1>1. /\ state = "clear" /\ rest[2] > 0 /\ GenOp(<<form>>)
      /\ rest' = <<rest[1] + size, rest[2] - size>>
      /\ core' = core /\ inst' = inst /\ state' = state /\ inst.op = "ZERO"
  BY DEF ZeroStep, OpInv
<1>2. Clearing
  BY <1>1 DEF OpInv
<1>3. PICK S : words \in Seq(S)
  BY <1>1 DEF OpInv
<1>4. Value(inst.a[1])' = first /\ Value(inst.a[2])' = Value(inst.a[2])
  BY <1>1, ReadingKept
<1>5. /\ first \in Nat /\ rest[1] \in Nat /\ rest[2] \in Nat \ {0} /\ first <= rest[1]
      /\ rest[1] + rest[2] = first + Value(inst.a[2])
      /\ Cleared(big, first, rest[1], words)
  BY <1>1, <1>2 DEF Clearing
<1>6. size \in {1, 2, 4} /\ size <= rest[2] /\ Aligned(rest[1], size)
  BY <1>5, PieceIs
<1> HIDE DEF size, first
<1>7. FormLanes(form.x[1]) = Lanes(rest[1], size)
  <2>1. form.x[1] = Offset2Reg(rest[1], size)
    BY DEF Form
  <2> QED BY <1>5, <1>6, <2>1, Offset2RegIs
<1> HIDE DEF form
<1>8. words' = Append(words, w)
  <2>1. words' = words \o [k \in DOMAIN <<form>> |->
                              [form |-> <<form>>[k], bits |-> Encode(<<form>>[k])]]
    BY <1>1 DEF GenOp
  <2>2. [k \in DOMAIN <<form>> |-> [form |-> <<form>>[k], bits |-> Encode(<<form>>[k])]] = <<w>>
    OBVIOUS
  <2>3. words' = words \o <<w>>
    BY <2>1, <2>2
  <2> HIDE DEF w
  <2> QED BY <2>3, <1>3
<1>9. w.form = form
  OBVIOUS
<1> HIDE DEF w
<1>10. FormLanes(w.form.x[1]) = {LaneIn(big, a) : a \in rest[1] .. rest[1] + size - 1}
  BY <1>7, <1>9 DEF Lanes, Lane, LaneIn
<1>11. Cleared(big, first, rest[1] + size, Append(words, w))
  BY <1>3, <1>5, <1>6, <1>10, ClearedMore
<1>12. rest'[1] = rest[1] + size /\ rest'[2] = rest[2] - size
  BY <1>1
<1>13. Clearing'
  <2>1. rest'[1] \in Nat /\ rest'[2] \in Nat /\ first <= rest'[1]
           /\ rest'[1] + rest'[2] = first + Value(inst.a[2])
    BY <1>5, <1>6, <1>12
  <2>2. Cleared(big', first, rest'[1], words')
    BY <1>8, <1>11, <1>12
  <2> QED BY <1>4, <1>5, <2>1, <2>2 DEF Clearing
<1>14. words' \in Seq(S \cup {w})
  <2>1. words \in Seq(S \cup {w})
    BY <1>3, SeqMonotonic
  <2> QED BY <1>8, <2>1
<1> QED BY <1>1, <1>13, <1>14 DEF OpInv

\* ZeroEnd: nothing is left.
LEMMA ZeroEndKept ==
  ASSUME OpInv, ZeroEnd, big' = big
  PROVE  OpInv'
<1>1. /\ state = "clear" /\ state' = "done" /\ core' = core /\ inst' = inst
      /\ rest' = rest /\ words' = words /\ inst.op = "ZERO"
  BY DEF ZeroEnd, OpInv
<1>2. Value(inst.a[1])' = Value(inst.a[1]) /\ Value(inst.a[2])' = Value(inst.a[2])
  BY <1>1, ReadingKept
<1>3. Clearing' = Clearing
  BY <1>1, <1>2 DEF Clearing
<1> QED BY <1>1, <1>3 DEF OpInv, Bursts

\* MOV becomes one instruction or two.
LEMMA MovFormsAre ==
  ASSUME NEW i
  PROVE  DOMAIN MovForms(i) = {1} \/ DOMAIN MovForms(i) = {1, 2}
<1>1. \A x : DOMAIN <<x>> = {1}
  OBVIOUS
<1>2. \A x, y : DOMAIN <<x, y>> = {1, 2}
  OBVIOUS
<1> QED BY <1>1, <1>2 DEF MovForms

\* Generate: the words of the forms.
LEMMA GenerateKept ==
  ASSUME OpInv, Generate, big' = big
  PROVE  OpInv'
<1>1. /\ state = "read" /\ inst.op # "ZERO" /\ Legal(inst) /\ GenOp(Forms(inst)) /\ state' = "done"
      /\ core' = core /\ inst' = inst /\ words = <<>>
  BY DEF Generate, OpInv
<1>2. /\ BurstOk(inst)' = BurstOk(inst) /\ BurstForm(inst)' = BurstForm(inst)
      /\ MviOk(inst)' = MviOk(inst)
      /\ MovOk(inst)' = MovOk(inst) /\ MovForms(inst)' = MovForms(inst)
  BY <1>1, ReadingKept
<1> DEFINE f == Forms(inst)
           g == [k \in DOMAIN f |-> [form |-> f[k], bits |-> Encode(f[k])]]
<1>3. words' = <<>> \o g
  BY <1>1 DEF GenOp
<1>4. ASSUME inst.op \in Bursts
      PROVE  BurstOk(inst) /\ words'[1].form = BurstForm(inst)
  <2>1. BurstOk(inst) /\ f = <<BurstForm(inst)>>
    BY <1>1, <1>4, OfBurst
  <2> DEFINE w == [form |-> BurstForm(inst), bits |-> Encode(BurstForm(inst))]
  <2>2. g = <<w>>
    <3>1. DOMAIN f = {1} /\ f[1] = BurstForm(inst)
      BY <2>1
    <3> HIDE DEF f
    <3> QED BY <3>1
  <2> HIDE DEF g
  <2>3. words' = <<w>>
    <3> HIDE DEF w
    <3> QED BY <1>3, <2>2
  <2> QED BY <2>1, <2>3
<1>5. ASSUME inst.op \in {"MVIB", "MVIW", "MVID"}
      PROVE  MviOk(inst)
  BY <1>1, <1>5, OfMvi
<1>6. ASSUME inst.op = "MOV"
      PROVE  MovOk(inst) /\ words' = [k \in DOMAIN MovForms(inst) |->
                                       [form |-> MovForms(inst)[k],
                                         bits |-> Encode(MovForms(inst)[k])]]
  <2>1. MovOk(inst) /\ f = MovForms(inst)
    BY <1>1, <1>6, OfMov
  <2>2. DOMAIN f = 1 .. 1 \/ DOMAIN f = 1 .. 2
    <3>1. 1 .. 1 = {1} /\ 1 .. 2 = {1, 2}
      OBVIOUS
    <3> QED BY <2>1, <3>1, MovFormsAre
  <2> DEFINE S == {[form |-> f[k], bits |-> Encode(f[k])] : k \in DOMAIN f}
  <2>3. g \in Seq(S)
    <3> HIDE DEF f
    <3> QED BY <2>2
  <2>4. <<>> \o g = g
    <3> HIDE DEF g, S
    <3> QED BY <2>3, ConcatEmptySeq
  <2> QED BY <1>3, <2>1, <2>4
<1> QED BY <1>1, <1>2, <1>4, <1>5, <1>6 DEF OpInv

\* The invariant of both parts: a move is of an assigned structure.
UseInv ==
  /\ LayoutInv /\ OpInv
  /\ layout # "none" /\ layout # "used" => state = "none"
  /\ layout = "used" =>
       \E op \in Moves, kind \in {"reg", "addr"} :
         \/ inst = [op |-> op, a |-> <<Named(kind, mapped[1]), Base(op), Number(0),
              Number(TotalSize)>>]
         \/ \E i \in DOMAIN elements :
              inst = [op |-> op, a |-> <<Named(kind, mapped[i]), Base(op), Number(Offset(i)),
                Number(elements[i])>>]

\* The offsets of a structure depend on the byte order, its elements and registers only.
LEMMA LayoutReadingKept ==
  ASSUME big' = big, elements' = elements, rs' = rs, re' = re
  PROVE  /\ RangeOk' = RangeOk /\ TotalSize' = TotalSize
         /\ \A i : ElementOff(i)' = ElementOff(i) /\ Offset(i)' = Offset(i)
         /\ \A o, s : GetRegname(o, s)' = GetRegname(o, s)
<1>1. TotalSize' = TotalSize
  BY DEF TotalSize
<1>2. \A i : Offset(i)' = Offset(i)
  BY DEF Offset
<1>3. \A f : StartOff(f)' = StartOff(f) /\ EndOff(f)' = EndOff(f)
  BY DEF StartOff, EndOff
<1>4. RangeOk' = RangeOk
  BY <1>1, <1>3 DEF RangeOk
<1>5. \A i : ElementOff(i)' = ElementOff(i)
  BY <1>2, <1>3 DEF ElementOff
<1>6. \A o, s : GetRegname(o, s)' = GetRegname(o, s)
  BY DEF GetRegname
<1> QED BY <1>1, <1>2, <1>4, <1>5, <1>6

\* The answers depend on the registers of the elements too.
LEMMA AnswersKept ==
  ASSUME big' = big, elements' = elements, rs' = rs, re' = re, mapped' = mapped
  PROVE  \A i, m : Answer(i, m)' = Answer(i, m)
<1>1. \A i : Offset(i)' = Offset(i)
  BY LayoutReadingKept
<1> QED BY <1>1 DEF Answer, GetFinalOffset, GetRegisterOffset

\* What keeps the structure keeps its part of the invariant, whatever is done with it.
LEMMA LayoutInvKept ==
  ASSUME LayoutInv, big' = big, elements' = elements, rs' = rs, re' = re,
         mapped' = mapped, query' = query,
         layout' = layout \/ (layout = "assigned" /\ layout' = "used")
  PROVE  LayoutInv'
<1>1. /\ RangeOk' = RangeOk /\ \A i : ElementOff(i)' = ElementOff(i)
      /\ \A o, s : GetRegname(o, s)' = GetRegname(o, s)
  BY LayoutReadingKept
<1>2. \A i, m : Answer(i, m)' = Answer(i, m)
  BY AnswersKept
<1>3. Assigned' = Assigned
  BY DEF Assigned
<1> QED BY <1>1, <1>2, <1>3 DEF LayoutInv, Aligned

\* StructAssign: the range and every element have been checked.
LEMMA StructAssignKept ==
  ASSUME LayoutInv, StructAssign, big' = big
  PROVE  LayoutInv'
<1>1. /\ layout = "new" /\ elements' = elements /\ rs' = rs /\ re' = re /\ query' = query
           /\ query = {}
  BY DEF StructAssign, LayoutInv, Assigned
<1>2. /\ RangeOk' = RangeOk /\ \A i : ElementOff(i)' = ElementOff(i)
      /\ \A o, s : GetRegname(o, s)' = GetRegname(o, s)
  BY <1>1, LayoutReadingKept
<1>3. CASE RangeOk /\ \A i \in DOMAIN elements : Aligned(ElementOff(i), elements[i])
  <2>1. layout' = "assigned"
          /\ mapped' = [i \in DOMAIN elements |-> GetRegname(ElementOff(i), elements[i])]
    BY <1>3 DEF StructAssign
  <2> QED BY <1>1, <1>2, <1>3, <2>1 DEF LayoutInv, Assigned, Aligned
<1>4. CASE ~ (RangeOk /\ \A i \in DOMAIN elements : Aligned(ElementOff(i), elements[i]))
  <2>1. layout' = "rejected"
    BY <1>4 DEF StructAssign
  <2> QED BY <1>1, <2>1 DEF LayoutInv, Assigned
<1> QED BY <1>3, <1>4

\* Refer: one answer.
LEMMA ReferKept ==
  ASSUME LayoutInv, big' = big, NEW i \in DOMAIN elements, NEW mod \in Modifiers, Refer(i, mod)
  PROVE  LayoutInv'
<1>1. /\ layout = "assigned" /\ layout' = "asked" /\ query' = {Answer(i, mod)}
      /\ elements' = elements /\ rs' = rs /\ re' = re /\ mapped' = mapped
  BY DEF Refer, Answer
<1>2. /\ RangeOk' = RangeOk /\ \A j : ElementOff(j)' = ElementOff(j)
      /\ \A o, s : GetRegname(o, s)' = GetRegname(o, s)
  BY <1>1, LayoutReadingKept
<1>3. \A j, m : Answer(j, m)' = Answer(j, m)
  BY <1>1, AnswersKept
<1>4. Assigned /\ Assigned'
  BY <1>1 DEF Assigned
<1> QED BY <1>1, <1>2, <1>3, <1>4 DEF LayoutInv, Aligned

\* The operands a structure is moved with are operands.
LEMMA MoveOperands ==
  ASSUME LayoutInv, Assigned, NEW i \in DOMAIN elements, NEW kind \in {"reg", "addr"}, NEW op,
         NEW n \in Int, NEW m \in Int
  PROVE  /\ Named(kind, mapped[i]) \in Arguments
         /\ <<Named(kind, mapped[i]), Base(op), Number(n), Number(m)>> \in Seq(Arguments)
<1>1. /\ big \in BOOLEAN /\ ElementOff(i) \in Nat /\ elements[i] \in {1, 2, 4}
      /\ Aligned(ElementOff(i), elements[i]) /\ mapped[i] = GetRegname(ElementOff(i), elements[i])
  <2>1. big \in BOOLEAN
    BY DEF LayoutInv
  <2> QED BY <2>1, ElementField
<1> DEFINE name == GetRegname(ElementOff(i), elements[i])
<1>2. name.reg \in Nat /\ name.mods \in Seq(Modifiers)
  BY <1>1, RegnameIs
<1> HIDE DEF name
<1>3. mapped[i].reg \in Nat /\ mapped[i].mods \in Seq(Modifiers)
  BY <1>1, <1>2 DEF name
<1>4. Named(kind, mapped[i]) \in Arguments
  BY <1>3 DEF Named, Arguments, Kinds
<1>5. <<>> \in Seq(Modifiers)
  OBVIOUS
<1>6. Base(op) \in Arguments /\ Number(n) \in Arguments /\ Number(m) \in Arguments
  BY <1>5 DEF Base, Number, Arguments, Kinds
<1> DEFINE a == <<Named(kind, mapped[i]), Base(op), Number(n), Number(m)>>
<1>7. a \in Seq(Arguments)
  BY <1>4, <1>6
<1> QED BY <1>4, <1>7

\* Write: the move is read next.
LEMMA MoveKept ==
  ASSUME UseInv, Move
  PROVE  UseInv'
<1>1. PICK op \in Moves, kind \in {"reg", "addr"} :
        MoveAll(op, kind) \/ \E i \in DOMAIN elements : MovePart(op, kind, i)
  BY DEF Move
<1>2. /\ layout = "assigned" /\ layout' = "used" /\ state' = "read"
      /\ UNCHANGED <<big, elements, rs, re, mapped, query, core, rest, words>>
  BY <1>1 DEF MoveAll, MovePart, Write
<1>3. LayoutInv /\ OpInv /\ Assigned /\ state = "none"
  BY <1>2 DEF UseInv, Assigned
<1>4. LayoutInv'
  BY <1>2, <1>3, LayoutInvKept
<1>5. TotalSize' = TotalSize /\ \A i : Offset(i)' = Offset(i)
  BY <1>2, LayoutReadingKept
<1>7. elements \in Seq({1, 2, 4}) /\ elements # <<>>
  BY <1>2, <1>3 DEF LayoutInv
<1>8. CASE MoveAll(op, kind)
  <2>1. inst' = [op |-> op, a |-> <<Named(kind, mapped[1]), Base(op), Number(0),
          Number(TotalSize)>>]
    BY <1>8 DEF MoveAll, Write
  <2>2. 1 \in DOMAIN elements /\ TotalSize \in Int
    <3>1. Len(elements) \in 0 .. Len(elements) /\ 1 \in DOMAIN elements
      BY <1>7
    <3>2. Before(elements, Len(elements)) \in Nat
      BY <1>7, <3>1, BeforeIn
    <3> QED BY <1>7, <3>1, <3>2, BeforeAll DEF TotalSize
  <2>3. inst'.a \in Seq(Arguments) /\ inst' = [op |-> inst'.op, a |-> inst'.a]
    BY <1>3, <2>1, <2>2, MoveOperands
  <2>4. OpInv'
    BY <1>2, <1>3, <2>3 DEF OpInv
  <2>5. inst' = [op |-> op, a |-> <<Named(kind, mapped'[1]), Base(op), Number(0),
          Number(TotalSize')>>]
    BY <1>2, <1>5, <2>1
  <2> QED BY <1>2, <1>4, <2>4, <2>5 DEF UseInv
<1>9. ASSUME NEW i \in DOMAIN elements, MovePart(op, kind, i) PROVE UseInv'
  <2>1. inst' = [op |-> op, a |-> <<Named(kind, mapped[i]), Base(op), Number(Offset(i)),
          Number(elements[i])>>]
    BY <1>9 DEF MovePart, Write, StructValueOperand
  <2>2. Offset(i) \in Int /\ elements[i] \in Int
    <3>1. Offset(i) \in Nat /\ elements[i] \in {1, 2, 4}
      BY <1>3, ElementField
    <3> QED BY <3>1
  <2>3. inst'.a \in Seq(Arguments) /\ inst' = [op |-> inst'.op, a |-> inst'.a]
    BY <1>3, <2>1, <2>2, MoveOperands
  <2>4. OpInv'
    BY <1>2, <1>3, <2>3 DEF OpInv
  <2>5. inst' = [op |-> op, a |-> <<Named(kind, mapped'[i]), Base(op), Number(Offset(i)'),
          Number(elements'[i])>>]
    BY <1>2, <1>5, <2>1
  <2>6. i \in DOMAIN elements'
    BY <1>2
  <2> HIDE DEF UseInv
  <2>7. \E j \in DOMAIN elements' :
          inst' = [op |-> op, a |-> <<Named(kind, mapped'[j]), Base(op), Number(Offset(j)'),
            Number(elements'[j])>>]
    BY <2>5, <2>6
  <2> QED BY <1>2, <1>4, <2>4, <2>7 DEF UseInv
<1> QED BY <1>1, <1>8, <1>9

\* Programs start with nothing done.
LEMMA InitUse == Init => UseInv
<1> SUFFICES ASSUME Init PROVE UseInv
  OBVIOUS
<1>1. big \in BOOLEAN
  BY DEF Init
<1>2. CASE AnInstruction
  <2>1. inst.a \in Seq(Arguments) /\ inst = [op |-> inst.op, a |-> inst.a]
    <3>1. inst \in [op : STRING, a : Seq(Arguments)]
      BY <1>2, OpAssumption DEF AnInstruction, OpInit
    <3> QED BY <3>1
  <2>2. OpInv
    BY <1>2, <2>1 DEF AnInstruction, OpInit, OpInv
  <2>3. <<>> \in Seq({1, 2, 4}) /\ 0 \in 0 .. LAST_REG
    BY RegisterAssumption
  <2>4. rs \in RegisterNames
    BY <1>2, <2>3 DEF AnInstruction, RegisterNames
  <2>5. LayoutInv
    BY <1>1, <1>2, <2>3, <2>4 DEF AnInstruction, LayoutInv, Assigned
  <2> QED BY <1>2, <2>2, <2>5 DEF AnInstruction, UseInv
<1>3. CASE AStructure
  <2>1. inst.a \in Seq(Arguments) /\ inst = [op |-> inst.op, a |-> inst.a]
    <3>1. <<>> \in Seq(Arguments)
      OBVIOUS
    <3>2. inst = [op |-> "NONE", a |-> <<>>]
      BY <1>3 DEF AStructure, NoInst
    <3> QED BY <3>1, <3>2
  <2>2. OpInv
    BY <1>3, <2>1 DEF AStructure, OpInv, Cores
  <2>3. elements \in Seq({1, 2, 4}) /\ elements # <<>>
    BY <1>3, LayoutAssumption DEF AStructure, LayoutInit
  <2>4. Names \subseteq RegisterNames
    BY LayoutAssumption DEF Names, RegisterNames
  <2>5. LayoutInv
    BY <1>1, <1>3, <2>3, <2>4 DEF AStructure, LayoutInit, LayoutInv, Assigned
  <2> QED BY <1>3, <2>2, <2>5 DEF AStructure, LayoutInit, UseInv
<1> QED BY <1>2, <1>3 DEF Init

\* Every step keeps the invariant.
LEMMA NextUse == UseInv /\ [Next]_vars => UseInv'
<1> SUFFICES ASSUME UseInv, [Next]_vars PROVE UseInv'
  OBVIOUS
<1>1. LayoutInv /\ OpInv /\ big \in BOOLEAN
  BY DEF UseInv, LayoutInv
<1>2. ASSUME UNCHANGED <<big, opVars>>, LayoutInv', layout' # "used",
             layout \notin {"none", "used"}
      PROVE  UseInv'
  <2>1. OpInv'
    BY <1>1, <1>2, OpInvKept
  <2>2. state' = state
    BY <1>2 DEF opVars
  <2> QED BY <1>2, <2>1, <2>2 DEF UseInv
<1>3. CASE Layout
  <2>1. UNCHANGED <<big, opVars>> /\ LayoutNext
    BY <1>3 DEF Layout
  <2>2. CASE StructAssign
    <3>1. LayoutInv'
      BY <1>1, <2>1, <2>2, StructAssignKept
    <3>2. layout = "new" /\ layout' \in {"assigned", "rejected"}
      BY <2>2 DEF StructAssign
    <3> QED BY <1>2, <2>1, <3>1, <3>2
  <2>3. ASSUME NEW i \in DOMAIN elements, NEW mod \in Modifiers, Refer(i, mod) PROVE UseInv'
    <3>1. LayoutInv'
      BY <1>1, <2>1, <2>3, ReferKept
    <3>2. layout = "assigned" /\ layout' = "asked"
      BY <2>3 DEF Refer
    <3> QED BY <1>2, <2>1, <3>1, <3>2
  <2> QED BY <2>1, <2>2, <2>3 DEF LayoutNext
<1>4. CASE Operate
  <2>1. OpNext /\ UNCHANGED <<big, elements, rs, re, layout, mapped, query>>
    BY <1>4 DEF Operate, layoutVars
  <2>2. OpInv'
    BY <1>1, <2>1, RejectKept, GenerateKept, ZeroStartKept, ZeroStepKept, ZeroEndKept DEF OpNext
  <2>3. LayoutInv'
    BY <1>1, <2>1, LayoutInvKept
  <2>4. state # "none" /\ inst' = inst
    BY <2>1 DEF OpNext, Reject, Generate, ZeroStart, ZeroStep, ZeroEnd
  <2>5. TotalSize' = TotalSize /\ \A i : Offset(i)' = Offset(i)
    BY <2>1, LayoutReadingKept
  <2> QED BY <2>1, <2>2, <2>3, <2>4, <2>5 DEF UseInv
<1>5. CASE Move
  BY <1>5, MoveKept
<1>6. CASE UNCHANGED vars
  <2>1. UNCHANGED <<big, elements, rs, re, layout, mapped, query>>
          /\ UNCHANGED <<big, opVars>> /\ inst' = inst /\ state' = state
    BY <1>6 DEF vars, layoutVars, opVars
  <2>2. OpInv'
    BY <1>1, <2>1, OpInvKept
  <2>3. LayoutInv'
    BY <1>1, <2>1, LayoutInvKept
  <2>5. TotalSize' = TotalSize /\ \A i : Offset(i)' = Offset(i)
    BY <2>1, LayoutReadingKept
  <2> QED BY <2>1, <2>2, <2>3, <2>5 DEF UseInv
<1> QED BY <1>3, <1>4, <1>5, <1>6 DEF Next

\* The invariant holds always.
LEMMA AlwaysUse == Spec => []UseInv
<1>1. Init => UseInv
  BY InitUse
<1>2. UseInv /\ [Next]_vars => UseInv'
  BY NextUse
<1> QED BY <1>1, <1>2, PTL DEF Spec

\* Whatever structure is assigned from whichever register, its elements lie in the register
\* file in the order they have in memory (StructAssign, pasmstruct.c:327-510).
THEOREM StructuresAreInMemoryOrder == Spec => []InMemoryOrder
<1>1. UseInv => InMemoryOrder
  BY LayoutInOrder DEF UseInv
<1> QED BY <1>1, AlwaysUse, PTL

\* A part of an element means the same bytes, however it is referred to (GetFinalOffset
\* and GetFinalSize, pasmstruct.c:1081-1140; pasmop.c:1311).
THEOREM ReferencesMeanTheSame == Spec => []ReferencesAgree
<1>1. UseInv => ReferencesAgree
  BY LayoutAgrees DEF UseInv
<1> QED BY <1>1, AlwaysUse, PTL

\* ZERO clears each byte of its range once, and no other.
LEMMA ClearsRange == UseInv => ClearsItsRange
<1> SUFFICES ASSUME UseInv, state \in {"clear", "done"}, inst.op = "ZERO"
             PROVE  LET first == Value(inst.a[1])
                    IN  /\ rest[1] + rest[2] = first + Value(inst.a[2])
                        /\ UNION {FormLanes(w.form.x[1]) : w \in Range(words)}
                             = {Lane(a) : a \in first .. rest[1] - 1}
                        /\ \A j, k \in DOMAIN words :
                             j # k =>
                             FormLanes(words[j].form.x[1]) \cap FormLanes(words[k].form.x[1]) = {}
  BY DEF ClearsItsRange
<1>1. Clearing
  BY DEF UseInv, OpInv
<1> QED BY <1>1 DEF Clearing, Cleared, LaneIn, Lane

\* ZERO clears every byte of its range, once, and no other, on every core
\* (ProcessOp, pasmop.c:1130-1283).
THEOREM ZeroClearsItsRange == Spec => []ClearsItsRange
<1>1. UseInv => ClearsItsRange
  BY ClearsRange
<1> QED BY <1>1, AlwaysUse, PTL

\* The byte a burst of an element starts with.
LEMMA StartOfElement ==
  ASSUME LayoutInv, Assigned, NEW i \in DOMAIN elements, NEW kind \in {"reg", "addr"}
  PROVE  Start(Named(kind, mapped[i])) = ElementOff(i)
<1>1. /\ big \in BOOLEAN /\ ElementOff(i) \in Nat /\ elements[i] \in {1, 2, 4}
      /\ Aligned(ElementOff(i), elements[i]) /\ mapped[i] = GetRegname(ElementOff(i), elements[i])
  <2>1. big \in BOOLEAN
    BY DEF LayoutInv
  <2> QED BY <2>1, ElementField
<1> DEFINE name == GetRegname(ElementOff(i), elements[i])
           a == Named(kind, mapped[i])
           f == GetRegister(mapped[i])
<1>2. name.reg \in Nat /\ name.mods \in Seq(Modifiers)
  BY <1>1, RegnameIs
<1>3. GetRegister(name).reg = name.reg
  <2> HIDE DEF name
  <2> QED BY <1>2, RegisterOfName
<1>4. StartOff(GetRegister(name)) = ElementOff(i)
  BY <1>1, RegnameField
<1> HIDE DEF name
<1>5. f.reg = mapped[i].reg /\ StartOff(f) = ElementOff(i)
  BY <1>1, <1>3, <1>4 DEF name
<1>6. a.k = kind /\ a.reg = mapped[i].reg /\ a.mods = mapped[i].mods
  BY DEF Named
<1> HIDE DEF a
<1>7. GetRegister(a) = f
  BY <1>6 DEF GetRegister
<1> HIDE DEF f
<1>8. CASE kind = "reg"
  <2>1. IsRegBase(a)
    BY <1>6, <1>8 DEF IsRegBase
  <2>2. Start(a) = 4 * a.reg + StartByte(f)
    BY <1>7, <2>1 DEF Start
  <2>3. Start(a) = StartOff(f)
    BY <1>5, <1>6, <2>2 DEF StartOff, StartByte
  <2> QED BY <1>5, <2>3 DEF a
<1>9. CASE kind = "addr"
  <2>1. ~IsRegBase(a) /\ a.k # "imm"
    BY <1>6, <1>9 DEF IsRegBase
  <2>2. Start(a) = GetRegisterOffset(a)
    BY <2>1 DEF Start, Value
  <2>3. Start(a) = StartOff(f)
    BY <1>7, <2>2 DEF StartOff, GetRegisterOffset
  <2> QED BY <1>5, <2>3 DEF a
<1> QED BY <1>8, <1>9

\* Ranges that do not meet have no lane in common.
LEMMA LanesApart ==
  ASSUME big \in BOOLEAN, NEW a \in Nat, NEW n \in Nat, NEW c \in Nat, NEW m \in Nat,
           a + n <= c \/ c + m <= a
  PROVE  Lanes(a, n) \cap Lanes(c, m) = {}
<1> SUFFICES ASSUME NEW l \in Lanes(a, n) \cap Lanes(c, m) PROVE FALSE
  OBVIOUS
<1>1. PICK x \in a .. a + n - 1 : l = Lane(x)
  BY DEF Lanes
<1>2. PICK y \in c .. c + m - 1 : l = Lane(y)
  BY DEF Lanes
<1>3. x \in Nat /\ y \in Nat /\ x # y
  OBVIOUS
<1> QED BY <1>1, <1>2, <1>3, LanesDiffer

\* A move of a structure or an element: MovesElements.
LEMMA MovesAll == UseInv => MovesElements
<1> SUFFICES ASSUME UseInv, layout = "used", state = "done" PROVE MovesElements
  BY DEF MovesElements
<1> DEFINE b == Burst(words[1].form)
           Inside(i) == b.from <= Offset(i) /\ Offset(i) + elements[i] <= b.from + b.size
           start == StartOff(GetRegister(rs))
<1>1. LayoutInv /\ OpInv /\ Assigned /\ big \in BOOLEAN /\ elements \in Seq({1, 2, 4})
        /\ elements # <<>>
  BY DEF UseInv, Assigned, LayoutInv
<1>2. ASSUME NEW i \in DOMAIN elements
      PROVE  /\ i \in 1 .. Len(elements) /\ start \in Nat /\ Offset(i) \in Nat
                  /\ elements[i] \in {1, 2, 4}
             /\ Offset(i) = Before(elements, i - 1) /\ ElementOff(i) = start + Offset(i)
             /\ FieldLanes(GetRegister(mapped[i])) = Lanes(start + Offset(i), elements[i])
             /\ Before(elements, i) = Offset(i) + elements[i]
  <2>1. /\ i \in 1 .. Len(elements) /\ start \in Nat /\ Offset(i) \in Nat
             /\ elements[i] \in {1, 2, 4}
        /\ Offset(i) = Before(elements, i - 1) /\ ElementOff(i) = start + Offset(i)
        /\ FieldLanes(GetRegister(mapped[i])) = Lanes(start + Offset(i), elements[i])
    BY <1>1, ElementField
  <2>2. Before(elements, i) = Before(elements, i - 1) + elements[i]
    BY <1>1, <2>1, BeforeMore
  <2> QED BY <2>1, <2>2
<1>3. ASSUME NEW op \in Moves, NEW x, NEW n \in Int, NEW m \in Int,
             inst = [op |-> op, a |-> <<x, Base(op), Number(n), Number(m)>>]
      PROVE  b.first = Start(x) /\ b.from = n /\ b.size = m
  <2>1. inst.op \in Bursts
    BY <1>3, MovesAssumption
  <2>2. words[1].form = BurstForm(inst)
    BY <1>1, <2>1 DEF OpInv
  <2>3. inst.a[1] = x /\ inst.a[3] = Number(n) /\ inst.a[4] = Number(m)
    BY <1>3
  <2>4. Number(n).k = "imm" /\ Number(n).v = n /\ Number(m).k = "imm" /\ Number(m).v = m
    BY DEF Number
  <2>5. Operand(Number(n)) = I(n)
    BY <2>4 DEF Operand, IsRegBase, Value
  <2>6. Value(Number(m)) = m
    BY <2>4 DEF Value
  <2>7. BurstForm(inst).x[1] = I(Start(x)) /\ BurstForm(inst).x[3] = I(n)
          /\ BurstForm(inst).x[4] = I(m - 1)
    BY <2>3, <2>4, <2>5, <2>6 DEF BurstForm, Form
  <2> QED BY <2>2, <2>7 DEF Burst, I
<1> HIDE DEF b, start
<1>4. ASSUME NEW op \in Moves, NEW kind \in {"reg", "addr"},
             inst = [op |-> op, a |-> <<Named(kind, mapped[1]), Base(op), Number(0),
               Number(TotalSize)>>]
      PROVE  /\ \E i \in DOMAIN elements : Inside(i)
             /\ \A i \in DOMAIN elements :
                  LET lanes == FieldLanes(GetRegister(mapped[i]))
                  IN  IF Inside(i) THEN lanes = Lanes(b.first + Offset(i) - b.from, elements[i])
                      ELSE lanes \cap Lanes(b.first, b.size) = {}
  <2>1. 1 \in DOMAIN elements /\ Len(elements) \in Nat
    BY <1>1
  <2>2. TotalSize = Before(elements, Len(elements)) /\ TotalSize \in Nat
    <3>1. Len(elements) \in 0 .. Len(elements)
      BY <1>1
    <3>2. Before(elements, Len(elements)) \in Nat
      BY <1>1, <3>1, BeforeIn
    <3> QED BY <1>1, <3>2, BeforeAll DEF TotalSize
  <2>3. b.first = ElementOff(1) /\ b.from = 0 /\ b.size = TotalSize
    <3>1. Start(Named(kind, mapped[1])) = ElementOff(1)
      BY <1>1, <2>1, StartOfElement
    <3>2. 0 \in Int /\ TotalSize \in Int
      BY <2>2
    <3> QED BY <1>3, <1>4, <3>1, <3>2
  <2>4. b.first = start /\ start \in Nat
    <3>1. Offset(1) = 0
      BY <1>2, <2>1, BeforeNone
    <3> QED BY <1>2, <2>1, <2>3, <3>1
  <2>5. ASSUME NEW i \in DOMAIN elements
        PROVE  Inside(i) /\ FieldLanes(GetRegister(mapped[i]))
                              = Lanes(b.first + Offset(i) - b.from, elements[i])
    <3>1. Before(elements, i) <= Before(elements, Len(elements))
      <4>1. i \in 0 .. Len(elements) /\ Len(elements) \in i .. Len(elements)
        BY <1>2, <2>1
      <4> QED BY <1>1, <4>1, BeforeGrows
    <3>2. 0 <= Offset(i) /\ Offset(i) + elements[i] <= 0 + TotalSize
      BY <1>2, <2>2, <3>1
    <3>3. b.first + Offset(i) - b.from = start + Offset(i)
      BY <1>2, <2>3, <2>4
    <3> QED BY <1>2, <2>3, <3>2, <3>3
  <2> QED BY <2>1, <2>5
<1>5. ASSUME NEW op \in Moves, NEW kind \in {"reg", "addr"}, NEW j \in DOMAIN elements,
             inst = [op |-> op, a |-> <<Named(kind, mapped[j]), Base(op), Number(Offset(j)),
               Number(elements[j])>>]
      PROVE  /\ \E i \in DOMAIN elements : Inside(i)
             /\ \A i \in DOMAIN elements :
                  LET lanes == FieldLanes(GetRegister(mapped[i]))
                  IN  IF Inside(i) THEN lanes = Lanes(b.first + Offset(i) - b.from, elements[i])
                      ELSE lanes \cap Lanes(b.first, b.size) = {}
  <2>1. /\ j \in 1 .. Len(elements) /\ start \in Nat /\ Offset(j) \in Nat
             /\ elements[j] \in {1, 2, 4}
        /\ Offset(j) = Before(elements, j - 1) /\ ElementOff(j) = start + Offset(j)
        /\ Before(elements, j) = Offset(j) + elements[j]
    BY <1>2
  <2>2. b.first = start + Offset(j) /\ b.from = Offset(j) /\ b.size = elements[j]
    <3>1. Start(Named(kind, mapped[j])) = ElementOff(j)
      BY <1>1, StartOfElement
    <3>2. Offset(j) \in Int /\ elements[j] \in Int
      BY <2>1
    <3> QED BY <1>3, <1>5, <2>1, <3>1, <3>2
  <2>3. Inside(j)
    BY <2>1, <2>2
  <2>4. ASSUME NEW i \in DOMAIN elements
        PROVE  IF Inside(i)
               THEN FieldLanes(GetRegister(mapped[i]))
                      = Lanes(b.first + Offset(i) - b.from, elements[i])
               ELSE FieldLanes(GetRegister(mapped[i])) \cap Lanes(b.first, b.size) = {}
    <3>1. /\ i \in 1 .. Len(elements) /\ Offset(i) \in Nat /\ elements[i] \in {1, 2, 4}
          /\ Offset(i) = Before(elements, i - 1) /\ Before(elements, i) = Offset(i) + elements[i]
          /\ FieldLanes(GetRegister(mapped[i])) = Lanes(start + Offset(i), elements[i])
      BY <1>2
    <3>2. CASE i = j
      <4>1. b.first + Offset(i) - b.from = start + Offset(i)
        BY <2>1, <2>2, <3>2
      <4> QED BY <2>3, <3>1, <3>2, <4>1
    <3>3. CASE i # j
      <4>1. Offset(i) + elements[i] <= Offset(j) \/ Offset(j) + elements[j] <= Offset(i)
        <5>1. CASE i < j
          <6>1. i \in 0 .. Len(elements) /\ j - 1 \in i .. Len(elements)
            BY <2>1, <3>1, <5>1
          <6>2. Before(elements, i) <= Before(elements, j - 1)
            BY <1>1, <6>1, BeforeGrows
          <6>3. Before(elements, i) = Offset(i) + elements[i]
            BY <3>1
          <6>4. Before(elements, j - 1) = Offset(j)
            BY <2>1
          <6>5. Offset(i) + elements[i] <= Offset(j)
            BY <6>2, <6>3, <6>4
          <6> QED BY <6>5
        <5>2. CASE j < i
          <6>1. j \in 0 .. Len(elements) /\ i - 1 \in j .. Len(elements)
            BY <2>1, <3>1, <5>2
          <6>2. Before(elements, j) <= Before(elements, i - 1)
            BY <1>1, <6>1, BeforeGrows
          <6>3. Before(elements, j) = Offset(j) + elements[j]
            BY <2>1
          <6>4. Before(elements, i - 1) = Offset(i)
            BY <3>1
          <6>5. Offset(j) + elements[j] <= Offset(i)
            BY <6>2, <6>3, <6>4
          <6> QED BY <6>5
        <5>3. i < j \/ j < i
          BY <2>1, <3>1, <3>3
        <5> QED BY <5>1, <5>2, <5>3
      <4>2. ~Inside(i)
        <5> DEFINE o == Offset(i)  p == Offset(j)  u == elements[i]  v == elements[j]
        <5>1. o \in Nat /\ u \in Nat \ {0}
          BY <3>1
        <5>2. p \in Nat /\ v \in Nat \ {0}
          BY <2>1
        <5>3. o + u <= p \/ p + v <= o
          BY <4>1
        <5>4. Inside(i) <=> p <= o /\ o + u <= p + v
          BY <2>2
        <5> HIDE DEF o, p, u, v, Inside
        <5> QED BY <5>1, <5>2, <5>3, <5>4
      <4>3. /\ start + Offset(i) \in Nat /\ start + Offset(j) \in Nat /\ elements[i] \in Nat
                 /\ elements[j] \in Nat
            /\ \/ (start + Offset(i)) + elements[i] <= start + Offset(j)
               \/ (start + Offset(j)) + elements[j] <= start + Offset(i)
        <5>0. Offset(i) \in Nat /\ elements[i] \in Nat
          BY <3>1
        <5>1. start \in Nat /\ Offset(i) \in Nat /\ Offset(j) \in Nat /\ elements[i] \in Nat
                /\ elements[j] \in Nat
          BY <2>1, <5>0
        <5> DEFINE o == Offset(i)  p == Offset(j)
        <5> HIDE DEF o, p
        <5>2. /\ o + elements[i] <= p => (start + o) + elements[i] <= start + p
              /\ p + elements[j] <= o => (start + p) + elements[j] <= start + o
          BY <5>1 DEF o, p
        <5> QED BY <4>1, <5>1, <5>2 DEF o, p
      <4>4. Lanes(start + Offset(i), elements[i]) \cap Lanes(start + Offset(j), elements[j]) = {}
        BY <1>1, <4>3, LanesApart
      <4> QED BY <2>2, <3>1, <4>2, <4>4
    <3> QED BY <3>2, <3>3
  <2> QED BY <2>3, <2>4
<1>6. /\ \E i \in DOMAIN elements : Inside(i)
      /\ \A i \in DOMAIN elements :
           LET lanes == FieldLanes(GetRegister(mapped[i]))
           IN  IF Inside(i) THEN lanes = Lanes(b.first + Offset(i) - b.from, elements[i])
               ELSE lanes \cap Lanes(b.first, b.size) = {}
  <2> HIDE DEF Inside
  <2> QED BY <1>4, <1>5 DEF UseInv
<1> QED BY <1>6 DEF MovesElements, b

\* A burst of a whole structure or of one element moves the bytes of the elements it covers
\* and no others (pasmstruct.c:903-1073, pasmop.c:640-775).
THEOREM MovesMeetTheirElements == Spec => []MovesElements
<1>1. UseInv => MovesElements
  BY MovesAll
<1> QED BY <1>1, AlwaysUse, PTL

\* The register at the address of a field is that field.
LEMMA AddressIsField ==
  ASSUME big \in BOOLEAN, NEW a \in Arguments, NEW size \in {1, 2, 4}, NameOk(a, 1),
           GetRegister(a).width = 8 * size
  PROVE  Offset2Reg(GetRegisterOffset(a), size) = R(a)
<1> DEFINE f == GetRegister(a)
           off == StartOff(f)
           g == GetRegister(GetRegname(off, size))
<1>1. /\ RegisterIn(f) /\ f.offset * 8 + f.width <= 32 /\ f.width \div 8 = size
      /\ f \in [ok : BOOLEAN, reg : Nat, width : {8, 16, 32}, offset : Nat]
  <2>1. RegisterIn(f) /\ f.offset * 8 + f.width <= 32
    BY ArgumentIs, NameIsOk
  <2>2. f.width \div 8 = size
    OBVIOUS
  <2> QED BY <2>1, <2>2 DEF RegisterIn
<1>2. GetRegisterOffset(a) = off
  BY ValueIs
<1> HIDE DEF f
<1>3. off \in Nat /\ off \div 4 = f.reg /\ (off % 4) + size <= 4
  BY <1>1, FieldLanesAre
<1>4. Aligned(off, size)
  BY <1>3 DEF Aligned
<1>5. /\ Offset2Reg(off, size) = [t |-> "reg", n |-> g.reg, f |-> FieldType(g)]
      /\ g.width = 8 * size /\ g.reg = off \div 4
      /\ g.offset = IF big THEN 4 - (off % 4) - size ELSE off % 4
  BY <1>3, <1>4, Offset2RegIs, RegnameField
<1> DEFINE o == f.offset
           r == f.reg
<1>6. o \in Nat /\ r \in Nat /\ o + size <= 4
  BY <1>1
<1>7. off = 4 * r + IF big THEN 4 - o - size ELSE o
  BY <1>1 DEF StartOff
<1> HIDE DEF off, g, o, r
<1>8. (IF big THEN 4 - (off % 4) - size ELSE off % 4) = o
  <2>1. CASE big
    <3> DEFINE p == 4 - o - size
    <3>1. off = 4 * r + p /\ p \in 0 .. 3
      BY <1>6, <1>7, <2>1
    <3> HIDE DEF p
    <3>2. off % 4 = p
      BY <1>6, <3>1
    <3>3. 4 - p - size = o
      BY <1>6 DEF p
    <3> QED BY <2>1, <3>2, <3>3
  <2>2. CASE ~big
    <3>1. off = 4 * r + o /\ o \in 0 .. 3
      BY <1>6, <1>7, <2>2
    <3> QED BY <1>6, <2>2, <3>1
  <2> QED BY <2>1, <2>2
<1>9. g.offset = f.offset /\ g.width = f.width /\ g.reg = f.reg
  BY <1>3, <1>5, <1>8 DEF o, f
<1>10. FieldType(g) = FieldType(f)
  BY <1>9 DEF FieldType
<1>11. R(a) = [t |-> "reg", n |-> f.reg, f |-> FieldType(f)]
  BY DEF R, f
<1> QED BY <1>2, <1>5, <1>9, <1>10, <1>11

\* As a register, an operand names what it named by address.
LEMMA AsRegisterIs ==
  ASSUME NEW a \in Arguments
  PROVE  /\ GetRegister(AsRegister(a)) = GetRegister(a) /\ AsRegister(a).k = "reg"
         /\ AsRegister(a).reg = a.reg
<1>1. AsRegister(a).k = "reg" /\ AsRegister(a).reg = a.reg /\ AsRegister(a).mods = a.mods
  BY DEF AsRegister, Arguments
<1> QED BY <1>1 DEF GetRegister

\* Names and addresses agree: NamesAgree.
LEMMA NamesAll == UseInv => NamesAgree
<1> SUFFICES ASSUME UseInv, state = "done" PROVE NamesAgree
  BY DEF NamesAgree
<1>1. /\ big \in BOOLEAN /\ inst.a \in Seq(Arguments) /\ inst = [op |-> inst.op, a |-> inst.a]
  BY DEF UseInv, LayoutInv, OpInv
<1>2. ASSUME inst.op \in Bursts, inst.a[1].k = "addr"
      PROVE  Forms(inst) = Forms([inst EXCEPT !.a[1] = AsRegister(@)])
  <2> DEFINE n == AsRegister(inst.a[1])
             b == [inst.a EXCEPT ![1] = n]
             j == [inst EXCEPT !.a[1] = AsRegister(@)]
  <2>1. Len(inst.a) = 4
    BY <1>2 DEF UseInv, OpInv, BurstOk
  <2>2. inst.a[1] \in Arguments
    BY <1>1, <2>1
  <2>3. GetRegister(n) = GetRegister(inst.a[1]) /\ n.k = "reg" /\ n.reg = inst.a[1].reg
    BY <2>2, AsRegisterIs
  <2>4. j = [op |-> inst.op, a |-> b]
    BY <1>1
  <2>5. b[1] = n /\ b[2] = inst.a[2] /\ b[3] = inst.a[3] /\ b[4] = inst.a[4]
    BY <1>1, <2>1
  <2> HIDE DEF b, n, j
  <2>6. j.op = inst.op /\ j.a = b
    BY <2>4
  <2>7. Start(n) = Start(inst.a[1])
    <3>1. IsRegBase(n) /\ ~IsRegBase(inst.a[1]) /\ inst.a[1].k # "imm"
      BY <1>2, <2>3 DEF IsRegBase
    <3>2. Start(n) = 4 * inst.a[1].reg + StartByte(GetRegister(inst.a[1]))
      BY <2>3, <3>1 DEF Start
    <3>3. Start(inst.a[1]) = GetRegisterOffset(inst.a[1])
      BY <3>1 DEF Start, Value
    <3>4. GetRegister(inst.a[1]).reg = inst.a[1].reg
      BY <2>2, ArgumentIs
    <3> QED BY <3>2, <3>3, <3>4 DEF GetRegisterOffset, StartByte
  <2>8. BurstForm(j) = BurstForm(inst)
    BY <2>5, <2>6, <2>7 DEF BurstForm
  <2>9. Forms(j) = <<BurstForm(j)>> /\ Forms(inst) = <<BurstForm(inst)>>
    BY <1>2, <2>6, OfBurst
  <2> QED BY <2>8, <2>9 DEF j
<1>3. ASSUME inst.op \in {"MVIB", "MVIW", "MVID"}, NEW k \in 1 .. 2, inst.a[k].k = "ptr",
             GetRegister(inst.a[k]).width = 8 * MviSize(inst.op)
      PROVE  Forms(inst) = Forms([inst EXCEPT !.a[k] = AsRegister(@)])
  <2> DEFINE c == inst.a[k]
             n == AsRegister(c)
             b == [inst.a EXCEPT ![k] = n]
             j == [inst EXCEPT !.a[k] = AsRegister(@)]
             size == MviSize(inst.op)
  <2>1. MviOk(inst) /\ Len(inst.a) = 2
    BY <1>3 DEF UseInv, OpInv, MviOk
  <2>2. k \in DOMAIN inst.a /\ 1 \in DOMAIN inst.a /\ 2 \in DOMAIN inst.a /\ c \in Arguments
    BY <1>1, <2>1
  <2>3. GetRegister(n) = GetRegister(c) /\ n.k = "reg" /\ n.reg = c.reg
    BY <2>2, AsRegisterIs
  <2>4. j = [op |-> inst.op, a |-> b]
    BY <1>1
  <2>5. \A m \in 1 .. 2 : b[m] = IF m = k THEN n ELSE inst.a[m]
    BY <2>2
  <2>6. size \in {1, 2, 4}
    BY <1>3 DEF MviSize
  <2> HIDE DEF b, n, j, c, size
  <2>7. j.op = inst.op /\ j.a = b
    BY <2>4
  <2>8. Forms(j) = MviForms(j) /\ Forms(inst) = MviForms(inst)
    BY <1>3, <2>7, OfMvi
  <2>9. ~IsPlus(n) /\ ~IsPlus(c)
    BY <1>3, <2>3 DEF IsPlus, IsRegBase, c
  <2>10. \A m \in 1 .. 2 : IsPlus(b[m]) <=> IsPlus(inst.a[m])
    BY <2>5, <2>9 DEF c
  <2>11. CASE \E m \in 1 .. 2 : IsPlus(inst.a[m])
    BY <2>7, <2>8, <2>10, <2>11 DEF MviForms, j
  <2>12. CASE ~ \E m \in 1 .. 2 : IsPlus(inst.a[m])
    <3>1. MviArgOk(c, size)
      BY <2>1, <2>12 DEF MviOk, c, size
    <3>2. NameOk(c, 1)
      BY <1>3, <3>1 DEF MviArgOk, c
    <3>3. MviArg(c, size) = Offset2Reg(GetRegisterOffset(c), size)
      BY <1>3 DEF MviArg, c
    <3>4. Offset2Reg(GetRegisterOffset(c), size) = R(c)
      BY <1>1, <1>3, <2>2, <2>6, <3>2, AddressIsField DEF c, size
    <3>5. MviArg(n, size) = R(c)
      BY <2>3 DEF MviArg, R
    <3>6. \A m \in 1 .. 2 : MviArg(b[m], size) = MviArg(inst.a[m], size)
      BY <2>5, <3>3, <3>4, <3>5 DEF c
    <3>7. MviForms(j) = MviForms(inst)
      BY <2>7, <2>10, <2>12, <3>6 DEF MviForms, size
    <3> QED BY <2>8, <3>7 DEF j
  <2> QED BY <2>11, <2>12
<1> QED BY <1>2, <1>3 DEF NamesAgree

\* MVI addresses, bursts and plain operands mean the same bytes by the same name
\* (pasmop.c:696-742, 559-564, 1675-1752).
THEOREM NamesMeanTheSame == Spec => []NamesAgree
<1>1. UseInv => NamesAgree
  BY NamesAll
<1> QED BY <1>1, AlwaysUse, PTL

\* What the words leave in a register.
Loaded(reg, ws) == FoldLeft(LAMBDA r, w : Load(r, w.form), reg, ws)

\* g is the function that Loaded folds the words ws with.
Loads(g, reg, ws) ==
  g = [s \in SUBSET DOMAIN ws |-> IF s = {} THEN reg ELSE Load(g[s \ {Max(s)}], ws[Max(s)].form)]

\* Loaded is such a fold.
LEMMA LoadedIs ==
  ASSUME NEW reg, NEW ws, \E g : Loads(g, reg, ws)
  PROVE  \E g : Loads(g, reg, ws) /\ Loaded(reg, ws) = g[DOMAIN ws]
<1> DEFINE G == CHOOSE g : Loads(g, reg, ws)
<1>1. Loads(G, reg, ws)
  OBVIOUS
<1>2. Loaded(reg, ws) = G[DOMAIN ws]
  BY DEF Loaded, FoldLeft, MapThenFoldSet, Loads
<1> HIDE DEF G
<1> QED BY <1>1, <1>2

\* The largest numbers of the sets such a fold passes.
LEMMA LargestOfTwo == Max({1}) = 1 /\ Max({1, 2}) = 2 /\ Max({2}) = 2
<1>1. {1} \in SUBSET (1 .. 1) /\ {1, 2} \in SUBSET (1 .. 2) /\ {2} \in SUBSET (1 .. 2)
  OBVIOUS
<1>2. Max({1}) = 1
  BY <1>1, LargestIs
<1>3. Max({1, 2}) = 2
  BY <1>1, LargestIs
<1>4. Max({2}) = 2
  BY <1>1, LargestIs
<1> QED BY <1>2, <1>3, <1>4

\* One step of the fold.
LEMMA LoadsAt ==
  ASSUME NEW reg, NEW ws, NEW g, Loads(g, reg, ws), NEW s \in SUBSET DOMAIN ws
  PROVE  g[s] = IF s = {} THEN reg ELSE Load(g[s \ {Max(s)}], ws[Max(s)].form)
BY DEF Loads

\* One word.
LEMMA LoadedOne ==
  ASSUME NEW reg, NEW ws, DOMAIN ws = {1}
  PROVE  Loaded(reg, ws) = Load(reg, ws[1].form)
<1>1. SUBSET {1} = {{}, {1}}
  OBVIOUS
<1> DEFINE h == [s \in SUBSET DOMAIN ws |-> IF s = {} THEN reg ELSE Load(reg, ws[1].form)]
<1>2. \A s \in SUBSET DOMAIN ws :
         h[s] = IF s = {} THEN reg ELSE Load(h[s \ {Max(s)}], ws[Max(s)].form)
  <2>1. h[{}] = reg /\ h[{1}] = Load(reg, ws[1].form) /\ {1} \ {1} = {}
    BY <1>1
  <2> HIDE DEF h
  <2> QED BY <1>1, <2>1, LargestOfTwo
<1>3. Loads(h, reg, ws)
  <2>1. h = [s \in SUBSET DOMAIN ws |-> h[s]]
    OBVIOUS
  <2> HIDE DEF h
  <2> QED BY <1>2, <2>1 DEF Loads
<1>4. PICK g : Loads(g, reg, ws) /\ Loaded(reg, ws) = g[DOMAIN ws]
  <2>1. \E g : Loads(g, reg, ws)
    <3> HIDE DEF h
    <3> QED BY <1>3
  <2> QED BY <2>1, LoadedIs
<1>5. {} \in SUBSET DOMAIN ws /\ {1} \in SUBSET DOMAIN ws /\ {1} \ {1} = {} /\ {1} # {}
  OBVIOUS
<1>6. g[{}] = reg
  BY <1>4, <1>5, LoadsAt
<1>7. g[{1}] = Load(g[{}], ws[1].form)
  <2> DEFINE s == {1}
  <2>1. Loads(g, reg, ws) /\ s \in SUBSET DOMAIN ws
    BY <1>4, <1>5
  <2>2. s # {} /\ Max(s) = 1 /\ s \ {1} = {}
    BY <1>5, LargestOfTwo
  <2>3. g[s] = Load(g[{}], ws[1].form)
    <3> HIDE DEF s
    <3>1. g[s] = IF s = {} THEN reg ELSE Load(g[s \ {Max(s)}], ws[Max(s)].form)
      BY <2>1, LoadsAt
    <3> QED BY <2>2, <3>1
  <2> QED BY <2>3
<1> QED BY <1>4, <1>6, <1>7

\* Two words.
LEMMA LoadedTwo ==
  ASSUME NEW reg, NEW ws, DOMAIN ws = {1, 2}
  PROVE  Loaded(reg, ws) = Load(Load(reg, ws[1].form), ws[2].form)
<1>1. SUBSET {1, 2} = {{}, {1}, {2}, {1, 2}}
  OBVIOUS
<1> DEFINE one == Load(reg, ws[1].form)
           h == [s \in SUBSET DOMAIN ws |-> IF s = {} THEN reg
                                            ELSE IF s = {1} THEN one
                                            ELSE IF s = {2} THEN Load(reg, ws[2].form)
                                            ELSE Load(one, ws[2].form)]
<1>2. \A s \in SUBSET DOMAIN ws :
         h[s] = IF s = {} THEN reg ELSE Load(h[s \ {Max(s)}], ws[Max(s)].form)
  <2>1. /\ h[{}] = reg /\ h[{1}] = one /\ h[{2}] = Load(reg, ws[2].form)
        /\ h[{1, 2}] = Load(one, ws[2].form)
    BY <1>1
  <2>2. {1} \ {1} = {} /\ {2} \ {2} = {} /\ {1, 2} \ {2} = {1} /\ {1} # {} /\ {2} # {}
          /\ {1, 2} # {}
    OBVIOUS
  <2> HIDE DEF h
  <2>3. h[{1}] = Load(h[{1} \ {Max({1})}], ws[Max({1})].form)
    BY <2>1, <2>2, LargestOfTwo
  <2>4. h[{2}] = Load(h[{2} \ {Max({2})}], ws[Max({2})].form)
    BY <2>1, <2>2, LargestOfTwo
  <2>5. h[{1, 2}] = Load(h[{1, 2} \ {Max({1, 2})}], ws[Max({1, 2})].form)
    BY <2>1, <2>2, LargestOfTwo
  <2>6. ASSUME NEW s \in SUBSET DOMAIN ws
        PROVE  h[s] = IF s = {} THEN reg ELSE Load(h[s \ {Max(s)}], ws[Max(s)].form)
    <3>1. s = {} \/ s = {1} \/ s = {2} \/ s = {1, 2}
      BY <1>1
    <3>2. CASE s = {}
      BY <2>1, <3>2
    <3>3. CASE s = {1}
      BY <2>2, <2>3, <3>3
    <3>4. CASE s = {2}
      BY <2>2, <2>4, <3>4
    <3>5. CASE s = {1, 2}
      BY <2>2, <2>5, <3>5
    <3> QED BY <3>1, <3>2, <3>3, <3>4, <3>5
  <2> QED BY <2>6
<1>3. Loads(h, reg, ws)
  <2>1. h = [s \in SUBSET DOMAIN ws |-> h[s]]
    OBVIOUS
  <2> HIDE DEF h
  <2> QED BY <1>2, <2>1 DEF Loads
<1>4. PICK g : Loads(g, reg, ws) /\ Loaded(reg, ws) = g[DOMAIN ws]
  <2>1. \E g : Loads(g, reg, ws)
    <3> HIDE DEF h
    <3> QED BY <1>3
  <2> QED BY <2>1, LoadedIs
<1>5. {} \in SUBSET DOMAIN ws /\ {1} \in SUBSET DOMAIN ws /\ {1, 2} \in SUBSET DOMAIN ws
        /\ {1} \ {1} = {} /\ {1, 2} \ {2} = {1} /\ {1} # {} /\ {1, 2} # {}
  OBVIOUS
<1>6. g[{}] = reg
  BY <1>4, <1>5, LoadsAt
<1>7. g[{1}] = Load(g[{}], ws[1].form)
  <2> DEFINE s == {1}
  <2>1. Loads(g, reg, ws) /\ s \in SUBSET DOMAIN ws
    BY <1>4, <1>5
  <2>2. s # {} /\ Max(s) = 1 /\ s \ {1} = {}
    BY <1>5, LargestOfTwo
  <2>3. g[s] = Load(g[{}], ws[1].form)
    <3> HIDE DEF s
    <3>1. g[s] = IF s = {} THEN reg ELSE Load(g[s \ {Max(s)}], ws[Max(s)].form)
      BY <2>1, LoadsAt
    <3> QED BY <2>2, <3>1
  <2> QED BY <2>3
<1>8. g[{1, 2}] = Load(g[{1}], ws[2].form)
  BY <1>4, <1>5, LargestOfTwo DEF Loads
<1> QED BY <1>4, <1>6, <1>7, <1>8

\* The form loads v into lanes a and a + 1 and leaves the others.
HalfLoaded(lanes, form, a, v) ==
  /\ Load(lanes, form) = [l \in DOMAIN lanes |-> Load(lanes, form)[l]]
  /\ \A l \in DOMAIN lanes :
       Load(lanes, form)[l] = IF l = a THEN (v \div 2^0) % 256
                              ELSE IF l = a + 1 THEN (v \div 2^8) % 256
                              ELSE lanes[l]

\* Register r, and the half of it that starts at lane a, is what the form loads.
HalfForm(form, r, a, v) ==
  /\ r \in Nat /\ a \in Nat
  /\ form.x[1].n = r /\ form.x[2].n = v
  /\ (form.x[1].f = 4 /\ a = 4 * r) \/ (form.x[1].f = 6 /\ a = 4 * r + 2)

\* An LDI of a half, whose lower lane is a: the lanes it fills, and what with.
LEMMA LoadOfHalf ==
  ASSUME NEW r, NEW v, NEW lanes, NEW a, NEW form, HalfForm(form, r, a, v)
  PROVE  HalfLoaded(lanes, form, a, v)
<1>0. r \in Nat /\ a \in Nat
  BY DEF HalfForm
<1> DEFINE to == FormLanes(form.x[1])
           low == CHOOSE l \in to : \A m \in to : l <= m
<1> DEFINE f == form.x[1].f
<1>1. /\ form.x[1].n = r /\ form.x[1].f = f /\ form.x[2].n = v
      /\ (f = 4 /\ a = 4 * r) \/ (f = 6 /\ a = 4 * r + 2)
  BY DEF HalfForm
<1> HIDE DEF f
<1>2. to = {a, a + 1}
  <2>1. to = {4 * r + (f - 4) + k : k \in 0 .. 2 - 1}
    BY <1>1 DEF FormLanes
  <2>2. 0 .. 2 - 1 = {0, 1} /\ 4 * r + (f - 4) + 0 = a /\ 4 * r + (f - 4) + 1 = a + 1
    BY <1>0, <1>1
  <2> QED BY <2>1, <2>2
<1> HIDE DEF to
<1>4. low = a
  BY <1>0, <1>2
<1> HIDE DEF low
<1>5. Load(lanes, form) = [l \in DOMAIN lanes |->
                             IF l \in to THEN (v \div 2^(8 * (l - low))) % 256 ELSE lanes[l]]
  BY <1>1 DEF Load, to, low
<1>6. 8 * (a - low) = 0 /\ 8 * ((a + 1) - low) = 8
  BY <1>0, <1>4
<1>7. \A l : (IF l \in to THEN (v \div 2^(8 * (l - low))) % 256 ELSE lanes[l])
               = IF l = a THEN (v \div 2^0) % 256
                 ELSE IF l = a + 1 THEN (v \div 2^8) % 256 ELSE lanes[l]
  <2> TAKE l
  <2>1. CASE l = a
    BY <1>2, <1>6, <2>1
  <2>2. CASE l = a + 1 /\ l # a
    BY <1>0, <1>2, <1>6, <2>2
  <2>3. CASE l # a + 1 /\ l # a
    BY <1>2, <2>3
  <2> QED BY <2>1, <2>2, <2>3
<1>8. Load(lanes, form) = [l \in DOMAIN lanes |-> Load(lanes, form)[l]]
  BY <1>5
<1>9. \A l \in DOMAIN lanes :
         Load(lanes, form)[l] = IF l = a THEN (v \div 2^0) % 256
                                ELSE IF l = a + 1 THEN (v \div 2^8) % 256 ELSE lanes[l]
  BY <1>5, <1>7
<1> QED BY <1>8, <1>9 DEF HalfLoaded

\* An LDI of a whole register.
LEMMA LoadOfWhole ==
  ASSUME NEW r \in Nat, NEW v, NEW lanes, DOMAIN lanes = 4 * r .. 4 * r + 3,
         NEW form, form = Form("LDI", <<[t |-> "reg", n |-> r, f |-> 7], I(v)>>)
  PROVE  Load(lanes, form)
           = [l \in 4 * r .. 4 * r + 3 |->
                IF l = 4 * r THEN (v \div 2^0) % 256
                ELSE IF l = 4 * r + 1 THEN (v \div 2^8) % 256
                ELSE IF l = 4 * r + 2 THEN (v \div 2^16) % 256 ELSE (v \div 2^24) % 256]
<1> DEFINE to == FormLanes(form.x[1])
           low == CHOOSE l \in to : \A m \in to : l <= m
           a == 4 * r
<1>1. form.x[1].n = r /\ form.x[1].f = 7 /\ form.x[2].n = v
  BY DEF Form, I
<1>2. to = {a, a + 1, a + 2, a + 3}
  <2>1. to = {4 * r + 0 + k : k \in 0 .. 4 - 1}
    BY <1>1 DEF FormLanes
  <2>2. 0 .. 4 - 1 = {0, 1, 2, 3} /\ \A k \in {0, 1, 2, 3} : 4 * r + 0 + k = a + k
    OBVIOUS
  <2>3. a + 0 = a
    OBVIOUS
  <2> QED BY <2>1, <2>2, <2>3
<1>3. a \in Nat /\ a .. a + 3 = {a, a + 1, a + 2, a + 3}
  OBVIOUS
<1>4. DOMAIN lanes = {a, a + 1, a + 2, a + 3}
  BY <1>3
<1> HIDE DEF to, a
<1>5. low = a
  BY <1>2, <1>3
<1> HIDE DEF low
<1>6. Load(lanes, form) = [l \in DOMAIN lanes |->
                             IF l \in to THEN (v \div 2^(8 * (l - low))) % 256 ELSE lanes[l]]
  BY <1>1 DEF Load, to, low
<1>7. 8 * (a - low) = 0 /\ 8 * ((a + 1) - low) = 8 /\ 8 * ((a + 2) - low) = 16
        /\ 8 * ((a + 3) - low) = 24
  BY <1>3, <1>5
<1>8. ASSUME NEW l \in DOMAIN lanes
      PROVE  (IF l \in to THEN (v \div 2^(8 * (l - low))) % 256 ELSE lanes[l])
               = IF l = a THEN (v \div 2^0) % 256
                 ELSE IF l = a + 1 THEN (v \div 2^8) % 256
                 ELSE IF l = a + 2 THEN (v \div 2^16) % 256 ELSE (v \div 2^24) % 256
  <2>0. a + 1 # a /\ a + 2 # a /\ a + 3 # a /\ a + 2 # a + 1 /\ a + 3 # a + 1 /\ a + 3 # a + 2
    BY <1>3
  <2>1. CASE l = a
    BY <1>2, <1>7, <2>1
  <2>2. CASE l = a + 1
    BY <1>2, <1>7, <2>0, <2>2
  <2>3. CASE l = a + 2
    BY <1>2, <1>7, <2>0, <2>3
  <2>4. CASE l = a + 3
    BY <1>2, <1>7, <2>0, <2>4
  <2> QED BY <1>4, <2>1, <2>2, <2>3, <2>4
<1>9. Load(lanes, form) = [l \in DOMAIN lanes |->
                             IF l = a THEN (v \div 2^0) % 256
                             ELSE IF l = a + 1 THEN (v \div 2^8) % 256
                             ELSE IF l = a + 2 THEN (v \div 2^16) % 256 ELSE (v \div 2^24) % 256]
  BY <1>6, <1>8
<1> QED BY <1>9 DEF a

\* MOV of a number loads that number: LoadsTheNumber.
LEMMA LoadsAll == UseInv => LoadsTheNumber
<1> SUFFICES ASSUME UseInv, state = "done", inst.op = "MOV", ~IsRegBase(inst.a[2])
             PROVE  LoadsTheNumber
  BY DEF LoadsTheNumber
<1> DEFINE c == inst.a[1]
           s == inst.a[2]
           d == GetRegister(c)
           reg == [l \in 4 * d.reg .. 4 * d.reg + 3 |-> -1]
           v == Value(s)
           whole == Form("LDI", <<R(c), I(v)>>)
           after == FoldLeft(LAMBDA r, w : Load(r, w.form), reg, words)
<1>1. /\ big \in BOOLEAN /\ inst.a \in Seq(Arguments) /\ MovOk(inst)
      /\ words = [k \in DOMAIN MovForms(inst) |->
                    [form |-> MovForms(inst)[k], bits |-> Encode(MovForms(inst)[k])]]
  BY DEF UseInv, LayoutInv, OpInv
<1>2. Len(inst.a) = 2
  BY <1>1 DEF MovOk
<1>3. c \in Arguments /\ s \in Arguments
  BY <1>1, <1>2
<1>4. RegisterIn(d) /\ d.offset * 8 + d.width <= 32 /\ v \in Int
  <2>1. NameOk(c, 1)
    BY <1>1 DEF MovOk, RegOk
  <2>2. RegisterIn(d)
    BY <1>3, ArgumentIs
  <2>3. d.offset * 8 + d.width <= 32
    BY <1>3, <2>1, NameIsOk
  <2>4. v \in Int
    BY <1>1, <1>3, ValueIs
  <2> QED BY <2>2, <2>3, <2>4
<1>5. d.width \in {8, 16, 32} /\ d.reg \in Nat /\ d.offset \in Nat
  <2>1. d \in [ok : BOOLEAN, reg : Nat, width : {8, 16, 32}, offset : Nat]
    BY <1>4 DEF RegisterIn
  <2> QED BY <2>1
<1>6. after = Loaded(reg, words)
  BY DEF Loaded
<1>7. CASE ~ (v > 65535)
  <2>1. MovForms(inst) = <<whole>>
    BY <1>7 DEF MovForms
  <2> HIDE DEF whole
  <2>2. DOMAIN MovForms(inst) = {1} /\ MovForms(inst)[1] = whole
    BY <2>1
  <2>3. DOMAIN words = {1} /\ words[1].form = whole
    BY <1>1, <2>2
  <2>4. after = Load(reg, whole)
    <3> HIDE DEF reg, after
    <3> QED BY <1>6, <2>3, LoadedOne
  <2> QED BY <2>4, Zenon DEF LoadsTheNumber, whole
<1>8. CASE v > 65535
  <2> DEFINE r == d.reg
             a == 4 * r
             b == 4 * r + 2
             hi == Form("LDI", <<[t |-> "reg", n |-> r, f |-> 6], I(v \div 65536)>>)
             lo == Form("LDI", <<[t |-> "reg", n |-> r, f |-> 4], I(v % 65536)>>)
  <2>1. d.width = 32
    <3>1. ImOk(s, 0, CASE d.width = 8 -> 255 [] d.width = 16 -> 65535 [] OTHER -> 2147483647)
      BY <1>1 DEF MovOk
    <3>2. v <= CASE d.width = 8 -> 255 [] d.width = 16 -> 65535 [] OTHER -> 2147483647
      BY <3>1 DEF ImOk
    <3> HIDE DEF d, v
    <3> QED BY <1>4, <1>5, <1>8, <3>2
  <2>2. R(c) = [t |-> "reg", n |-> r, f |-> 7]
    BY <2>1 DEF R, FieldType
  <2>3. MovForms(inst) = <<hi, lo>>
    <3>1. MovForms(inst) = <<Form("LDI", <<[R(c) EXCEPT !.f = 6], I(v \div 65536)>>),
                             Form("LDI", <<[R(c) EXCEPT !.f = 4], I(v % 65536)>>)>>
      BY <1>8 DEF MovForms
    <3> HIDE DEF d, v, r
    <3>2. [R(c) EXCEPT !.f = 6] = [t |-> "reg", n |-> r, f |-> 6]
      BY <2>2
    <3>3. [R(c) EXCEPT !.f = 4] = [t |-> "reg", n |-> r, f |-> 4]
      BY <2>2
    <3> QED BY <3>1, <3>2, <3>3
  <2>w. whole = Form("LDI", <<[t |-> "reg", n |-> r, f |-> 7], I(v)>>)
    BY <2>2
  <2> DEFINE vl == v % 65536
  <2>l. lo.x[1].n = r /\ lo.x[1].f = 4 /\ lo.x[2].n = vl
    BY DEF Form, I
  <2>h. hi.x[1].n = r /\ hi.x[1].f = 6 /\ hi.x[2].n = v \div 65536
    BY DEF Form, I
  <2> HIDE DEF whole, hi, lo
  <2>4. DOMAIN MovForms(inst) = {1, 2} /\ MovForms(inst)[1] = hi /\ MovForms(inst)[2] = lo
    BY <2>3
  <2>5. DOMAIN words = {1, 2} /\ words[1].form = hi /\ words[2].form = lo
    BY <1>1, <2>4
  <2>6. after = Load(Load(reg, hi), lo)
    <3> HIDE DEF reg, after
    <3> QED BY <1>6, <2>5, LoadedTwo
  <2>7. r \in Nat /\ DOMAIN reg = 4 * r .. 4 * r + 3
    BY <1>5
  <2> HIDE DEF d, r, v
  <2>s. /\ a \in Nat /\ b \in Nat /\ a = 4 * r /\ b = 4 * r + 2
        /\ a + 1 = 4 * r + 1 /\ b + 1 = 4 * r + 3
        /\ a # b /\ a # b + 1 /\ a + 1 # b /\ a + 1 # b + 1 /\ a # a + 1 /\ b # b + 1
    BY <2>7
  <2>t. 4 * r .. 4 * r + 3 = {a, a + 1, b, b + 1}
    BY <2>7
  <2> HIDE DEF a, b
  <2>8. HalfLoaded(reg, hi, b, v \div 65536)
    <3>1. HalfForm(hi, r, b, v \div 65536)
      BY <2>7, <2>h, <2>s DEF HalfForm
    <3> HIDE DEF reg
    <3> QED BY <3>1, LoadOfHalf
  <2> DEFINE mid == Load(reg, hi)
  <2> HIDE DEF vl
  <2>9. HalfLoaded(mid, lo, a, vl)
    <3>1. HalfForm(lo, r, a, vl)
      BY <2>7, <2>l, <2>s DEF HalfForm
    <3> HIDE DEF mid
    <3> QED BY <3>1, LoadOfHalf
  <2>10. Load(reg, whole) = [l \in 4 * r .. 4 * r + 3 |->
                IF l = 4 * r THEN (v \div 2^0) % 256
                ELSE IF l = 4 * r + 1 THEN (v \div 2^8) % 256
                ELSE IF l = 4 * r + 2 THEN (v \div 2^16) % 256 ELSE (v \div 2^24) % 256]
    <3> HIDE DEF reg
    <3> QED BY <2>7, <2>w, LoadOfWhole
  <2>u. \A l \in 4 * r .. 4 * r + 3 :
           Load(reg, whole)[l] = IF l = a THEN (v \div 2^0) % 256
                ELSE IF l = a + 1 THEN (v \div 2^8) % 256
                ELSE IF l = b THEN (v \div 2^16) % 256 ELSE (v \div 2^24) % 256
    BY <2>s, <2>10
  <2>v. DOMAIN reg = {a, a + 1, b, b + 1}
    BY <2>7, <2>t
  <2>11. DOMAIN mid = {a, a + 1, b, b + 1}
    <3> HIDE DEF reg
    <3> QED BY <2>8, <2>v DEF HalfLoaded
  <2>y. /\ mid[b] = ((v \div 65536) \div 2^0) % 256
        /\ mid[b + 1] = ((v \div 65536) \div 2^8) % 256
    <3> HIDE DEF reg
    <3> QED BY <2>8, <2>s, <2>v DEF HalfLoaded
  <2> HIDE DEF mid
  <2>12. /\ (vl \div 2^0) % 256 = (v \div 2^0) % 256
         /\ (vl \div 2^8) % 256 = (v \div 2^8) % 256
         /\ ((v \div 65536) \div 2^0) % 256 = (v \div 2^16) % 256
         /\ ((v \div 65536) \div 2^8) % 256 = (v \div 2^24) % 256
    BY <1>4 DEF vl
  <2> HIDE DEF reg
  <2>13. ASSUME NEW l \in 4 * r .. 4 * r + 3
         PROVE  Load(mid, lo)[l] = Load(reg, whole)[l]
    <3>0. l = a \/ l = a + 1 \/ l = b \/ l = b + 1
      BY <2>t
    <3>1. CASE l = a
      BY <2>u, <2>9, <2>11, <2>12, <3>1 DEF HalfLoaded
    <3>2. CASE l = a + 1
      BY <2>s, <2>u, <2>9, <2>11, <2>12, <3>2 DEF HalfLoaded
    <3>3. CASE l = b
      <4>1. Load(mid, lo)[l] = mid[b]
        BY <2>s, <2>9, <2>11, <3>3 DEF HalfLoaded
      <4>2. Load(reg, whole)[l] = (v \div 2^16) % 256
        BY <2>s, <2>u, <3>3
      <4> QED BY <2>y, <2>12, <4>1, <4>2
    <3>4. CASE l = b + 1
      <4>1. Load(mid, lo)[l] = mid[b + 1]
        BY <2>s, <2>9, <2>11, <3>4 DEF HalfLoaded
      <4>2. Load(reg, whole)[l] = (v \div 2^24) % 256
        BY <2>s, <2>u, <3>4
      <4> QED BY <2>y, <2>12, <4>1, <4>2
    <3> QED BY <3>0, <3>1, <3>2, <3>3, <3>4
  <2>14. Load(mid, lo) = Load(reg, whole)
    <3>1. Load(mid, lo) = [l \in 4 * r .. 4 * r + 3 |-> Load(mid, lo)[l]]
      BY <2>9, <2>11, <2>t DEF HalfLoaded
    <3>2. Load(reg, whole) = [l \in 4 * r .. 4 * r + 3 |-> Load(reg, whole)[l]]
      BY <2>10
    <3> QED BY <2>13, <3>1, <3>2
  <2>15. after = Load(reg, whole)
    BY <2>6, <2>14 DEF mid
  <2> HIDE DEF reg, after
  <2> QED BY <2>15, Zenon DEF LoadsTheNumber, whole, reg, after, d, v
<1> QED BY <1>7, <1>8

\* A MOV of a number leaves in its register what one load of the whole number would, also
\* when it takes two instructions (ProcessOp, pasmop.c:430-486).
THEOREM MovLoadsItsNumber == Spec => []LoadsTheNumber
<1>1. UseInv => LoadsTheNumber
  BY LoadsAll
<1> QED BY <1>1, AlwaysUse, PTL

-----------------------------------------------------------------------------
(* Scopes: PasmScope.                                                      *)
USE ScopeAssumption, ProgramsAssumption

\* up is the function that Nearest recurs with, on the scopes up to the k-th.
Climbs(up, sc, opened, k) ==
  up = [j \in 0 .. k |-> IF j = 0 \/ j \in opened THEN j ELSE up[sc[j].parent]]

\* Parents are older than their children.
Older(sc) == \A i \in DOMAIN sc : sc[i].parent \in Nat /\ sc[i].parent < i

\* There is such a function, built from the oldest scope on.
LEMMA ClimbExists ==
  ASSUME NEW S, NEW sc \in Seq(S), Older(sc), NEW opened, NEW k \in 0 .. Len(sc)
  PROVE  \E up : Climbs(up, sc, opened, k)
<1> DEFINE Bad == {m \in 0 .. Len(sc) : ~ \E up : Climbs(up, sc, opened, m)}
<1>1. SUFFICES ASSUME Bad # {} PROVE FALSE
  OBVIOUS
<1>2. Bad \in SUBSET Nat
  OBVIOUS
<1>3. PICK n \in Bad : \A m \in Bad : n <= m
  BY <1>1, <1>2, LeastNumber
<1>4. n \in 0 .. Len(sc) /\ ~ \E up : Climbs(up, sc, opened, n)
  OBVIOUS
<1>5. CASE n = 0
  <2>1. Climbs([j \in 0 .. 0 |-> 0], sc, opened, 0)
    BY DEF Climbs
  <2> QED BY <2>1, <1>4, <1>5
<1>6. CASE n # 0
  <2>1. n - 1 \in 0 .. Len(sc) /\ n - 1 \notin Bad
    BY <1>3, <1>4, <1>6
  <2>2. PICK g : Climbs(g, sc, opened, n - 1)
    BY <2>1
  <2> DEFINE h == [j \in 0 .. n |-> IF j < n THEN g[j]
                                    ELSE IF j \in opened THEN j ELSE g[sc[n].parent]]
  <2>3. n \in DOMAIN sc
    BY <1>4, <1>6
  <2>4. sc[n].parent \in 0 .. n - 1
    BY <2>3 DEF Older
  <2>5. ASSUME NEW j \in 0 .. n
        PROVE  h[j] = IF j = 0 \/ j \in opened THEN j ELSE h[sc[j].parent]
    <3>1. CASE j = n
      BY <3>1, <2>4, <1>6
    <3>2. CASE j < n
      <4>1. g[j] = IF j = 0 \/ j \in opened THEN j ELSE g[sc[j].parent]
        <5>1. j \in 0 .. n - 1
          BY <3>2, <1>4
        <5> HIDE DEF h
        <5> QED BY <2>2, <5>1 DEF Climbs
      <4>2. j # 0 => sc[j].parent \in 0 .. n - 1
        BY <3>2, <1>4 DEF Older
      <4> QED BY <3>2, <4>1, <4>2
    <3> QED BY <3>1, <3>2
  <2>6. h = [j \in 0 .. n |-> IF j = 0 \/ j \in opened THEN j ELSE h[sc[j].parent]]
    <3> HIDE DEF h
    <3>1. h = [j \in 0 .. n |-> h[j]]
      BY DEF h
    <3> QED BY <3>1, <2>5
  <2> QED BY <2>6, <1>4 DEF Climbs
<1> QED BY <1>5, <1>6

\* It ends in one of the open scopes, or in none.
LEMMA ClimbEnds ==
  ASSUME NEW S, NEW sc \in Seq(S), Older(sc), NEW opened, NEW up,
         Climbs(up, sc, opened, Len(sc)), NEW i \in 0 .. Len(sc)
  PROVE  up[i] = 0 \/ (up[i] \in opened /\ up[i] \in 1 .. Len(sc))
<1> DEFINE Bad == {m \in 0 .. Len(sc) :
                     ~ (up[m] = 0 \/ (up[m] \in opened /\ up[m] \in 1 .. Len(sc)))}
<1>1. SUFFICES ASSUME Bad # {} PROVE FALSE
  OBVIOUS
<1>2. Bad \in SUBSET Nat
  OBVIOUS
<1>3. PICK n \in Bad : \A m \in Bad : n <= m
  BY <1>1, <1>2, LeastNumber
<1>4. up[n] = IF n = 0 \/ n \in opened THEN n ELSE up[sc[n].parent]
  BY DEF Climbs
<1>5. n # 0 /\ n \notin opened
  BY <1>4
<1>6. sc[n].parent \in 0 .. n - 1
  BY <1>5 DEF Older
<1>7. sc[n].parent \notin Bad /\ sc[n].parent \in 0 .. Len(sc)
  BY <1>3, <1>6
<1> QED BY <1>4, <1>5, <1>7

\* ScopeClose returns an open scope older than the one it starts from, or none.
LEMMA NearestIsOpen ==
  ASSUME NEW S, scopes \in Seq(S), Older(scopes), NEW opened, NEW i \in 0 .. Len(scopes)
  PROVE  Nearest(opened, i) = 0
           \/ (Nearest(opened, i) \in opened /\ Nearest(opened, i) \in 1 .. Len(scopes))
<1> DEFINE u == CHOOSE up : Climbs(up, scopes, opened, Len(scopes))
<1>1. Len(scopes) \in 0 .. Len(scopes)
  OBVIOUS
<1>2. \E up : Climbs(up, scopes, opened, Len(scopes))
  BY <1>1, ClimbExists
<1>3. Climbs(u, scopes, opened, Len(scopes))
  BY <1>2
<1>4. Nearest(opened, i) = u[i]
  BY DEF Nearest, Climbs
<1> HIDE DEF u
<1> QED BY <1>3, <1>4, ClimbEnds

-----------------------------------------------------------------------------
(* The lookups, of any list of scopes.                                     *)

\* AssignFind in the scopes of sc.
FindIn(sc, n) ==
  Max({0} \cup {i \in DOMAIN sc : sc[i].open /\ n \in sc[i].assigned})

\* The scopes of sc that have the name n.
NamedIn(sc, n) == {i \in DOMAIN sc : sc[i].name = n}

\* AssignFind returns the number of a scope, or 0.
LEMMA FindType ==
  ASSUME NEW S, NEW sc \in Seq(S), NEW n
  PROVE  FindIn(sc, n) \in 0 .. Len(sc)
<1> DEFINE T == {0} \cup {i \in DOMAIN sc : sc[i].open /\ n \in sc[i].assigned}
<1>1. T \in SUBSET (0 .. Len(sc)) /\ T # {}
  OBVIOUS
<1> HIDE DEF T
<1>2. Len(sc) \in Nat
  OBVIOUS
<1>3. Max(T) \in T
  BY <1>1, <1>2, LargestNumber
<1>4. Max(T) \in 0 .. Len(sc)
  BY <1>1, <1>3
<1> QED BY <1>4 DEF FindIn, T

\* The searches of the model are those of the list scopes.
LEMMA FindsIn == \A n : AssignFind(n) = FindIn(scopes, n) /\ ScopeFind(n) = NamedIn(scopes, n)
BY DEF AssignFind, FindIn, ScopeFind, NamedIn

-----------------------------------------------------------------------------
(* Types, and the chain of scopes.                                         *)

\* A scope, of any list.
ScopeRecord == [name : Symbols \cup {Root}, open : BOOLEAN, parent : Nat, assigned : SUBSET Symbols]

\* The first scope is the root, the others were entered with names of their own, at
\* statements before this one.
Chain ==
  /\ scopes \in Seq(ScopeRecord) /\ scopeCur \in 0 .. Len(scopes)
  /\ Len(scopes) \in 1 .. pos /\ scopes[1].name = Root
  /\ \A i \in DOMAIN scopes : scopes[i].parent < i
  /\ \A i, j \in DOMAIN scopes : scopes[i].name = scopes[j].name => i = j
  /\ scopeCur # 0 => scopes[scopeCur].open

\* What the passes keep besides.
Progress ==
  /\ program \in Seq(Stmt) /\ included \in Included /\ included <= Len(program)
  /\ phase \in {"pass", "done", "undefined"} /\ Pass \in 1 .. 2
  /\ pos \in 1 .. Len(program) + 1 /\ Errors \in Nat
  /\ labels \subseteq Symbols
  /\ DOMAIN structs \subseteq Symbols
  /\ structCur \in DOMAIN structs \cup {NoStruct, Freed}

\* The inductive invariant.
ScopeInv == Progress /\ Chain

\* A list of scopes with a scope more, or with one that is changed.
LEMMA OlderScopes ==
  ASSUME NEW sc \in Seq(ScopeRecord), \A i \in DOMAIN sc : sc[i].parent < i
  PROVE  Older(sc)
<1>1. ASSUME NEW i \in DOMAIN sc PROVE sc[i].parent \in Nat
  <2>1. sc[i] \in ScopeRecord
    OBVIOUS
  <2> QED BY <2>1 DEF ScopeRecord
<1> QED BY <1>1 DEF Older

\* A free name is not one of a scope.
LEMMA FreeName ==
  ASSUME NEW n, CheckName(n)
  PROVE  /\ n # Register /\ n \notin labels /\ n \notin DOMAIN structs
         /\ FindIn(scopes, n) = 0 /\ NamedIn(scopes, n) = {}
BY FindsIn DEF CheckName, CheckStruct

\* An operand is a name of the program, the root or a register.
LEMMA OperandType ==
  ASSUME NEW n
  PROVE  Resolved(n) = n \/ Resolved(n) = Register
BY DEF Resolved

\* The statement the pass is at.
LEMMA CurType ==
  ASSUME Progress, NEW op, Reading(op)
  PROVE  /\ pos <= Len(program) /\ pos \in 1 .. Len(program) /\ Cur \in Stmt /\ Cur.op = op
         /\ Cur.n \in Symbols \cup {Root} /\ Cur.m \in Symbols
<1>1. pos \in 1 .. Len(program) /\ Cur.op = op
  BY DEF Progress, Reading, Cur
<1>2. Cur \in Stmt
  BY <1>1 DEF Progress, Cur
<1> QED BY <1>1, <1>2 DEF Stmt

\* Where the source is read next, when a line is accepted or fails.
LEMMA PosMoves ==
  ASSUME Progress, NEW op, Reading(op), Done \/ Failed \/ Warned
  PROVE  /\ pos' \in pos + 1 .. Len(program) + 1 /\ Errors' \in Nat
         /\ Pass' = Pass /\ phase' = phase /\ program' = program /\ included' = included
<1>1. pos \in 1 .. Len(program)
  BY CurType
<1>2. CASE Done
  BY <1>1, <1>2 DEF Progress, Done
<1>3. CASE Failed
  <2>1. /\ Errors' = Errors + 1 /\ UNCHANGED <<program, included, phase, Pass>>
        /\ pos' = CASE Pass = 1 -> pos + 1 [] Pass = 2 /\ pos <= included -> included + 1
                    [] OTHER -> Len(program) + 1
    BY <1>3 DEF Failed
  <2>2. included \in Nat /\ included <= Len(program) /\ Len(program) \in Nat
    BY DEF Progress
  <2>3. CASE Pass = 1
    BY <2>1, <2>3, <1>1 DEF Progress
  <2>4. CASE Pass = 2 /\ pos <= included
    BY <2>1, <2>2, <2>4, <1>1 DEF Progress
  <2>5. CASE Pass = 2 /\ ~ (pos <= included)
    BY <2>1, <2>2, <2>5, <1>1 DEF Progress
  <2> QED BY <2>3, <2>4, <2>5 DEF Progress
<1>4. CASE Warned
  BY <1>1, <1>4 DEF Progress, Warned
<1> QED BY <1>2, <1>3, <1>4

\* A step that leaves the scopes alone.
LEMMA ChainKept ==
  ASSUME Chain, Progress, UNCHANGED <<scopes, scopeCur>>, pos' \in Nat, pos <= pos'
  PROVE  Chain'
BY DEF Chain, Progress

\* A step of a line that leaves every name alone, or adds labels and structures only.
LEMMA ProgressKept ==
  ASSUME Progress, NEW op, Reading(op), Done \/ Failed \/ Warned,
         labels' \subseteq Symbols, DOMAIN structs' \subseteq Symbols,
         structCur' \in DOMAIN structs' \cup {NoStruct, Freed}
  PROVE  Progress' /\ pos' \in Nat /\ pos <= pos'
<1>1. /\ pos' \in pos + 1 .. Len(program) + 1 /\ Errors' \in Nat
      /\ Pass' = Pass /\ phase' = phase /\ program' = program /\ included' = included
  BY PosMoves
<1>2. pos \in Nat /\ pos' \in 1 .. Len(program) + 1
  BY <1>1 DEF Progress
<1> QED BY <1>1, <1>2 DEF Progress

\* A line that is rejected.
LEMMA RejectedInv ==
  ASSUME ScopeInv, NEW op, Reading(op), UNCHANGED names, Done \/ Failed \/ Warned
  PROVE  ScopeInv'
<1>1. Progress' /\ pos' \in Nat /\ pos <= pos'
  BY ProgressKept DEF ScopeInv, Progress, names
<1>2. Chain'
  BY <1>1, ChainKept DEF ScopeInv, names
<1> QED BY <1>1, <1>2 DEF ScopeInv

\* A line that changes labels and structures only.
LEMMA StructsInv ==
  ASSUME ScopeInv, NEW op, Reading(op), UNCHANGED <<scopes, scopeCur>>,
         Done \/ Failed \/ Warned,
         labels' \subseteq Symbols, DOMAIN structs' \subseteq Symbols,
         structCur' \in DOMAIN structs' \cup {NoStruct, Freed}
  PROVE  ScopeInv'
<1>1. Progress' /\ pos' \in Nat /\ pos <= pos'
  BY ProgressKept DEF ScopeInv
<1>2. Chain'
  BY <1>1, ChainKept DEF ScopeInv
<1> QED BY <1>1, <1>2 DEF ScopeInv

\* The root is always a scope, so a free name is another one.
LEMMA NotRoot ==
  ASSUME Chain, NEW n, CheckName(n)
  PROVE  n # Root
<1>1. 1 \in DOMAIN scopes /\ scopes[1].name = Root
  BY DEF Chain
<1>2. NamedIn(scopes, n) = {}
  BY FreeName
<1> QED BY <1>1, <1>2 DEF NamedIn

\* A free operand is a name of the program, not a register.
LEMMA FreeOperand ==
  ASSUME ScopeInv, NEW n \in Symbols \cup {Root}, CheckName(Resolved(n))
  PROVE  Resolved(n) = n /\ n \in Symbols
<1>1. Resolved(n) # Register
  BY FreeName
<1>2. Resolved(n) = n
  BY <1>1, OperandType
<1>3. n # Root
  BY <1>2, NotRoot DEF ScopeInv
<1> QED BY <1>2, <1>3

\* Every step keeps the invariant: one lemma per action.
LEMMA InitInv ==
  ASSUME ScopesInit
  PROVE  ScopeInv
<1>1. program \in Seq(Stmt) /\ included \in Included /\ included <= Len(program) /\ included \in Nat
  BY DEF ScopesInit
<1>2. Progress
  <2>1. DOMAIN structs = {}
    BY DEF ScopesInit, NoStructs
  <2>2. /\ phase \in {"pass", "done", "undefined"} /\ Pass \in 1 .. 2 /\ Errors \in Nat
        /\ pos = 1 /\ labels \subseteq Symbols /\ structCur = NoStruct
    BY DEF ScopesInit
  <2>3. 1 \in 1 .. Len(program) + 1
    BY <1>1
  <2> QED BY <1>1, <2>1, <2>2, <2>3 DEF Progress
<1>3. Chain
  <2>1. scopes = <<RootScope>> /\ scopeCur = 1 /\ pos = 1
    BY DEF ScopesInit
  <2>2. RootScope \in ScopeRecord /\ RootScope.name = Root /\ RootScope.parent = 0 /\ RootScope.open
    BY DEF RootScope, ScopeRecord
  <2>3. scopes \in Seq(ScopeRecord) /\ Len(scopes) = 1 /\ scopes[1] = RootScope
          /\ DOMAIN scopes = {1}
    BY <2>1, <2>2
  <2> QED BY <2>1, <2>2, <2>3 DEF Chain
<1> QED BY <1>2, <1>3 DEF ScopeInv

\* Pass 2 starts with the root alone.
LEMMA NextPassInv ==
  ASSUME ScopeInv, NextPass
  PROVE  ScopeInv' /\ scopes' = <<RootScope>>
<1>1. Progress'
  <2>1. DOMAIN structs' = {} /\ structCur' \in {NoStruct, Freed}
    BY DEF NextPass, CleanupStructs, NoStructs
  <2>2. Pass' = 2 /\ pos' = 1 /\ UNCHANGED <<program, included, phase, Errors, labels>>
    BY DEF NextPass
  <2>3. 1 \in 1 .. Len(program) + 1
    BY DEF ScopeInv, Progress
  <2> QED BY <2>1, <2>2, <2>3 DEF Progress, ScopeInv
<1>2. Nearest({}, scopeCur) = 0
  <2>1. scopes \in Seq(ScopeRecord) /\ Older(scopes) /\ scopeCur \in 0 .. Len(scopes)
    BY OlderScopes DEF ScopeInv, Chain
  <2> QED BY <2>1, NearestIsOpen
<1>3. scopes' = <<RootScope>> /\ scopeCur' = 1 /\ pos' = 1
  <2>1. [RootScope EXCEPT !.parent = 0] = RootScope
    <3>1. RootScope = [name |-> Root, open |-> TRUE, parent |-> 0, assigned |-> {}]
      BY DEF RootScope
    <3>2. [RootScope EXCEPT !.parent = 0]
            = [f \in DOMAIN RootScope |-> IF f = "parent" THEN 0 ELSE RootScope[f]]
      BY <3>1
    <3>3. RootScope = [f \in DOMAIN RootScope |-> RootScope[f]]
      BY <3>1
    <3>4. DOMAIN RootScope = {"name", "open", "parent", "assigned"} /\ RootScope["parent"] = 0
      BY <3>1
    <3> QED BY <3>2, <3>3, <3>4
  <2> QED BY <1>2, <2>1 DEF NextPass, CleanupScopes
<1>4. Chain'
  <2>2. RootScope \in ScopeRecord /\ RootScope.name = Root /\ RootScope.parent = 0 /\ RootScope.open
    BY DEF RootScope, ScopeRecord
  <2>3. scopes' \in Seq(ScopeRecord) /\ Len(scopes') = 1 /\ scopes'[1] = RootScope
          /\ DOMAIN scopes' = {1}
    BY <1>3, <2>2
  <2> QED BY <1>3, <2>2, <2>3 DEF Chain
<1> QED BY <1>1, <1>3, <1>4 DEF ScopeInv

\* Label: the scopes stay.
LEMMA LabelInv ==
  ASSUME ScopeInv, Label
  PROVE  ScopeInv'
<1>1. Reading("label") /\ Cur.n \in Symbols \cup {Root}
  BY CurType DEF Label, ScopeInv
<1>2. CASE Pass = 1 /\ ~CheckName(Cur.n)
  <2>1. UNCHANGED names /\ Warned
    BY <1>2 DEF Label
  <2> QED BY <2>1, <1>1, RejectedInv
<1>3. CASE ~ (Pass = 1 /\ ~CheckName(Cur.n))
  <2>1. /\ labels' = IF Pass = 1 THEN labels \cup {Cur.n} ELSE labels
        /\ UNCHANGED <<structs, structCur, scopes, scopeCur>> /\ Done
    BY <1>3 DEF Label
  <2>2. Pass = 1 => Cur.n \in Symbols
    BY <1>1, <1>3, NotRoot DEF ScopeInv
  <2>3. labels' \subseteq Symbols
    BY <2>1, <2>2 DEF ScopeInv, Progress
  <2>4. DOMAIN structs' \subseteq Symbols /\ structCur' \in DOMAIN structs' \cup {NoStruct, Freed}
    BY <2>1 DEF ScopeInv, Progress
  <2> QED BY <1>1, <2>1, <2>3, <2>4, StructsInv
<1> QED BY <1>2, <1>3

\* StructNew: the scopes stay.
LEMMA StructNewInv ==
  ASSUME ScopeInv, StructNew
  PROVE  ScopeInv'
<1> DEFINE n == Resolved(Cur.n)
<1>1. Reading("struct") /\ Cur.n \in Symbols \cup {Root}
  BY CurType DEF StructNew, ScopeInv
<1>2. CASE structCur # NoStruct \/ ~CheckName(n)
  <2>1. UNCHANGED names /\ Failed
    BY <1>2 DEF StructNew, Rejected
  <2> QED BY <2>1, <1>1, RejectedInv
<1>3. CASE ~ (structCur # NoStruct \/ ~CheckName(n))
  <2>1. /\ structs' = [s \in DOMAIN structs \cup {n} |-> IF s = n THEN <<>> ELSE structs[s]]
        /\ structCur' = n
        /\ UNCHANGED <<labels, scopes, scopeCur>> /\ Done
    BY <1>3 DEF StructNew
  <2>2. n \in Symbols
    BY <1>1, <1>3, FreeOperand
  <2> HIDE DEF n
  <2>3. DOMAIN structs' = DOMAIN structs \cup {n}
    BY <2>1
  <2>4. DOMAIN structs' \subseteq Symbols /\ structCur' \in DOMAIN structs' \cup {NoStruct, Freed}
        /\ labels' \subseteq Symbols
    BY <2>1, <2>2, <2>3 DEF ScopeInv, Progress
  <2> QED BY <1>1, <2>1, <2>4, StructsInv
<1> QED BY <1>2, <1>3

\* StructAddElement: the scopes stay.
LEMMA StructAddElementInv ==
  ASSUME ScopeInv, StructAddElement
  PROVE  ScopeInv'
<1>1. Reading("element")
  BY DEF StructAddElement
<1>2. \/ UNCHANGED names /\ (Failed \/ Warned)
      \/ /\ structs' = [structs EXCEPT ![structCur] = Append(@, Resolved(Cur.n))]
         /\ UNCHANGED <<labels, structCur, scopes, scopeCur>> /\ Done
  <2>1. CASE structCur = NoStruct
    BY <2>1 DEF StructAddElement, Rejected
  <2>2. CASE structCur # NoStruct /\ Resolved(Cur.n) = Register
    BY <2>2 DEF StructAddElement, Rejected
  <2>3. CASE structCur # NoStruct /\ Resolved(Cur.n) # Register
    BY <2>3 DEF StructAddElement, Rejected
  <2> QED BY <2>1, <2>2, <2>3
<1>3. CASE UNCHANGED names /\ (Failed \/ Warned)
  BY <1>1, <1>3, RejectedInv
<1>4. CASE /\ structs' = [structs EXCEPT ![structCur] = Append(@, Resolved(Cur.n))]
           /\ UNCHANGED <<labels, structCur, scopes, scopeCur>> /\ Done
  <2>1. DOMAIN structs' = DOMAIN structs
    BY <1>4
  <2>2. DOMAIN structs' \subseteq Symbols /\ structCur' \in DOMAIN structs' \cup {NoStruct, Freed}
        /\ labels' \subseteq Symbols
    BY <1>4, <2>1 DEF ScopeInv, Progress
  <2> QED BY <1>1, <1>4, <2>2, StructsInv
<1> QED BY <1>2, <1>3, <1>4

\* StructEnd: the scopes stay.
LEMMA StructEndInv ==
  ASSUME ScopeInv, StructEnd
  PROVE  ScopeInv'
<1>1. Reading("ends")
  BY DEF StructEnd
<1>2. CASE structCur = NoStruct
  <2>1. UNCHANGED names /\ Failed
    BY <1>2 DEF StructEnd, Rejected
  <2> QED BY <2>1, <1>1, RejectedInv
<1>3. CASE structCur # NoStruct
  <2>1. structCur' = NoStruct /\ UNCHANGED <<labels, structs, scopes, scopeCur>>
        /\ (Failed \/ Done)
    BY <1>3 DEF StructEnd
  <2>2. DOMAIN structs' \subseteq Symbols /\ structCur' \in DOMAIN structs' \cup {NoStruct, Freed}
        /\ labels' \subseteq Symbols
    BY <2>1 DEF ScopeInv, Progress
  <2> QED BY <1>1, <2>1, <2>2, StructsInv
<1> QED BY <1>2, <1>3

\* One scope is opened, closed or given a name; its own name and its parent stay.
Changed(sc, s, r) ==
  /\ sc[s].name = r.name /\ sc[s].parent = r.parent
  /\ scopes' = [sc EXCEPT ![s] = r]

\* A step that changes one scope, and neither its name nor its parent.
LEMMA ChangedScope ==
  ASSUME ScopeInv, NEW s \in DOMAIN scopes, NEW r \in ScopeRecord, Changed(scopes, s, r),
         NEW op, Reading(op), Done, UNCHANGED <<labels, structs, structCur>>,
         scopeCur' \in 0 .. Len(scopes),
         scopeCur' # 0 => IF scopeCur' = s THEN r.open ELSE scopes[scopeCur'].open
  PROVE  ScopeInv'
<1>1. Progress' /\ pos' \in Nat /\ pos <= pos'
  BY ProgressKept DEF ScopeInv, Progress
<1>2. scopes' \in Seq(ScopeRecord) /\ Len(scopes') = Len(scopes) /\ DOMAIN scopes' = DOMAIN scopes
      /\ DOMAIN scopes = 1 .. Len(scopes)
  BY DEF ScopeInv, Chain, Changed
<1>3. \A i \in DOMAIN scopes : scopes'[i] = IF i = s THEN r ELSE scopes[i]
  BY DEF ScopeInv, Chain, Changed
<1>4. \A i \in DOMAIN scopes : scopes'[i].name = scopes[i].name
        /\ scopes'[i].parent = scopes[i].parent
  BY <1>3 DEF Changed
<1>5. scopeCur' # 0 => scopes'[scopeCur'].open
  BY <1>2, <1>3
<1>6. Len(scopes) \in 1 .. pos'
  BY <1>1 DEF ScopeInv, Chain, Progress
<1>7. Chain'
  BY <1>2, <1>4, <1>5, <1>6 DEF ScopeInv, Chain
<1> QED BY <1>1, <1>7 DEF ScopeInv

\* StructAssign: the open scope has a name more.
LEMMA StructAssignInv ==
  ASSUME ScopeInv, AssignStruct
  PROVE  ScopeInv'
<1> DEFINE m == Resolved(Cur.m)
           bad == \/ structCur # NoStruct \/ scopeCur = 0
                  \/ Resolved(Cur.n) \notin DOMAIN structs
                  \/ ~CheckName(m)
<1>1. Reading("assign") /\ Cur.m \in Symbols
  BY CurType DEF AssignStruct, ScopeInv
<1>2. CASE bad
  <2>1. UNCHANGED names /\ Failed
    BY <1>2 DEF AssignStruct, Rejected
  <2> QED BY <2>1, <1>1, RejectedInv
<1>3. CASE ~bad
  <2>1. /\ scopes' = [scopes EXCEPT ![scopeCur].assigned = @ \cup {m}]
        /\ UNCHANGED <<labels, structs, structCur, scopeCur>> /\ Done
    BY <1>3 DEF AssignStruct
  <2>2. m \in Symbols /\ scopeCur \in DOMAIN scopes /\ scopes[scopeCur].open
    <3>1. m \in Symbols
      BY <1>1, <1>3, FreeOperand
    <3>2. scopeCur \in DOMAIN scopes /\ scopes[scopeCur].open
      BY <1>3 DEF ScopeInv, Chain
    <3> QED BY <3>1, <3>2
  <2> HIDE DEF m
  <2> DEFINE r == [scopes[scopeCur] EXCEPT !.assigned = @ \cup {m}]
  <2>3. scopes[scopeCur] \in ScopeRecord
    BY <2>2 DEF ScopeInv, Chain
  <2>4. r \in ScopeRecord /\ r.name = scopes[scopeCur].name /\ r.parent = scopes[scopeCur].parent
        /\ r.open = scopes[scopeCur].open
    BY <2>2, <2>3 DEF ScopeRecord
  <2>5. scopes' = [scopes EXCEPT ![scopeCur] = r]
    BY <2>1
  <2> HIDE DEF r
  <2>6. Changed(scopes, scopeCur, r)
    BY <2>4, <2>5 DEF Changed
  <2>7. scopeCur' \in 0 .. Len(scopes) /\ (scopeCur' # 0 => r.open) /\ scopeCur' = scopeCur
    BY <2>1, <2>2, <2>4 DEF ScopeInv, Chain
  <2> QED BY <2>1, <2>2, <2>4, <2>6, <2>7, <1>1, ChangedScope
<1> QED BY <1>2, <1>3

\* ScopeCreate: a scope more, whose name was free.
LEMMA ScopeEnterInv ==
  ASSUME ScopeInv, ScopeEnter
  PROVE  ScopeInv'
<1> DEFINE n == Resolved(Cur.n)
<1>1. Reading("enter") /\ Cur.n \in Symbols \cup {Root}
  BY CurType DEF ScopeEnter, ScopeInv
<1>2. CASE ~CheckName(n)
  <2>1. UNCHANGED names /\ Failed
    BY <1>2 DEF ScopeEnter, Rejected
  <2> QED BY <2>1, <1>1, RejectedInv
<1>3. CASE CheckName(n)
  <2> DEFINE r == [name |-> n, open |-> TRUE, parent |-> scopeCur, assigned |-> {}]
  <2>1. /\ scopes' = Append(scopes, r) /\ scopeCur' = Len(scopes')
        /\ UNCHANGED <<labels, structs, structCur>> /\ Done
    BY <1>3 DEF ScopeEnter
  <2>2. n \in Symbols /\ NamedIn(scopes, n) = {}
    BY <1>1, <1>3, FreeOperand, FreeName
  <2> HIDE DEF n
  <2>3. r \in ScopeRecord /\ r.name = n /\ r.open /\ r.parent = scopeCur
    BY <2>2 DEF ScopeRecord, ScopeInv, Chain
  <2> HIDE DEF r
  <2>4. Progress' /\ pos' \in pos + 1 .. Len(program) + 1
    BY <1>1, <2>1, ProgressKept, PosMoves DEF ScopeInv, Progress
  <2>5. scopes \in Seq(ScopeRecord) /\ Len(scopes) \in 1 .. pos
    BY DEF ScopeInv, Chain
  <2>6. /\ scopes' \in Seq(ScopeRecord) /\ Len(scopes') = Len(scopes) + 1
        /\ DOMAIN scopes = 1 .. Len(scopes) /\ DOMAIN scopes' = 1 .. Len(scopes) + 1
        /\ scopes'[Len(scopes) + 1] = r
        /\ \A i \in 1 .. Len(scopes) : scopes'[i] = scopes[i]
    BY <2>1, <2>3, <2>5
  <2>7. \A i \in DOMAIN scopes' : scopes'[i].parent < i
    BY <2>3, <2>6 DEF ScopeInv, Chain
  <2>8. \A i \in DOMAIN scopes : scopes[i].name # n
    BY <2>2 DEF NamedIn
  <2>9. \A i, j \in DOMAIN scopes' : scopes'[i].name = scopes'[j].name => i = j
    <3> TAKE i, j \in DOMAIN scopes'
    <3>1. CASE i \in 1 .. Len(scopes) /\ j \in 1 .. Len(scopes)
      BY <3>1, <2>6 DEF ScopeInv, Chain
    <3>2. CASE i = Len(scopes) + 1 \/ j = Len(scopes) + 1
      BY <3>2, <2>3, <2>6, <2>8
    <3> QED BY <3>1, <3>2, <2>6, <2>5
  <2>10. Len(scopes') \in 1 .. pos'
    BY <2>4, <2>5, <2>6 DEF ScopeInv, Progress
  <2>11. scopes'[1].name = Root
    BY <2>5, <2>6 DEF ScopeInv, Chain
  <2>12. scopeCur' \in 0 .. Len(scopes') /\ scopes'[scopeCur'].open
    BY <2>1, <2>3, <2>5, <2>6
  <2>13. Chain'
    BY <2>6, <2>7, <2>9, <2>10, <2>11, <2>12 DEF Chain
  <2> QED BY <2>4, <2>13 DEF ScopeInv
<1> QED BY <1>2, <1>3

\* ScopeClose: the pass goes on in an open scope or in none.
LEMMA ScopeLeaveInv ==
  ASSUME ScopeInv, ScopeLeave
  PROVE  ScopeInv'
<1> DEFINE found == ScopeFind(Resolved(Cur.n))
<1>1. Reading("leave")
  BY DEF ScopeLeave
<1>2. CASE found \cap OpenScopes = {}
  <2>1. UNCHANGED names /\ Failed
    BY <1>2 DEF ScopeLeave, Rejected
  <2> QED BY <2>1, <1>1, RejectedInv
<1>3. CASE found \cap OpenScopes # {}
  <2>1. PICK s \in found :
               /\ scopes' = [scopes EXCEPT ![s].open = FALSE]
               /\ scopeCur' = Nearest(OpenScopes \ {s}, scopeCur)
               /\ UNCHANGED <<labels, structs, structCur>> /\ Done
    BY <1>3 DEF ScopeLeave
  <2>2. s \in DOMAIN scopes
    BY DEF ScopeFind
  <2> HIDE DEF found
  <2> DEFINE r == [scopes[s] EXCEPT !.open = FALSE]
  <2>3. scopes[s] \in ScopeRecord
    BY <2>2 DEF ScopeInv, Chain
  <2>4. r \in ScopeRecord /\ r.name = scopes[s].name /\ r.parent = scopes[s].parent
    BY <2>3 DEF ScopeRecord
  <2>5. scopes' = [scopes EXCEPT ![s] = r]
    BY <2>1
  <2> HIDE DEF r
  <2>6. Changed(scopes, s, r)
    BY <2>4, <2>5 DEF Changed
  <2> DEFINE opened == OpenScopes \ {s}
  <2>7. scopes \in Seq(ScopeRecord) /\ Older(scopes) /\ scopeCur \in 0 .. Len(scopes)
    BY OlderScopes DEF ScopeInv, Chain
  <2> HIDE DEF opened
  <2>8. Nearest(opened, scopeCur) = 0
          \/ (Nearest(opened, scopeCur) \in opened
               /\ Nearest(opened, scopeCur) \in 1 .. Len(scopes))
    BY <2>7, NearestIsOpen
  <2>9. scopeCur' = Nearest(opened, scopeCur)
    BY <2>1 DEF opened
  <2>10. scopeCur' \in 0 .. Len(scopes)
    BY <2>7, <2>8, <2>9
  <2>11. scopeCur' # 0 => scopeCur' # s /\ scopes[scopeCur'].open
    BY <2>8, <2>9 DEF opened, OpenScopes
  <2> QED BY <2>1, <2>2, <2>4, <2>6, <2>10, <2>11, <1>1, ChangedScope
<1> QED BY <1>2, <1>3

\* ScopeUsing: the scope is open again.
LEMMA ScopeUsingInv ==
  ASSUME ScopeInv, ScopeUsing
  PROVE  ScopeInv'
<1> DEFINE found == ScopeFind(Resolved(Cur.n))
<1>1. Reading("using")
  BY DEF ScopeUsing
<1>2. CASE found = {} \/ found \cap OpenScopes # {}
  <2>1. UNCHANGED names /\ Failed
    BY <1>2 DEF ScopeUsing, Rejected
  <2> QED BY <2>1, <1>1, RejectedInv
<1>3. CASE ~ (found = {} \/ found \cap OpenScopes # {})
  <2>1. PICK s \in found :
               /\ scopes' = [scopes EXCEPT ![s].open = TRUE]
               /\ scopeCur' = s
               /\ UNCHANGED <<labels, structs, structCur>> /\ Done
    BY <1>3 DEF ScopeUsing
  <2>2. s \in DOMAIN scopes
    BY DEF ScopeFind
  <2> HIDE DEF found
  <2> DEFINE r == [scopes[s] EXCEPT !.open = TRUE]
  <2>3. scopes[s] \in ScopeRecord
    BY <2>2 DEF ScopeInv, Chain
  <2>4. r \in ScopeRecord /\ r.name = scopes[s].name /\ r.parent = scopes[s].parent /\ r.open
    BY <2>3 DEF ScopeRecord
  <2>5. scopes' = [scopes EXCEPT ![s] = r]
    BY <2>1
  <2> HIDE DEF r
  <2>6. Changed(scopes, s, r)
    BY <2>4, <2>5 DEF Changed
  <2>7. scopeCur' \in 0 .. Len(scopes) /\ scopeCur' = s
    BY <2>1, <2>2 DEF ScopeInv, Chain
  <2> QED BY <2>1, <2>2, <2>4, <2>6, <2>7, <1>1, ChangedScope
<1> QED BY <1>2, <1>3

\* Every step.
LEMMA NextInv ==
  ASSUME ScopeInv, [ScopesNext]_scopesVars
  PROVE  ScopeInv'
<1>1. CASE Finish \/ UseFreed
  <2>1. phase' \in {"pass", "done", "undefined"}
        /\ UNCHANGED <<program, included, Pass, pos, Errors, labels, structs, structCur, scopes,
             scopeCur>>
    BY <1>1 DEF Finish, UseFreed, names
  <2> QED BY <2>1 DEF ScopeInv, Progress, Chain
<1>2. CASE UNCHANGED scopesVars
  BY <1>2 DEF ScopeInv, Progress, Chain, scopesVars, names
<1> QED BY <1>1, <1>2, NextPassInv, LabelInv, StructNewInv, StructAddElementInv, StructEndInv,
           StructAssignInv, ScopeEnterInv, ScopeLeaveInv, ScopeUsingInv DEF ScopesNext

\* The invariant holds always.
LEMMA AlwaysScopeInv == ScopesSpec => []ScopeInv
BY InitInv, NextInv, PTL DEF ScopesSpec

\* For every program: a scope is entered below an older one, names are found once, and the
\* pass is in an open scope or in none (ScopeClose, pasmstruct.c:1194-1227).
THEOREM AssignmentsGoToAnOpenScope == ScopesSpec => []ScopeChain
<1>1. ScopeInv => ScopeChain
  BY DEF ScopeInv, Chain, ScopeChain
<1> QED BY <1>1, AlwaysScopeInv, PTL

-----------------------------------------------------------------------------
(* What each statement does when it is accepted, without the labels: this is *)
(* the same in both passes.                                                  *)

\* The tables StructInit leaves: the root scope, and no structure.
Reset == [structs |-> NoStructs, cur |-> NoStruct, scopes |-> <<RootScope>>, at |-> 1]

\* StructParamProcess, in the scopes of sc.
Means(sc, n) == IF FindIn(sc, n) # 0 THEN Register ELSE n

\* Nearest, in the scopes of sc.
NearestIn(sc, opened, i) ==
  LET up[j \in 0 .. Len(sc)] ==
        IF j = 0 \/ j \in opened THEN j ELSE up[sc[j].parent]
  IN  up[i]

\* The open scopes of sc.
OpenIn(sc) == {i \in DOMAIN sc : sc[i].open}

\* The scope of this name.
TheScope(sc, n) == CHOOSE s : s \in NamedIn(sc, n)

\* StructNew, of a structure called n.
EnterStruct(r, n) ==
  [structs |-> [s \in DOMAIN r.structs \cup {n} |-> IF s = n THEN <<>> ELSE r.structs[s]],
   cur |-> n, scopes |-> r.scopes, at |-> r.at]

\* StructAddElement.
AddElement(r, n) ==
  [structs |-> [r.structs EXCEPT ![r.cur] = Append(@, n)],
   cur |-> r.cur, scopes |-> r.scopes, at |-> r.at]

\* StructEnd.
EndStruct(r) == [structs |-> r.structs, cur |-> NoStruct, scopes |-> r.scopes, at |-> r.at]

\* StructAssign, of the name m.
Assign(r, m) ==
  [structs |-> r.structs, cur |-> r.cur,
   scopes |-> [r.scopes EXCEPT ![r.at].assigned = @ \cup {m}], at |-> r.at]

\* ScopeCreate, of a scope called n.
EnterScope(r, n) ==
  [structs |-> r.structs, cur |-> r.cur,
   scopes |-> Append(r.scopes, [name |-> n, open |-> TRUE, parent |-> r.at, assigned |-> {}]),
   at |-> Len(Append(r.scopes, [name |-> n, open |-> TRUE, parent |-> r.at, assigned |-> {}]))]

\* ScopeClose, of scope s.
LeaveScope(r, s) ==
  [structs |-> r.structs, cur |-> r.cur, scopes |-> [r.scopes EXCEPT ![s].open = FALSE],
   at |-> NearestIn(r.scopes, OpenIn(r.scopes) \ {s}, r.at)]

\* ScopeUsing, of scope s.
UseScope(r, s) ==
  [structs |-> r.structs, cur |-> r.cur, scopes |-> [r.scopes EXCEPT ![s].open = TRUE], at |-> s]

\* What an accepted statement makes of the tables r.
Effect(r, s) ==
  IF s.op = "struct" THEN EnterStruct(r, Means(r.scopes, s.n))
  ELSE IF s.op = "element" THEN AddElement(r, Means(r.scopes, s.n))
  ELSE IF s.op = "ends" THEN EndStruct(r)
  ELSE IF s.op = "assign" THEN Assign(r, Means(r.scopes, s.m))
  ELSE IF s.op = "enter" THEN EnterScope(r, Means(r.scopes, s.n))
  ELSE IF s.op = "leave" THEN LeaveScope(r, TheScope(r.scopes, Means(r.scopes, s.n)))
  ELSE IF s.op = "using" THEN UseScope(r, TheScope(r.scopes, Means(r.scopes, s.n)))
  ELSE r

\* run is what the statements of p before the k-th make of the empty tables.
Follows(run, p, k) ==
  run[1] = Reset /\ \A i \in 1 .. k - 1 : run[i + 1] = Effect(run[i], p[i])

\* The tables of a program that is accepted, before each of its statements.
Run(p) == CHOOSE run : Follows(run, p, Len(p) + 1)

\* There is such a run, built statement by statement.
LEMMA RunExists ==
  ASSUME NEW p, NEW k \in Nat \ {0}
  PROVE  \E run : Follows(run, p, k)
<1> DEFINE Bad == {m \in Nat : m # 0 /\ ~ \E run : Follows(run, p, m)}
<1>1. SUFFICES ASSUME Bad # {} PROVE FALSE
  OBVIOUS
<1>2. PICK n \in Bad : \A m \in Bad : n <= m
  <2>1. Bad \in SUBSET Nat
    OBVIOUS
  <2> HIDE DEF Bad
  <2> QED BY <1>1, <2>1, LeastNumber
<1>3. n \in Nat \ {0} /\ ~ \E run : Follows(run, p, n)
  OBVIOUS
<1>4. CASE n = 1
  <2>1. Follows([j \in 1 .. 1 |-> Reset], p, 1)
    BY DEF Follows
  <2> QED BY <2>1, <1>3, <1>4
<1>5. CASE n # 1
  <2>1. n - 1 \in Nat \ {0} /\ n - 1 \notin Bad
    <3>1. n - 1 \in Nat \ {0} /\ ~ (n <= n - 1)
      BY <1>3, <1>5
    <3> HIDE DEF Bad
    <3> QED BY <1>2, <3>1
  <2>2. PICK g : Follows(g, p, n - 1)
    BY <2>1
  <2> DEFINE h == [j \in 1 .. n |-> IF j < n THEN g[j] ELSE Effect(g[n - 1], p[n - 1])]
  <2>3. h[1] = Reset
    BY <2>2, <1>3, <1>5 DEF Follows
  <2>4. ASSUME NEW i \in 1 .. n - 1 PROVE h[i + 1] = Effect(h[i], p[i])
    <3>1. CASE i = n - 1
      <4>1. h[i + 1] = Effect(g[n - 1], p[n - 1])
        BY <3>1, <1>3
      <4>2. h[i] = g[n - 1]
        BY <3>1, <1>3
      <4> QED BY <4>1, <4>2, <3>1
    <3>2. CASE i # n - 1
      <4>1. i \in 1 .. (n - 1) - 1
        BY <3>2, <1>3
      <4>2. g[i + 1] = Effect(g[i], p[i])
        BY <4>1, <2>2 DEF Follows
      <4>3. h[i + 1] = g[i + 1] /\ h[i] = g[i]
        BY <4>1, <1>3
      <4> QED BY <4>2, <4>3
    <3> QED BY <3>1, <3>2
  <2> HIDE DEF h
  <2>5. Follows(h, p, n)
    BY <2>3, <2>4 DEF Follows
  <2> QED BY <2>5, <1>3
<1> QED BY <1>4, <1>5

\* Run is such a run.
LEMMA RunFollows ==
  ASSUME NEW S, NEW p \in Seq(S)
  PROVE  /\ Run(p)[1] = Reset
         /\ \A i \in 1 .. Len(p) : Run(p)[i + 1] = Effect(Run(p)[i], p[i])
<1>1. Len(p) + 1 \in Nat \ {0} /\ (Len(p) + 1) - 1 = Len(p)
  OBVIOUS
<1>2. \E run : Follows(run, p, Len(p) + 1)
  BY <1>1, RunExists
<1>3. Follows(Run(p), p, Len(p) + 1)
  BY <1>2 DEF Run
<1> HIDE DEF Run
<1> QED BY <1>1, <1>3 DEF Follows

-----------------------------------------------------------------------------
(* Both passes follow the run of the program, unless there is an error.      *)

\* The tables are those of r, but for a pointer that pass 1 left behind.
Now(r) ==
  /\ structs = r.structs /\ scopes = r.scopes /\ scopeCur = r.at
  /\ structCur = r.cur \/ (Pass = 2 /\ structCur = Freed /\ r.cur = NoStruct)

\* A step makes the tables those of r.
Becomes(r) ==
  /\ structs' = r.structs /\ scopes' = r.scopes /\ scopeCur' = r.at
  /\ structCur' = r.cur \/ (Pass = 2 /\ structCur' = Freed /\ r.cur = NoStruct)
  /\ structCur' = Freed <=> structCur = Freed

\* Where the tables are those of r, names mean what they mean in r.
LEMMA MeansOperand ==
  ASSUME NEW r, Now(r)
  PROVE  /\ \A n : Resolved(n) = Means(r.scopes, n) /\ ScopeFind(n) = NamedIn(r.scopes, n)
         /\ \A opened, i : Nearest(opened, i) = NearestIn(r.scopes, opened, i)
         /\ OpenScopes = OpenIn(r.scopes)
<1>1. scopes = r.scopes
  BY DEF Now
<1>2. \A n : Resolved(n) = Means(r.scopes, n) /\ ScopeFind(n) = NamedIn(r.scopes, n)
  BY <1>1, FindsIn DEF Resolved, Means
<1>3. \A opened, i : Nearest(opened, i) = NearestIn(scopes, opened, i)
  BY DEF Nearest, NearestIn
<1>4. OpenScopes = OpenIn(r.scopes)
  BY <1>1 DEF OpenScopes, OpenIn
<1> QED BY <1>1, <1>2, <1>3, <1>4

\* Each accepted statement has its Effect: one lemma per action.
LEMMA LabelBecomes ==
  ASSUME Progress, Label, Done, NEW r, Now(r)
  PROVE  Becomes(Effect(r, Cur))
<1>1. Cur.op = "label"
  BY CurType DEF Label
<1>2. UNCHANGED <<structs, structCur, scopes, scopeCur>>
  BY DEF Label, names
<1>3. Effect(r, Cur) = r
  BY <1>1 DEF Effect
<1> QED BY <1>2, <1>3 DEF Now, Becomes

\* StructNew.
LEMMA StructNewBecomes ==
  ASSUME Progress, StructNew, Errors' = Errors, NEW r, Now(r)
  PROVE  Becomes(Effect(r, Cur)) /\ CheckName(Resolved(Cur.n))
         /\ labels' = labels /\ Done
<1> DEFINE n == Resolved(Cur.n)
<1>1. Cur.op = "struct"
  BY CurType DEF StructNew
<1>2. ~Failed
  BY DEF Failed, Progress
<1>3. /\ structCur = NoStruct /\ CheckName(n)
      /\ structs' = [s \in DOMAIN structs \cup {n} |-> IF s = n THEN <<>> ELSE structs[s]]
      /\ structCur' = n
      /\ UNCHANGED <<labels, scopes, scopeCur>> /\ Done
  BY <1>2 DEF StructNew, Rejected
<1>4. n = Means(r.scopes, Cur.n)
  BY MeansOperand
<1>5. n \notin {NoStruct, Freed}
  <2>1. Cur.n \in Symbols \cup {Root} /\ n # Register
    BY <1>3, FreeName, CurType DEF StructNew
  <2>2. n = Cur.n
    BY <2>1, OperandType
  <2> QED BY <2>1, <2>2
<1> HIDE DEF n
<1>6. Effect(r, Cur) = EnterStruct(r, n)
  BY <1>1, <1>4 DEF Effect
<1>7. structCur' = EnterStruct(r, n).cur /\ scopes' = EnterStruct(r, n).scopes
      /\ scopeCur' = EnterStruct(r, n).at
  BY <1>3 DEF EnterStruct, Now
<1>8. structs' = EnterStruct(r, n).structs
  BY <1>3 DEF EnterStruct, Now
<1>9. structCur' # Freed /\ structCur # Freed
  BY <1>3, <1>5
<1> QED BY <1>3, <1>6, <1>7, <1>8, <1>9 DEF Becomes, n

\* StructAddElement.
LEMMA AddElementBecomes ==
  ASSUME Progress, StructAddElement, Errors' = Errors, NEW r, Now(r)
  PROVE  Becomes(Effect(r, Cur)) /\ labels' = labels /\ Done
         /\ DOMAIN structs' = DOMAIN structs
<1> DEFINE n == Resolved(Cur.n)
<1>1. Cur.op = "element" /\ structCur # Freed
  BY CurType DEF StructAddElement
<1>2. ~Failed /\ ~Warned
  BY DEF Failed, Warned, Progress
<1>3. structCur # NoStruct
  BY <1>1, <1>2 DEF StructAddElement, Rejected
<1>4. n # Register
  BY <1>2, <1>3 DEF StructAddElement
<1>5. /\ structs' = [structs EXCEPT ![structCur] = Append(@, n)]
      /\ UNCHANGED <<labels, structCur, scopes, scopeCur>> /\ Done
  BY <1>2, <1>3, <1>4 DEF StructAddElement, Rejected
<1>6. n = Means(r.scopes, Cur.n)
  BY MeansOperand
<1> HIDE DEF n
<1>7. Effect(r, Cur) = AddElement(r, n)
  BY <1>1, <1>6 DEF Effect
<1>8. structCur = r.cur
  BY <1>1 DEF Now
<1>9. /\ structs' = AddElement(r, n).structs /\ scopes' = AddElement(r, n).scopes
      /\ scopeCur' = AddElement(r, n).at /\ structCur' = AddElement(r, n).cur
  BY <1>5, <1>8 DEF AddElement, Now
<1> QED BY <1>1, <1>5, <1>7, <1>9 DEF Becomes

\* StructEnd.
LEMMA StructEndBecomes ==
  ASSUME Progress, StructEnd, Errors' = Errors, NEW r, Now(r)
  PROVE  Becomes(Effect(r, Cur)) /\ labels' = labels /\ Done
         /\ structs' = structs
<1>1. Cur.op = "ends" /\ structCur # Freed
  BY CurType DEF StructEnd
<1>2. ~Failed
  BY DEF Failed, Progress
<1>3. structCur # NoStruct
  BY <1>2 DEF StructEnd, Rejected
<1>4. structCur' = NoStruct /\ UNCHANGED <<labels, structs, scopes, scopeCur>> /\ Done
  BY <1>2, <1>3 DEF StructEnd
<1>5. Effect(r, Cur) = EndStruct(r)
  BY <1>1 DEF Effect
<1>6. /\ structs' = EndStruct(r).structs /\ scopes' = EndStruct(r).scopes
      /\ scopeCur' = EndStruct(r).at /\ structCur' = EndStruct(r).cur
  BY <1>4 DEF EndStruct, Now
<1> QED BY <1>1, <1>4, <1>5, <1>6 DEF Becomes

\* StructAssign.
LEMMA AssignBecomes ==
  ASSUME Progress, AssignStruct, Errors' = Errors, NEW r, Now(r)
  PROVE  /\ Becomes(Effect(r, Cur)) /\ labels' = labels /\ Done
         /\ structs' = structs /\ CheckName(Resolved(Cur.m))
         /\ scopes' = [scopes EXCEPT ![scopeCur].assigned = @ \cup {Resolved(Cur.m)}]
<1> DEFINE m == Resolved(Cur.m)
<1>1. Cur.op = "assign"
  BY CurType DEF AssignStruct
<1>2. ~Failed
  BY DEF Failed, Progress
<1>3. /\ structCur = NoStruct /\ CheckName(m)
      /\ scopes' = [scopes EXCEPT ![scopeCur].assigned = @ \cup {m}]
      /\ UNCHANGED <<labels, structs, structCur, scopeCur>> /\ Done
  BY <1>2 DEF AssignStruct, Rejected
<1>4. m = Means(r.scopes, Cur.m)
  BY MeansOperand
<1> HIDE DEF m
<1>5. Effect(r, Cur) = Assign(r, m)
  BY <1>1, <1>4 DEF Effect
<1>6. structCur = r.cur
  BY <1>3 DEF Now
<1>7. /\ structs' = Assign(r, m).structs /\ scopes' = Assign(r, m).scopes
      /\ scopeCur' = Assign(r, m).at /\ structCur' = Assign(r, m).cur
  BY <1>3, <1>6 DEF Assign, Now
<1> QED BY <1>3, <1>5, <1>7 DEF Becomes, m

\* ScopeCreate.
LEMMA EnterBecomes ==
  ASSUME Progress, ScopeEnter, Errors' = Errors, NEW r, Now(r)
  PROVE  /\ Becomes(Effect(r, Cur)) /\ labels' = labels /\ Done
         /\ structs' = structs /\ CheckName(Resolved(Cur.n))
         /\ scopes' = Append(scopes, [name |-> Resolved(Cur.n), open |-> TRUE,
                                      parent |-> scopeCur, assigned |-> {}])
<1> DEFINE n == Resolved(Cur.n)
<1>1. Cur.op = "enter"
  BY CurType DEF ScopeEnter
<1>2. ~Failed
  BY DEF Failed, Progress
<1>3. /\ CheckName(n)
      /\ scopes' = Append(scopes, [name |-> n, open |-> TRUE, parent |-> scopeCur, assigned |-> {}])
      /\ scopeCur' = Len(scopes')
      /\ UNCHANGED <<labels, structs, structCur>> /\ Done
  BY <1>2 DEF ScopeEnter, Rejected
<1>4. n = Means(r.scopes, Cur.n)
  BY MeansOperand
<1> HIDE DEF n
<1>5. Effect(r, Cur) = EnterScope(r, n)
  BY <1>1, <1>4 DEF Effect
<1>7. /\ structs' = EnterScope(r, n).structs /\ scopes' = EnterScope(r, n).scopes
      /\ scopeCur' = EnterScope(r, n).at /\ r.cur = EnterScope(r, n).cur
  BY <1>3 DEF EnterScope, Now
<1> QED BY <1>3, <1>5, <1>7 DEF Becomes, Now, n

\* Symbols of scopes are unique: the scope found is the one.
LEMMA FoundOne ==
  ASSUME Chain, NEW r, Now(r), NEW n, NEW s \in ScopeFind(n)
  PROVE  s = TheScope(r.scopes, n)
<1>1. ScopeFind(n) = NamedIn(r.scopes, n) /\ scopes = r.scopes
  BY MeansOperand DEF Now
<1>2. \A t \in NamedIn(scopes, n) : t = s
  BY <1>1 DEF NamedIn, Chain
<1> QED BY <1>1, <1>2 DEF TheScope

\* ScopeClose.
LEMMA LeaveBecomes ==
  ASSUME Progress, Chain, ScopeLeave, Errors' = Errors, NEW r, Now(r)
  PROVE  /\ Becomes(Effect(r, Cur)) /\ labels' = labels /\ Done
         /\ structs' = structs
         /\ \E s \in DOMAIN scopes : scopes' = [scopes EXCEPT ![s].open = FALSE]
<1> DEFINE found == ScopeFind(Resolved(Cur.n))
<1>1. Cur.op = "leave"
  BY CurType DEF ScopeLeave
<1>2. ~Failed
  BY DEF Failed, Progress
<1>3. PICK s \in found :
               /\ scopes' = [scopes EXCEPT ![s].open = FALSE]
               /\ scopeCur' = Nearest(OpenScopes \ {s}, scopeCur)
               /\ UNCHANGED <<labels, structs, structCur>> /\ Done
  BY <1>2 DEF ScopeLeave, Rejected
<1>4. s \in DOMAIN scopes
  BY DEF ScopeFind
<1>5. s = TheScope(r.scopes, Means(r.scopes, Cur.n))
  BY FoundOne, MeansOperand
<1> HIDE DEF found
<1>6. Effect(r, Cur) = LeaveScope(r, s)
  BY <1>1, <1>5 DEF Effect
<1>7. scopeCur' = NearestIn(r.scopes, OpenIn(r.scopes) \ {s}, r.at)
  BY <1>3, MeansOperand DEF Now
<1>8. /\ structs' = LeaveScope(r, s).structs /\ scopes' = LeaveScope(r, s).scopes
      /\ scopeCur' = LeaveScope(r, s).at /\ r.cur = LeaveScope(r, s).cur
  BY <1>3, <1>7 DEF LeaveScope, Now
<1> QED BY <1>3, <1>4, <1>6, <1>8 DEF Becomes, Now

\* ScopeUsing.
LEMMA UsingBecomes ==
  ASSUME Progress, Chain, ScopeUsing, Errors' = Errors, NEW r, Now(r)
  PROVE  /\ Becomes(Effect(r, Cur)) /\ labels' = labels /\ Done
         /\ structs' = structs
         /\ \E s \in DOMAIN scopes : scopes' = [scopes EXCEPT ![s].open = TRUE]
<1> DEFINE found == ScopeFind(Resolved(Cur.n))
<1>1. Cur.op = "using"
  BY CurType DEF ScopeUsing
<1>2. ~Failed
  BY DEF Failed, Progress
<1>3. PICK s \in found :
               /\ scopes' = [scopes EXCEPT ![s].open = TRUE]
               /\ scopeCur' = s
               /\ UNCHANGED <<labels, structs, structCur>> /\ Done
  BY <1>2 DEF ScopeUsing, Rejected
<1>4. s \in DOMAIN scopes
  BY DEF ScopeFind
<1>5. s = TheScope(r.scopes, Means(r.scopes, Cur.n))
  BY FoundOne, MeansOperand
<1> HIDE DEF found
<1>6. Effect(r, Cur) = UseScope(r, s)
  BY <1>1, <1>5 DEF Effect
<1>8. /\ structs' = UseScope(r, s).structs /\ scopes' = UseScope(r, s).scopes
      /\ scopeCur' = UseScope(r, s).at /\ r.cur = UseScope(r, s).cur
  BY <1>3 DEF UseScope, Now
<1> QED BY <1>3, <1>4, <1>6, <1>8 DEF Becomes, Now

\* What view records for the scopes of sc.
ViewOf(sc) == [n \in Symbols |-> FindIn(sc, n)]

\* What the passes have recorded has its type.
Viewed == view \in [1 .. 2 -> Seq([Symbols -> Nat])]

\* The labels are not the names of something else.
Apart ==
  \A n \in labels : /\ n \notin DOMAIN structs
                    /\ \A i \in DOMAIN scopes : n # scopes[i].name /\ n \notin scopes[i].assigned

\* While there is no error, either pass is where the run of the program is, and a
\* structure that pass 1 left open is one that pass 2 cannot end.
Same ==
  Errors = 0 =>
    /\ Now(Run(program)[pos])
    /\ Len(view[Pass]) = pos
    /\ \A i \in 1 .. pos : view[Pass][i] = ViewOf(Run(program)[i].scopes)
    /\ Pass = 1 => structCur # Freed
    /\ Pass = 2 =>
         /\ \A i \in 1 .. Len(program) + 1 : view[1][i] = ViewOf(Run(program)[i].scopes)
         /\ structCur = Freed <=> Run(program)[Len(program) + 1].cur # NoStruct
         /\ Run(program)[Len(program) + 1].cur # Freed
         /\ Apart
    /\ phase = "done" => Pass = 2 /\ pos = Len(program) + 1

\* The inductive invariant of SameMeaning.
SameInv == ScopeInv /\ Viewed /\ Same

\* A view is a function of the names.
LEMMA ViewType ==
  ASSUME NEW S, NEW sc \in Seq(S)
  PROVE  ViewOf(sc) \in [Symbols -> Nat]
<1>1. \A n : FindIn(sc, n) \in Nat
  BY FindType
<1> QED BY <1>1 DEF ViewOf

\* View is that of the list scopes.
LEMMA ViewIs == View = ViewOf(scopes)
BY FindsIn DEF View, ViewOf

\* The view of a line is recorded.
LEMMA Noted ==
  ASSUME ScopeInv, Viewed, Note, ScopeInv'
  PROVE  /\ Viewed' /\ view'[3 - Pass] = view[3 - Pass]
         /\ Len(view'[Pass]) = Len(view[Pass]) + 1
         /\ view'[Pass][Len(view[Pass]) + 1] = ViewOf(scopes')
         /\ \A i \in 1 .. Len(view[Pass]) : view'[Pass][i] = view[Pass][i]
<1> DEFINE v == ViewOf(scopes')
<1>1. View' = v
  BY FindsIn, ViewIs DEF View, ViewOf, AssignFind, FindIn
<1>2. v \in [Symbols -> Nat]
  BY ViewType DEF ScopeInv, Chain
<1> HIDE DEF v
<1>3. Pass \in {1, 2} /\ view[Pass] \in Seq([Symbols -> Nat])
  BY DEF ScopeInv, Progress, Viewed
<1>4. view' = [view EXCEPT ![Pass] = Append(@, v)]
  BY <1>1 DEF Note
<1>5. view'[Pass] = Append(view[Pass], v) /\ view'[3 - Pass] = view[3 - Pass]
  BY <1>3, <1>4 DEF Viewed
<1>6. Append(view[Pass], v) \in Seq([Symbols -> Nat])
  BY <1>2, <1>3
<1>7. Viewed'
  BY <1>4, <1>6, <1>3 DEF Viewed
<1> QED BY <1>2, <1>3, <1>5, <1>7 DEF v

\* A line that is accepted keeps both passes on the run.
LEMMA DoneSame ==
  ASSUME SameInv, Errors = 0, NEW op, Reading(op), Done, ScopeInv',
         Becomes(Effect(Run(program)[pos], Cur)), Pass = 2 => Apart'
  PROVE  Viewed' /\ Same'
<1> DEFINE run == Run(program)
<1>1. /\ pos \in 1 .. Len(program) /\ program \in Seq(Stmt) /\ Pass \in 1 .. 2 /\ phase = "pass"
  BY CurType DEF SameInv, ScopeInv, Progress, Reading
<1>2. pos' = pos + 1 /\ UNCHANGED <<program, included, phase, Pass, Errors>> /\ Note
  BY DEF Done
<1>3. run[pos + 1] = Effect(run[pos], Cur)
  BY <1>1, RunFollows DEF Cur
<1> HIDE DEF run
<1>4. Becomes(run[pos + 1])
  BY <1>3 DEF run
<1>5. /\ Viewed' /\ view'[3 - Pass] = view[3 - Pass]
      /\ Len(view'[Pass]) = Len(view[Pass]) + 1
      /\ view'[Pass][Len(view[Pass]) + 1] = ViewOf(scopes')
      /\ \A i \in 1 .. Len(view[Pass]) : view'[Pass][i] = view[Pass][i]
  BY <1>2, Noted DEF SameInv
<1>6. /\ Len(view[Pass]) = pos
      /\ \A i \in 1 .. pos : view[Pass][i] = ViewOf(run[i].scopes)
  BY DEF SameInv, Same, run
<1>7. run' = run
  BY <1>2 DEF run
<1>8. Len(view'[Pass']) = pos'
  BY <1>2, <1>5, <1>6
<1>9. \A i \in 1 .. pos' : view'[Pass'][i] = ViewOf(run[i].scopes)
  <2> TAKE i \in 1 .. pos'
  <2>1. CASE i = pos + 1
    <3>1. scopes' = run[pos + 1].scopes
      BY <1>4 DEF Becomes
    <3> QED BY <2>1, <3>1, <1>2, <1>5, <1>6
  <2>2. CASE i # pos + 1
    <3>1. i \in 1 .. pos
      BY <2>2, <1>1, <1>2
    <3> QED BY <3>1, <1>2, <1>5, <1>6
  <2> QED BY <2>1, <2>2
<1>10. Now(Run(program)[pos])'
  <2> DEFINE r == run[pos + 1]
  <2>1. /\ structs' = r.structs /\ scopes' = r.scopes /\ scopeCur' = r.at
        /\ structCur' = r.cur \/ (Pass' = 2 /\ structCur' = Freed /\ r.cur = NoStruct)
    BY <1>2, <1>4 DEF Becomes
  <2>2. Run(program')[pos'] = r
    BY <1>2 DEF run
  <2> HIDE DEF r
  <2> QED BY <2>1, <2>2 DEF Now
<1>11. structCur' = Freed <=> structCur = Freed
  BY <1>4 DEF Becomes
<1>12. Pass = 1 => structCur' # Freed
  BY <1>11 DEF SameInv, Same
<1>13. Pass = 2 =>
         /\ \A i \in 1 .. Len(program) + 1 : view'[1][i] = ViewOf(run[i].scopes)
         /\ structCur' = Freed <=> run[Len(program) + 1].cur # NoStruct
         /\ run[Len(program) + 1].cur # Freed
  <2>1. Pass = 2 => view'[1] = view[1]
    BY <1>5
  <2> QED BY <2>1, <1>11 DEF SameInv, Same, run
<1>15. Same'
  BY <1>1, <1>2, <1>7, <1>8, <1>9, <1>10, <1>12, <1>13 DEF Same, run
<1> QED BY <1>5, <1>15

\* The tables of pass 2 get no name that is a label.
LEMMA ApartKept ==
  ASSUME SameInv, Errors = 0, Pass = 2, labels' = labels, DOMAIN structs' = DOMAIN structs,
         ScopeInv',
         \A i \in DOMAIN scopes' : i \in DOMAIN scopes /\ scopes'[i].name = scopes[i].name
                                    /\ scopes'[i].assigned = scopes[i].assigned
  PROVE  Apart'
BY DEF SameInv, Same, Apart

\* After an error nothing more is claimed than the types.
LEMMA ErrorSame ==
  ASSUME SameInv, ScopeInv', Done \/ Failed \/ Warned, Errors' # 0
  PROVE  Viewed' /\ Same'
<1>1. Note
  BY DEF Done, Failed, Warned
<1>2. Viewed'
  BY <1>1, Noted DEF SameInv
<1> QED BY <1>2 DEF Same

\* A line leaves no error behind only if it was accepted and there was none.
LEMMA NoError ==
  ASSUME SameInv, Done \/ Failed \/ Warned, Errors' = 0
  PROVE  Errors = 0 /\ Errors' = Errors /\ Done
<1>1. Errors \in Nat
  BY DEF SameInv, ScopeInv, Progress
<1>2. ~Failed /\ ~Warned
  BY <1>1 DEF Failed, Warned
<1> QED BY <1>2 DEF Done

\* The parts of the invariant.
LEMMA SameTypes ==
  ASSUME SameInv
  PROVE  Progress /\ Chain /\ ScopeInv /\ (Errors = 0 => Now(Run(program)[pos]))
BY DEF SameInv, ScopeInv, Same

\* Every action keeps the passes on the run.
LEMMA LabelSame ==
  ASSUME SameInv, Label, ScopeInv'
  PROVE  Viewed' /\ Same'
<1>1. Reading("label") /\ (Done \/ Warned)
  BY DEF Label
<1>2. CASE Errors' # 0
  BY <1>1, <1>2, ErrorSame
<1>3. CASE Errors' = 0
  <2>1. Errors = 0 /\ Done
    BY <1>1, <1>3, NoError
  <2>2. Becomes(Effect(Run(program)[pos], Cur))
    BY <2>1, LabelBecomes, SameTypes
  <2>3. Pass = 2 => UNCHANGED <<labels, structs, scopes>>
    BY DEF Label, names
  <2>4. Pass = 2 => Apart'
    BY <2>1, <2>3, ApartKept
  <2> QED BY <1>1, <2>1, <2>2, <2>4, DoneSame
<1> QED BY <1>2, <1>3

\* StructNew: pass 2 meets no label of that name.
LEMMA StructNewSame ==
  ASSUME SameInv, StructNew, ScopeInv'
  PROVE  Viewed' /\ Same'
<1> DEFINE n == Resolved(Cur.n)
<1>1. Reading("struct") /\ (Done \/ Failed)
  BY DEF StructNew, Rejected
<1>2. CASE Errors' # 0
  BY <1>1, <1>2, ErrorSame
<1>3. CASE Errors' = 0
  <2>1. Errors = 0 /\ Errors' = Errors
    BY <1>1, <1>3, NoError
  <2>2. Becomes(Effect(Run(program)[pos], Cur)) /\ CheckName(n) /\ labels' = labels /\ Done
    BY <2>1, StructNewBecomes, SameTypes
  <2>3. /\ structs' = [s \in DOMAIN structs \cup {n} |-> IF s = n THEN <<>> ELSE structs[s]]
        /\ scopes' = scopes
    <3>1. ~Failed
      BY <2>1, SameTypes DEF Failed, Progress
    <3> QED BY <3>1 DEF StructNew, Rejected
  <2>4. n \notin labels
    BY <2>2, FreeName
  <2> HIDE DEF n
  <2>5. DOMAIN structs' = DOMAIN structs \cup {n}
    BY <2>3
  <2>6. Pass = 2 => Apart'
    BY <2>1, <2>2, <2>3, <2>4, <2>5 DEF SameInv, Same, Apart
  <2> QED BY <1>1, <2>1, <2>2, <2>6, DoneSame
<1> QED BY <1>2, <1>3

\* StructAddElement.
LEMMA AddElementSame ==
  ASSUME SameInv, StructAddElement, ScopeInv'
  PROVE  Viewed' /\ Same'
<1>1. Reading("element") /\ (Done \/ Failed \/ Warned) /\ scopes' = scopes
  <2>1. CASE structCur = NoStruct
    BY <2>1 DEF StructAddElement, Rejected, names
  <2>2. CASE structCur # NoStruct /\ Resolved(Cur.n) = Register
    BY <2>2 DEF StructAddElement, Rejected, names
  <2>3. CASE structCur # NoStruct /\ Resolved(Cur.n) # Register
    BY <2>3 DEF StructAddElement, Rejected, names
  <2> QED BY <2>1, <2>2, <2>3
<1>2. CASE Errors' # 0
  BY <1>1, <1>2, ErrorSame
<1>3. CASE Errors' = 0
  <2>1. Errors = 0 /\ Errors' = Errors
    BY <1>1, <1>3, NoError
  <2>2. Becomes(Effect(Run(program)[pos], Cur)) /\ labels' = labels /\ Done
        /\ DOMAIN structs' = DOMAIN structs
    BY <2>1, AddElementBecomes, SameTypes
  <2>3. Pass = 2 => Apart'
    BY <1>1, <2>1, <2>2, ApartKept
  <2> QED BY <1>1, <2>1, <2>2, <2>3, DoneSame
<1> QED BY <1>2, <1>3

\* StructEnd: pass 1 would have told of a structure it cannot end.
LEMMA StructEndSame ==
  ASSUME SameInv, StructEnd, ScopeInv'
  PROVE  Viewed' /\ Same'
<1>1. Reading("ends") /\ (Done \/ Failed) /\ scopes' = scopes
  BY DEF StructEnd, Rejected, names
<1>2. CASE Errors' # 0
  BY <1>1, <1>2, ErrorSame
<1>3. CASE Errors' = 0
  <2>1. Errors = 0 /\ Errors' = Errors
    BY <1>1, <1>3, NoError
  <2>2. Becomes(Effect(Run(program)[pos], Cur)) /\ labels' = labels /\ Done /\ structs' = structs
    BY <2>1, StructEndBecomes, SameTypes
  <2>3. Pass = 2 => Apart'
    BY <1>1, <2>1, <2>2, ApartKept
  <2> QED BY <1>1, <2>1, <2>2, <2>3, DoneSame
<1> QED BY <1>2, <1>3

\* StructAssign.
LEMMA AssignSame ==
  ASSUME SameInv, AssignStruct, ScopeInv'
  PROVE  Viewed' /\ Same'
<1> DEFINE m == Resolved(Cur.m)
<1>1. Reading("assign") /\ (Done \/ Failed)
  BY DEF AssignStruct, Rejected
<1>2. CASE Errors' # 0
  BY <1>1, <1>2, ErrorSame
<1>3. CASE Errors' = 0
  <2>1. Errors = 0 /\ Errors' = Errors
    BY <1>1, <1>3, NoError
  <2>2. /\ Becomes(Effect(Run(program)[pos], Cur)) /\ labels' = labels /\ Done
        /\ structs' = structs /\ CheckName(m)
        /\ scopes' = [scopes EXCEPT ![scopeCur].assigned = @ \cup {m}]
    BY <2>1, AssignBecomes, SameTypes
  <2>3. m \notin labels
    BY <2>2, FreeName
  <2> HIDE DEF m
  <2>4. DOMAIN scopes' = DOMAIN scopes /\ scopes \in Seq(ScopeRecord)
    BY <2>2, SameTypes DEF Chain
  <2>5. \A i \in DOMAIN scopes : /\ scopes'[i].name = scopes[i].name
                                 /\ scopes'[i].assigned \subseteq scopes[i].assigned \cup {m}
    <3> TAKE i \in DOMAIN scopes
    <3>1. scopes[i] \in ScopeRecord
      BY <2>4
    <3>2. CASE i = scopeCur
      <4>1. scopes'[i] = [scopes[i] EXCEPT !.assigned = @ \cup {m}]
        BY <2>2, <3>2
      <4> QED BY <3>1, <4>1 DEF ScopeRecord
    <3>3. CASE i # scopeCur
      <4>1. scopes'[i] = scopes[i]
        BY <2>2, <3>3
      <4> QED BY <4>1
    <3> QED BY <3>2, <3>3
  <2>6. Pass = 2 => Apart'
    BY <2>1, <2>2, <2>3, <2>4, <2>5 DEF SameInv, Same, Apart
  <2> QED BY <1>1, <2>1, <2>2, <2>6, DoneSame
<1> QED BY <1>2, <1>3

\* ScopeCreate.
LEMMA EnterSame ==
  ASSUME SameInv, ScopeEnter, ScopeInv'
  PROVE  Viewed' /\ Same'
<1> DEFINE n == Resolved(Cur.n)
<1>1. Reading("enter") /\ (Done \/ Failed)
  BY DEF ScopeEnter, Rejected
<1>2. CASE Errors' # 0
  BY <1>1, <1>2, ErrorSame
<1>3. CASE Errors' = 0
  <2>1. Errors = 0 /\ Errors' = Errors
    BY <1>1, <1>3, NoError
  <2> DEFINE r == [name |-> n, open |-> TRUE, parent |-> scopeCur, assigned |-> {}]
  <2>2. /\ Becomes(Effect(Run(program)[pos], Cur)) /\ labels' = labels /\ Done
        /\ structs' = structs /\ CheckName(n)
        /\ scopes' = Append(scopes, r)
    BY <2>1, EnterBecomes, SameTypes
  <2>3. n \notin labels
    BY <2>2, FreeName
  <2> HIDE DEF n
  <2>4. r.name = n /\ r.assigned = {}
    OBVIOUS
  <2> HIDE DEF r
  <2>5. scopes \in Seq(ScopeRecord)
    BY SameTypes DEF Chain
  <2>6. \A i \in DOMAIN scopes' : scopes'[i] = r \/ (i \in DOMAIN scopes /\ scopes'[i] = scopes[i])
    <3>1. DOMAIN scopes' = 1 .. Len(scopes) + 1 /\ DOMAIN scopes = 1 .. Len(scopes)
      BY <2>2, <2>5, AppendProperties
    <3>2. scopes'[Len(scopes) + 1] = r
      BY <2>2, <2>5
    <3>3. \A i \in 1 .. Len(scopes) : scopes'[i] = scopes[i]
      BY <2>2, <2>5
    <3> QED BY <3>1, <3>2, <3>3, <2>5
  <2>7. Pass = 2 => Apart'
    BY <2>1, <2>2, <2>3, <2>4, <2>6 DEF SameInv, Same, Apart
  <2> QED BY <1>1, <2>1, <2>2, <2>7, DoneSame
<1> QED BY <1>2, <1>3

\* A scope is opened or closed, and nothing else of it changes.
LEMMA OpenedKeeps ==
  ASSUME Chain, NEW s \in DOMAIN scopes, NEW o, scopes' = [scopes EXCEPT ![s].open = o]
  PROVE  \A i \in DOMAIN scopes' : /\ i \in DOMAIN scopes /\ scopes'[i].name = scopes[i].name
                                   /\ scopes'[i].assigned = scopes[i].assigned
<1>1. scopes \in Seq(ScopeRecord) /\ DOMAIN scopes' = DOMAIN scopes
  BY DEF Chain
<1> TAKE i \in DOMAIN scopes'
<1>2. scopes[i] \in ScopeRecord
  BY <1>1
<1>3. CASE i = s
  <2>1. scopes'[i] = [scopes[i] EXCEPT !.open = o]
    BY <1>1, <1>3
  <2> QED BY <1>1, <1>2, <2>1 DEF ScopeRecord
<1>4. CASE i # s
  BY <1>1, <1>4
<1> QED BY <1>3, <1>4

\* ScopeClose.
LEMMA LeaveSame ==
  ASSUME SameInv, ScopeLeave, ScopeInv'
  PROVE  Viewed' /\ Same'
<1>1. Reading("leave") /\ (Done \/ Failed)
  BY DEF ScopeLeave, Rejected
<1>2. CASE Errors' # 0
  BY <1>1, <1>2, ErrorSame
<1>3. CASE Errors' = 0
  <2>1. Errors = 0 /\ Errors' = Errors
    BY <1>1, <1>3, NoError
  <2>2. /\ Becomes(Effect(Run(program)[pos], Cur)) /\ labels' = labels /\ Done
        /\ structs' = structs
        /\ \E s \in DOMAIN scopes : scopes' = [scopes EXCEPT ![s].open = FALSE]
    BY <2>1, LeaveBecomes, SameTypes
  <2>3. \A i \in DOMAIN scopes' : /\ i \in DOMAIN scopes /\ scopes'[i].name = scopes[i].name
                                  /\ scopes'[i].assigned = scopes[i].assigned
    BY <2>2, OpenedKeeps, SameTypes
  <2>4. Pass = 2 => Apart'
    BY <2>1, <2>2, <2>3, ApartKept
  <2> QED BY <1>1, <2>1, <2>2, <2>4, DoneSame
<1> QED BY <1>2, <1>3

\* ScopeUsing.
LEMMA UsingSame ==
  ASSUME SameInv, ScopeUsing, ScopeInv'
  PROVE  Viewed' /\ Same'
<1>1. Reading("using") /\ (Done \/ Failed)
  BY DEF ScopeUsing, Rejected
<1>2. CASE Errors' # 0
  BY <1>1, <1>2, ErrorSame
<1>3. CASE Errors' = 0
  <2>1. Errors = 0 /\ Errors' = Errors
    BY <1>1, <1>3, NoError
  <2>2. /\ Becomes(Effect(Run(program)[pos], Cur)) /\ labels' = labels /\ Done
        /\ structs' = structs
        /\ \E s \in DOMAIN scopes : scopes' = [scopes EXCEPT ![s].open = TRUE]
    BY <2>1, UsingBecomes, SameTypes
  <2>3. \A i \in DOMAIN scopes' : /\ i \in DOMAIN scopes /\ scopes'[i].name = scopes[i].name
                                  /\ scopes'[i].assigned = scopes[i].assigned
    BY <2>2, OpenedKeeps, SameTypes
  <2>4. Pass = 2 => Apart'
    BY <2>1, <2>2, <2>3, ApartKept
  <2> QED BY <1>1, <2>1, <2>2, <2>4, DoneSame
<1> QED BY <1>2, <1>3

\* Pass 2 starts where the run starts.
LEMMA NextPassSame ==
  ASSUME SameInv, NextPass, ScopeInv'
  PROVE  Viewed' /\ Same'
<1>1. /\ Pass = 1 /\ Errors = 0 /\ pos > Len(program) /\ phase = "pass"
      /\ Pass' = 2 /\ pos' = 1 /\ CleanupStructs /\ CleanupScopes
      /\ view' = [view EXCEPT ![2] = <<View'>>]
      /\ UNCHANGED <<program, included, phase, Errors, labels>>
  BY DEF NextPass, AtEnd
<1>2. /\ program \in Seq(Stmt) /\ pos = Len(program) + 1
      /\ labels \subseteq Symbols /\ ScopeInv
  BY <1>1, SameTypes DEF Progress
<1>3. scopes' = <<RootScope>> /\ scopeCur' = 1 /\ structs' = NoStructs
  BY <1>1, <1>2, NextPassInv DEF CleanupScopes, CleanupStructs
<1> DEFINE run == Run(program)
<1>4. run[1] = Reset
  BY <1>2, RunFollows
<1> HIDE DEF run
<1>5. ViewOf(scopes') = ViewOf(run[1].scopes)
  BY <1>3, <1>4 DEF Reset
<1>6. View' = ViewOf(scopes')
  BY FindsIn, ViewIs DEF View, ViewOf, AssignFind, FindIn
<1>7. ViewOf(scopes') \in [Symbols -> Nat]
  BY ViewType DEF ScopeInv, Chain
<1>8. view' = [view EXCEPT ![2] = <<ViewOf(scopes')>>]
  BY <1>1, <1>6
<1> DEFINE v == ViewOf(scopes')
<1>9. v \in [Symbols -> Nat] /\ view' = [view EXCEPT ![2] = <<v>>] /\ v = ViewOf(run[1].scopes)
  BY <1>5, <1>7, <1>8
<1> HIDE DEF v
<1>10. Viewed' /\ view'[1] = view[1] /\ view'[2] = <<v>>
  BY <1>9 DEF SameInv, Viewed
<1>11. /\ Now(run[Len(program) + 1]) /\ structCur # Freed
       /\ \A i \in 1 .. pos : view[1][i] = ViewOf(run[i].scopes)
  BY <1>1, <1>2 DEF SameInv, Same, run
<1>12. structCur = run[Len(program) + 1].cur
  BY <1>11 DEF Now
<1>13. structCur' = Freed <=> run[Len(program) + 1].cur # NoStruct
  BY <1>1, <1>12 DEF CleanupStructs
<1>14. structCur' = NoStruct \/ structCur' = Freed
  BY <1>1 DEF CleanupStructs
<1>15. Now(Run(program)[pos])'
  <2>1. Run(program')[pos'] = Reset
    BY <1>1, <1>4 DEF run
  <2>2. structs' = Reset.structs /\ scopes' = Reset.scopes /\ scopeCur' = Reset.at
        /\ Reset.cur = NoStruct
    BY <1>3 DEF Reset
  <2> QED BY <1>1, <1>14, <2>1, <2>2 DEF Now
<1>16. Apart'
  <2>1. DOMAIN structs' = {}
    BY <1>3 DEF NoStructs
  <2>2. \A i \in DOMAIN scopes' : scopes'[i] = RootScope
    BY <1>3
  <2>3. RootScope.name = Root /\ RootScope.assigned = {}
    BY DEF RootScope
  <2>4. labels' = labels /\ Root \notin labels
    BY <1>1, <1>2
  <2> QED BY <2>1, <2>2, <2>3, <2>4 DEF Apart
<1>17. \A i \in 1 .. pos' : view'[Pass'][i] = ViewOf(run[i].scopes)
  BY <1>1, <1>9, <1>10
<1>18. Len(view'[Pass']) = pos'
  BY <1>1, <1>10
<1>19. run' = run
  BY <1>1 DEF run
<1>20. \A i \in 1 .. Len(program) + 1 : view'[1][i] = ViewOf(run[i].scopes)
  BY <1>2, <1>10, <1>11
<1>21. phase' # "done"
  BY <1>1
<1> QED BY <1>1, <1>10, <1>11, <1>12, <1>13, <1>15, <1>16, <1>17, <1>18, <1>20, <1>21 DEF Same, run

\* At the end both passes have run the whole program.
LEMMA FinishSame ==
  ASSUME SameInv, Finish
  PROVE  Viewed' /\ Same'
<1>1. UNCHANGED <<program, included, Pass, pos, Errors, labels, structs, structCur, scopes,
        scopeCur, view>>
  BY DEF Finish, names
<1>2. Errors = 0 => Pass = 2 /\ pos = Len(program) + 1
  BY SameTypes DEF Finish, AtEnd, Progress
<1>3. Now(Run(program)[pos])' <=> Now(Run(program)[pos])
  BY <1>1 DEF Now
<1>4. Apart' <=> Apart
  BY <1>1 DEF Apart
<1> QED BY <1>1, <1>2, <1>3, <1>4 DEF SameInv, Viewed, Same

\* Nothing moves.
LEMMA StutterSame ==
  ASSUME SameInv, UNCHANGED <<program, included, Pass, pos, Errors, names, view>>,
         phase' = phase \/ phase' = "undefined"
  PROVE  Viewed' /\ Same'
<1>1. UNCHANGED <<labels, structs, structCur, scopes, scopeCur>>
  BY DEF names
<1>3. Now(Run(program)[pos])' <=> Now(Run(program)[pos])
  BY <1>1 DEF Now
<1>4. Apart' <=> Apart
  BY <1>1 DEF Apart
<1> QED BY <1>1, <1>3, <1>4 DEF SameInv, Viewed, Same

\* Pass 1 starts where the run starts.
LEMMA InitSame == ScopesInit => SameInv
<1> SUFFICES ASSUME ScopesInit PROVE SameInv
  OBVIOUS
<1>1. ScopeInv
  BY InitInv
<1>2. /\ program \in Seq(Stmt) /\ Pass = 1 /\ pos = 1 /\ phase = "pass"
      /\ structs = NoStructs /\ structCur = NoStruct
      /\ scopes = <<RootScope>> /\ scopeCur = 1 /\ view = [p \in 1 .. 2 |-> <<View>>]
  BY DEF ScopesInit
<1>3. Run(program)[1] = Reset
  BY <1>2, RunFollows
<1>4. Now(Run(program)[1])
  BY <1>2, <1>3 DEF Now, Reset
<1>5. View = ViewOf(Run(program)[1].scopes) /\ View \in [Symbols -> Nat]
  <2>1. Reset.scopes = scopes
    BY <1>2 DEF Reset
  <2>2. ViewOf(scopes) \in [Symbols -> Nat]
    BY <1>1, ViewType DEF ScopeInv, Chain
  <2> QED BY <1>3, <2>1, <2>2, ViewIs
<1> DEFINE v == View
<1>6. v = ViewOf(Run(program)[1].scopes) /\ v \in [Symbols -> Nat]
        /\ view = [p \in 1 .. 2 |-> <<v>>]
  BY <1>2, <1>5
<1> HIDE DEF v
<1>7. Viewed /\ Len(view[Pass]) = pos /\ \A i \in 1 .. pos : view[Pass][i] = v
  BY <1>2, <1>6 DEF Viewed
<1>8. \A i \in 1 .. pos : view[Pass][i] = ViewOf(Run(program)[i].scopes)
  BY <1>2, <1>6, <1>7
<1>9. Same
  BY <1>2, <1>4, <1>7, <1>8 DEF Same
<1> QED BY <1>1, <1>7, <1>9 DEF SameInv

\* Every step.
LEMMA NextSame ==
  ASSUME SameInv, [ScopesNext]_scopesVars
  PROVE  SameInv'
<1>1. ScopeInv'
  BY NextInv DEF SameInv
<1>2. Viewed' /\ Same'
  <2>1. CASE UseFreed
    <3>1. UNCHANGED <<program, included, Pass, pos, Errors, names, view>> /\ phase' = "undefined"
      BY <2>1 DEF UseFreed
    <3> QED BY <3>1, StutterSame
  <2>2. CASE UNCHANGED scopesVars
    <3>1. UNCHANGED <<program, included, Pass, pos, Errors, names, view>> /\ phase' = phase
      BY <2>2 DEF scopesVars
    <3> QED BY <3>1, StutterSame
  <2> QED BY <1>1, <2>1, <2>2, NextPassSame, FinishSame, LabelSame, StructNewSame, AddElementSame,
             StructEndSame, AssignSame, EnterSame, LeaveSame, UsingSame DEF ScopesNext
<1> QED BY <1>1, <1>2 DEF SameInv

\* So both passes give every line the same names.
LEMMA SameMeans ==
  ASSUME SameInv
  PROVE  SameMeaning
<1>1. Pass = 2 /\ Errors = 0 => \A i \in 1 .. pos : view[2][i] = view[1][i]
  <2> SUFFICES ASSUME Pass = 2, Errors = 0, NEW i \in 1 .. pos
               PROVE  view[2][i] = view[1][i]
    OBVIOUS
  <2>1. i \in 1 .. Len(program) + 1
    BY SameTypes DEF Progress
  <2> QED BY <2>1 DEF SameInv, Same
<1>2. Accepted => \A n \in labels :
       /\ n \notin DOMAIN structs /\ ScopeFind(n) = {}
       /\ \A i \in DOMAIN scopes : n \notin scopes[i].assigned
  BY DEF SameInv, Same, Accepted, Apart, ScopeFind
<1>3. Accepted => structCur = NoStruct
  <2> SUFFICES ASSUME Accepted PROVE structCur = NoStruct
    OBVIOUS
  <2>1. /\ Pass = 2 /\ pos = Len(program) + 1 /\ Now(Run(program)[pos])
        /\ structCur = Freed <=> Run(program)[Len(program) + 1].cur # NoStruct
        /\ Run(program)[Len(program) + 1].cur # Freed
    BY DEF SameInv, Same, Accepted
  <2> QED BY <2>1 DEF Now
<1> QED BY <1>1, <1>2, <1>3 DEF SameMeaning

\* For every program that is assembled, both passes find the same names assigned at every
\* line (pasmstruct.c:211-228, 903-950).
THEOREM PassesAgreeOnNames == ScopesSpec => []SameMeaning
<1>1. ScopesSpec => []SameInv
  BY InitSame, NextSame, PTL DEF ScopesSpec
<1> QED BY <1>1, SameMeans, PTL

-----------------------------------------------------------------------------
(* Outputs: PasmOutput.                                                    *)

\* g holds what Keep keeps of the first elements of seq, up to m of them.
KeepsTo(g, seq, set, m) ==
  g = [n \in 0 .. m |-> IF n = 0 THEN <<>>
                        ELSE IF seq[n] \in set THEN Append(g[n - 1], seq[n]) ELSE g[n - 1]]

\* There is such a function.
LEMMA KeepsExists ==
  ASSUME NEW seq, NEW set, NEW k \in Nat
  PROVE  \E g : KeepsTo(g, seq, set, k)
<1> DEFINE Bad == {m \in Nat : ~ \E g : KeepsTo(g, seq, set, m)}
<1>1. SUFFICES ASSUME Bad # {} PROVE FALSE
  OBVIOUS
<1>2. PICK n \in Bad : \A m \in Bad : n <= m
  BY <1>1, LeastNumber
<1>3. n \in Nat /\ ~ \E g : KeepsTo(g, seq, set, n)
  OBVIOUS
<1>4. CASE n = 0
  <2> DEFINE h == [i \in 0 .. 0 |-> <<>>]
  <2>1. \A i \in 0 .. 0 : i = 0
    OBVIOUS
  <2>2. h = [i \in 0 .. 0 |-> IF i = 0 THEN <<>>
                              ELSE IF seq[i] \in set THEN Append(h[i - 1], seq[i]) ELSE h[i - 1]]
    BY <2>1
  <2> HIDE DEF h
  <2>3. KeepsTo(h, seq, set, 0)
    BY <2>2 DEF KeepsTo
  <2> QED BY <2>3, <1>3, <1>4
<1>5. CASE n # 0
  <2>1. n - 1 \in Nat /\ n - 1 \notin Bad
    BY <1>2, <1>3, <1>5
  <2>2. PICK g : KeepsTo(g, seq, set, n - 1)
    BY <2>1
  <2> DEFINE last == IF seq[n] \in set THEN Append(g[n - 1], seq[n]) ELSE g[n - 1]
             h == [i \in 0 .. n |-> IF i = n THEN last ELSE g[i]]
  <2>3. ASSUME NEW i \in 0 .. n
        PROVE  h[i] = IF i = 0 THEN <<>>
                      ELSE IF seq[i] \in set THEN Append(h[i - 1], seq[i]) ELSE h[i - 1]
    <3>1. CASE i = n
      <4>1. n - 1 \in 0 .. n /\ n - 1 # n
        BY <1>3, <1>5
      <4>2. h[i] = last /\ h[i - 1] = g[n - 1] /\ i # 0
        BY <3>1, <4>1, <1>5
      <4> HIDE DEF h
      <4> QED BY <3>1, <4>2
    <3>2. CASE i # n
      <4>1. i \in 0 .. (n - 1)
        BY <3>2, <1>3
      <4>2. g[i] = IF i = 0 THEN <<>>
                   ELSE IF seq[i] \in set THEN Append(g[i - 1], seq[i]) ELSE g[i - 1]
        BY <2>2, <4>1 DEF KeepsTo
      <4>3. h[i] = g[i] /\ (i # 0 => h[i - 1] = g[i - 1])
        BY <3>2, <4>1, <1>3
      <4> HIDE DEF h
      <4> QED BY <4>2, <4>3
    <3> QED BY <3>1, <3>2
  <2>4. h = [i \in 0 .. n |-> h[i]]
    OBVIOUS
  <2> HIDE DEF h
  <2>5. KeepsTo(h, seq, set, n)
    BY <2>3, <2>4 DEF KeepsTo
  <2> QED BY <2>5, <1>3
<1> QED BY <1>4, <1>5

\* Keep is read off such a function.
LEMMA KeepIs ==
  ASSUME NEW S, NEW seq \in Seq(S), NEW set
  PROVE  \E g : KeepsTo(g, seq, set, Len(seq)) /\ Keep(seq, set) = g[Len(seq)]
<1> DEFINE G == CHOOSE g : KeepsTo(g, seq, set, Len(seq))
<1>1. KeepsTo(G, seq, set, Len(seq))
  <2>1. Len(seq) \in Nat
    OBVIOUS
  <2> QED BY <2>1, KeepsExists
<1>2. Keep(seq, set) = G[Len(seq)]
  BY DEF Keep, KeepsTo
<1> HIDE DEF G
<1> QED BY <1>1, <1>2

\* One step of such a function.
LEMMA KeepsStep ==
  ASSUME NEW g, NEW seq, NEW set, NEW m \in Nat, KeepsTo(g, seq, set, m), NEW n \in 0 .. m
  PROVE  g[n] = IF n = 0 THEN <<>>
                ELSE IF seq[n] \in set THEN Append(g[n - 1], seq[n]) ELSE g[n - 1]
BY DEF KeepsTo

\* Two of them agree on a common start that they keep the same elements of.
LEMMA KeepsAgree ==
  ASSUME NEW g, NEW seq, NEW set, NEW k \in Nat, KeepsTo(g, seq, set, k),
         NEW h, NEW seq2, NEW set2, NEW m \in Nat, KeepsTo(h, seq2, set2, m),
         NEW l \in Nat, l <= k, l <= m,
         \A i \in 1 .. l : seq[i] = seq2[i] /\ (seq[i] \in set <=> seq[i] \in set2)
  PROVE  g[l] = h[l]
<1> DEFINE Bad == {n \in 0 .. l : g[n] # h[n]}
<1>1. SUFFICES ASSUME Bad # {} PROVE FALSE
  OBVIOUS
<1>2. Bad \in SUBSET Nat
  OBVIOUS
<1>3. PICK n \in Bad : \A j \in Bad : n <= j
  BY <1>1, <1>2, LeastNumber
<1>4. n \in 0 .. k /\ n \in 0 .. m /\ n \in 0 .. l /\ g[n] # h[n]
  OBVIOUS
<1>5. g[n] = IF n = 0 THEN <<>>
             ELSE IF seq[n] \in set THEN Append(g[n - 1], seq[n]) ELSE g[n - 1]
  BY <1>4, KeepsStep
<1>6. h[n] = IF n = 0 THEN <<>>
             ELSE IF seq2[n] \in set2 THEN Append(h[n - 1], seq2[n]) ELSE h[n - 1]
  BY <1>4, KeepsStep
<1>7. n # 0
  BY <1>4, <1>5, <1>6
<1>8. n - 1 \in 0 .. l /\ n \in 1 .. l /\ ~ (n <= n - 1)
  BY <1>4, <1>7
<1>9. g[n - 1] = h[n - 1]
  BY <1>3, <1>8
<1>10. seq[n] = seq2[n] /\ (seq[n] \in set <=> seq[n] \in set2)
  BY <1>8
<1> QED BY <1>4, <1>5, <1>6, <1>7, <1>9, <1>10

\* Nothing is kept of nothing.
LEMMA KeepNone == ASSUME NEW set PROVE Keep(<<>>, set) = <<>>
<1>1. <<>> \in Seq(Nat) /\ Len(<<>>) = 0 /\ 0 \in 0 .. 0
  OBVIOUS
<1>2. PICK g : KeepsTo(g, <<>>, set, Len(<<>>)) /\ Keep(<<>>, set) = g[Len(<<>>)]
  BY <1>1, KeepIs
<1> QED BY <1>1, <1>2, KeepsStep

\* One more element is kept or is not.
LEMMA KeepMore ==
  ASSUME NEW S, NEW seq \in Seq(S), NEW x \in S, NEW set
  PROVE  Keep(Append(seq, x), set) = IF x \in set THEN Append(Keep(seq, set), x)
                                     ELSE Keep(seq, set)
<1> DEFINE l == Len(seq)
           s == Append(seq, x)
<1>1. /\ l \in Nat /\ s \in Seq(S) /\ Len(s) = l + 1 /\ s[l + 1] = x
      /\ \A i \in 1 .. l : s[i] = seq[i]
  OBVIOUS
<1>2. PICK g : KeepsTo(g, seq, set, l) /\ Keep(seq, set) = g[l]
  BY KeepIs
<1>3. PICK h : KeepsTo(h, s, set, Len(s)) /\ Keep(s, set) = h[Len(s)]
  <2> HIDE DEF s
  <2> QED BY <1>1, KeepIs
<1> HIDE DEF s, l
<1>4. h[l] = g[l]
  <2>1. l + 1 \in Nat /\ l <= l + 1 /\ l <= l
    BY <1>1
  <2>2. KeepsTo(h, s, set, l + 1)
    BY <1>1, <1>3
  <2>3. \A i \in 1 .. l : s[i] = seq[i] /\ (s[i] \in set <=> s[i] \in set)
    BY <1>1
  <2>4. KeepsTo(g, seq, set, l)
    BY <1>2
  <2> QED BY <1>1, <2>1, <2>2, <2>3, <2>4, KeepsAgree
<1>5. h[l + 1] = IF x \in set THEN Append(h[l], x) ELSE h[l]
  <2>1. l + 1 \in Nat /\ l + 1 \in 0 .. (l + 1) /\ l + 1 # 0 /\ (l + 1) - 1 = l
    BY <1>1
  <2>2. KeepsTo(h, s, set, l + 1)
    BY <1>1, <1>3
  <2>3. h[l + 1] = IF l + 1 = 0 THEN <<>>
                   ELSE IF s[l + 1] \in set THEN Append(h[(l + 1) - 1], s[l + 1])
                   ELSE h[(l + 1) - 1]
    BY <2>1, <2>2, KeepsStep
  <2> QED BY <1>1, <2>1, <2>3
<1> QED BY <1>1, <1>2, <1>3, <1>4, <1>5 DEF s

\* What is kept depends on the elements of the sequence only.
LEMMA KeepSame ==
  ASSUME NEW S, NEW seq \in Seq(S), NEW set, NEW set2,
         \A i \in 1 .. Len(seq) : seq[i] \in set <=> seq[i] \in set2
  PROVE  Keep(seq, set) = Keep(seq, set2)
<1>1. PICK g : KeepsTo(g, seq, set, Len(seq)) /\ Keep(seq, set) = g[Len(seq)]
  BY KeepIs
<1>2. PICK h : KeepsTo(h, seq, set2, Len(seq)) /\ Keep(seq, set2) = h[Len(seq)]
  BY KeepIs
<1>3. Len(seq) \in Nat /\ Len(seq) <= Len(seq)
  OBVIOUS
<1>4. g[Len(seq)] = h[Len(seq)]
  <2>1. KeepsTo(g, seq, set, Len(seq)) /\ KeepsTo(h, seq, set2, Len(seq))
    BY <1>1, <1>2
  <2> QED BY <1>3, <2>1, KeepsAgree
<1> QED BY <1>1, <1>2, <1>4

\* w are the places, in order, of the first n elements of seq that are in set.
Places(w, seq, set, n) ==
  /\ w \in Seq(1 .. n)
  /\ \A i, j \in DOMAIN w : i < j => w[i] < w[j]
  /\ \A k \in 1 .. n : seq[k] \in set <=> \E i \in DOMAIN w : w[i] = k

\* The elements of seq at places.
At(seq, w) == [i \in 1 .. Len(w) |-> seq[w[i]]]

\* One more place.
LEMMA PlacesMore ==
  ASSUME NEW seq, NEW set, NEW n \in Nat, NEW w, Places(w, seq, set, n), seq[n + 1] \in set
  PROVE  /\ Places(Append(w, n + 1), seq, set, n + 1)
         /\ At(seq, Append(w, n + 1)) = Append(At(seq, w), seq[n + 1])
<1> DEFINE v == Append(w, n + 1)
           l == Len(w)
<1>1. /\ w \in Seq(1 .. n) /\ l \in Nat /\ DOMAIN w = 1 .. l /\ \A i \in 1 .. l : w[i] \in 1 .. n
      /\ \A i, j \in DOMAIN w : i < j => w[i] < w[j]
      /\ \A k \in 1 .. n : seq[k] \in set <=> \E i \in DOMAIN w : w[i] = k
  BY DEF Places
<1>2. /\ v \in Seq(1 .. (n + 1)) /\ Len(v) = l + 1 /\ DOMAIN v = 1 .. (l + 1) /\ v[l + 1] = n + 1
      /\ \A i \in 1 .. l : v[i] = w[i]
  <2>1. 1 .. n \subseteq 1 .. (n + 1) /\ n + 1 \in 1 .. (n + 1)
    OBVIOUS
  <2>2. w \in Seq(1 .. (n + 1))
    BY <1>1, <2>1, SeqMonotonic
  <2> QED BY <1>1, <2>1, <2>2
<1> HIDE DEF v, l
<1>3. ASSUME NEW i \in DOMAIN v, NEW j \in DOMAIN v, i < j
      PROVE  v[i] < v[j]
  <2>1. i \in 1 .. l /\ v[i] = w[i] /\ w[i] \in 1 .. n
    BY <1>1, <1>2, <1>3
  <2>2. CASE j = l + 1
    BY <1>2, <2>1, <2>2
  <2>3. CASE j # l + 1
    <3>1. j \in 1 .. l
      BY <1>1, <1>2, <2>3
    <3> QED BY <1>1, <1>2, <1>3, <2>1, <3>1
  <2> QED BY <2>2, <2>3
<1>4. ASSUME NEW k \in 1 .. (n + 1)
      PROVE  seq[k] \in set <=> \E i \in DOMAIN v : v[i] = k
  <2>1. CASE k = n + 1
    <3>1. l + 1 \in DOMAIN v
      BY <1>1, <1>2
    <3> QED BY <1>2, <2>1, <3>1
  <2>2. CASE k # n + 1
    <3>1. k \in 1 .. n
      BY <2>2
    <3>2. (\E i \in DOMAIN v : v[i] = k) <=> \E i \in DOMAIN w : w[i] = k
      <4>1. ASSUME NEW i \in DOMAIN v, v[i] = k
            PROVE  i \in DOMAIN w /\ w[i] = k
        <5>1. i # l + 1
          BY <1>2, <2>2, <4>1
        <5>2. i \in 1 .. l
          BY <1>1, <1>2, <5>1
        <5> QED BY <1>1, <1>2, <4>1, <5>2
      <4>2. ASSUME NEW i \in DOMAIN w, w[i] = k
            PROVE  i \in DOMAIN v /\ v[i] = k
        BY <1>1, <1>2, <4>2
      <4> QED BY <4>1, <4>2
    <3> QED BY <1>1, <3>1, <3>2
  <2> QED BY <2>1, <2>2
<1>5. Places(v, seq, set, n + 1)
  BY <1>2, <1>3, <1>4 DEF Places
<1>6. At(seq, v) = Append(At(seq, w), seq[n + 1])
  <2> DEFINE a == At(seq, w)
             b == [i \in 1 .. (l + 1) |-> seq[v[i]]]
  <2>1. Len(a) = l /\ a = [i \in 1 .. l |-> seq[w[i]]]
    BY <1>1 DEF At, l
  <2>2. At(seq, v) = b
    BY <1>2 DEF At
  <2>3. Append(a, seq[n + 1]) = [i \in 1 .. (l + 1) |-> IF i = l + 1 THEN seq[n + 1] ELSE a[i]]
    <3> HIDE DEF a
    <3> QED BY <1>1, <2>1
  <2>4. ASSUME NEW i \in 1 .. (l + 1)
        PROVE  seq[v[i]] = IF i = l + 1 THEN seq[n + 1] ELSE a[i]
    <3>1. CASE i = l + 1
      BY <1>2, <3>1
    <3>2. CASE i # l + 1
      <4>1. i \in 1 .. l
        BY <1>1, <3>2
      <4> QED BY <1>2, <2>1, <3>2, <4>1
    <3> QED BY <3>1, <3>2
  <2> HIDE DEF a
  <2>5. b = [i \in 1 .. (l + 1) |-> IF i = l + 1 THEN seq[n + 1] ELSE a[i]]
    BY <2>4
  <2> HIDE DEF b
  <2> QED BY <2>2, <2>3, <2>5 DEF a
<1> QED BY <1>5, <1>6 DEF v

\* One place that is left out.
LEMMA PlacesSame ==
  ASSUME NEW seq, NEW set, NEW n \in Nat, NEW w, Places(w, seq, set, n), seq[n + 1] \notin set
  PROVE  Places(w, seq, set, n + 1)
<1>1. w \in Seq(1 .. (n + 1))
  <2>1. w \in Seq(1 .. n) /\ 1 .. n \subseteq 1 .. (n + 1)
    BY DEF Places
  <2> QED BY <2>1, SeqMonotonic
<1>2. ASSUME NEW k \in 1 .. (n + 1)
      PROVE  seq[k] \in set <=> \E i \in DOMAIN w : w[i] = k
  <2>1. CASE k = n + 1
    <3>1. \A i \in DOMAIN w : w[i] \in 1 .. n
      BY DEF Places
    <3> QED BY <2>1, <3>1
  <2>2. CASE k # n + 1
    <3>1. k \in 1 .. n
      BY <2>2
    <3> QED BY <3>1 DEF Places
  <2> QED BY <2>1, <2>2
<1> QED BY <1>1, <1>2 DEF Places

\* Keep keeps the elements of the set, each once, in their order.
LEMMA KeepAt ==
  ASSUME NEW S, NEW seq \in Seq(S), NEW set
  PROVE  \E w : Places(w, seq, set, Len(seq)) /\ Keep(seq, set) = At(seq, w)
<1>1. PICK g : KeepsTo(g, seq, set, Len(seq)) /\ Keep(seq, set) = g[Len(seq)]
  BY KeepIs
<1> DEFINE Good(n) == \E w : Places(w, seq, set, n) /\ g[n] = At(seq, w)
           Bad == {n \in 0 .. Len(seq) : ~ Good(n)}
<1>2. Len(seq) \in Nat /\ Len(seq) \in 0 .. Len(seq)
  OBVIOUS
<1>3. SUFFICES ASSUME Bad # {} PROVE FALSE
  <2>1. Good(Len(seq))
    BY <1>2, <1>3
  <2> QED BY <1>1, <2>1
<1>4. Bad \in SUBSET Nat
  BY <1>2
<1>5. PICK n \in Bad : \A j \in Bad : n <= j
  BY <1>3, <1>4, LeastNumber
<1>6. n \in 0 .. Len(seq) /\ ~ Good(n)
  OBVIOUS
<1>7. g[n] = IF n = 0 THEN <<>>
             ELSE IF seq[n] \in set THEN Append(g[n - 1], seq[n]) ELSE g[n - 1]
  BY <1>1, <1>2, <1>6, KeepsStep
<1>8. CASE n = 0
  <2>1. Places(<<>>, seq, set, 0)
    BY DEF Places
  <2>2. At(seq, <<>>) = <<>>
    BY DEF At
  <2>3. Good(0)
    BY <1>7, <1>8, <2>1, <2>2
  <2> QED BY <1>6, <1>8, <2>3
<1>9. CASE n # 0
  <2> DEFINE m == n - 1
  <2>1. m \in Nat /\ m \in 0 .. Len(seq) /\ n = m + 1 /\ ~ (n <= m)
    BY <1>2, <1>6, <1>9
  <2> HIDE DEF m
  <2>2. Good(m)
    BY <1>5, <2>1
  <2>3. PICK w : Places(w, seq, set, m) /\ g[m] = At(seq, w)
    BY <2>2
  <2>4. g[n] = IF seq[n] \in set THEN Append(g[m], seq[n]) ELSE g[m]
    BY <1>7, <1>9 DEF m
  <2>5. CASE seq[n] \in set
    <3>1. Places(Append(w, m + 1), seq, set, m + 1)
            /\ At(seq, Append(w, m + 1)) = Append(At(seq, w), seq[m + 1])
      BY <2>1, <2>3, <2>5, PlacesMore
    <3>2. Good(n)
      BY <2>1, <2>3, <2>4, <2>5, <3>1
    <3> QED BY <1>6, <3>2
  <2>6. CASE seq[n] \notin set
    <3>1. Places(w, seq, set, m + 1)
      BY <2>1, <2>3, <2>6, PlacesSame
    <3>2. Good(n)
      BY <2>1, <2>3, <2>4, <2>6, <3>1
    <3> QED BY <1>6, <3>2
  <2> QED BY <2>5, <2>6
<1> QED BY <1>8, <1>9

\* What is kept is a sequence of elements of both.
LEMMA KeepIn ==
  ASSUME NEW S, NEW seq \in Seq(S), NEW set
  PROVE  /\ Keep(seq, set) \in Seq(S)
         /\ \A i \in DOMAIN Keep(seq, set) : Keep(seq, set)[i] \in set
         /\ \A k \in 1 .. Len(seq) :
              seq[k] \in set => \E i \in DOMAIN Keep(seq, set) : Keep(seq, set)[i] = seq[k]
<1>1. PICK w : Places(w, seq, set, Len(seq)) /\ Keep(seq, set) = At(seq, w)
  BY KeepAt
<1>2. /\ w \in Seq(1 .. Len(seq)) /\ DOMAIN w = 1 .. Len(w) /\ Len(w) \in Nat
      /\ \A i \in 1 .. Len(w) : w[i] \in 1 .. Len(seq)
      /\ \A k \in 1 .. Len(seq) : seq[k] \in set <=> \E i \in DOMAIN w : w[i] = k
  BY <1>1 DEF Places
<1> DEFINE a == At(seq, w)
<1>3. a = [i \in 1 .. Len(w) |-> seq[w[i]]] /\ DOMAIN a = 1 .. Len(w)
  BY DEF At
<1> HIDE DEF a
<1>4. \A i \in 1 .. Len(w) : a[i] \in S /\ a[i] \in set
  <2> TAKE i \in 1 .. Len(w)
  <2>1. a[i] = seq[w[i]] /\ w[i] \in 1 .. Len(seq)
    BY <1>2, <1>3
  <2>2. seq[w[i]] \in set
    BY <1>2, <2>1
  <2>3. seq[w[i]] \in S
    BY <2>1
  <2> QED BY <2>1, <2>2, <2>3
<1>5. a \in Seq(S)
  BY <1>2, <1>3, <1>4
<1>6. ASSUME NEW k \in 1 .. Len(seq), seq[k] \in set
      PROVE  \E i \in DOMAIN a : a[i] = seq[k]
  BY <1>2, <1>3, <1>6
<1> QED BY <1>1, <1>3, <1>4, <1>5, <1>6 DEF a

\* f holds the first sequences of ss one after the other, up to m of them.
FlatsTo(f, ss, m) ==
  f = [i \in 1 .. m |-> IF i = 1 THEN ss[i] ELSE f[i - 1] \o ss[i]]

\* There is such a function.
LEMMA FlatsExists ==
  ASSUME NEW ss, NEW k \in Nat
  PROVE  \E f : FlatsTo(f, ss, k)
<1> DEFINE Bad == {m \in Nat : ~ \E f : FlatsTo(f, ss, m)}
<1>1. SUFFICES ASSUME Bad # {} PROVE FALSE
  OBVIOUS
<1>2. PICK n \in Bad : \A m \in Bad : n <= m
  BY <1>1, LeastNumber
<1>3. n \in Nat /\ ~ \E f : FlatsTo(f, ss, n)
  OBVIOUS
<1>4. CASE n = 0
  <2> DEFINE h == [i \in 1 .. 0 |-> <<>>]
  <2>1. \A i \in 1 .. 0 : FALSE
    OBVIOUS
  <2>2. h = [i \in 1 .. 0 |-> IF i = 1 THEN ss[i] ELSE h[i - 1] \o ss[i]]
    BY <2>1
  <2> HIDE DEF h
  <2>3. FlatsTo(h, ss, 0)
    BY <2>2 DEF FlatsTo
  <2> QED BY <2>3, <1>3, <1>4
<1>5. CASE n # 0
  <2>1. n - 1 \in Nat /\ n - 1 \notin Bad
    BY <1>2, <1>3, <1>5
  <2>2. PICK g : FlatsTo(g, ss, n - 1)
    BY <2>1
  <2> DEFINE last == IF n = 1 THEN ss[n] ELSE g[n - 1] \o ss[n]
             h == [i \in 1 .. n |-> IF i = n THEN last ELSE g[i]]
  <2>3. ASSUME NEW i \in 1 .. n
        PROVE  h[i] = IF i = 1 THEN ss[i] ELSE h[i - 1] \o ss[i]
    <3>1. CASE i = n
      <4>1. h[i] = last /\ (n # 1 => h[i - 1] = g[n - 1])
        BY <3>1, <1>3
      <4> HIDE DEF h
      <4> QED BY <3>1, <4>1
    <3>2. CASE i # n
      <4>1. i \in 1 .. (n - 1)
        BY <3>2, <1>3
      <4>2. g[i] = IF i = 1 THEN ss[i] ELSE g[i - 1] \o ss[i]
        BY <2>2, <4>1 DEF FlatsTo
      <4>3. h[i] = g[i] /\ (i # 1 => h[i - 1] = g[i - 1])
        BY <3>2, <4>1, <1>3
      <4> HIDE DEF h
      <4> QED BY <4>2, <4>3
    <3> QED BY <3>1, <3>2
  <2>4. h = [i \in 1 .. n |-> h[i]]
    OBVIOUS
  <2> HIDE DEF h
  <2>5. FlatsTo(h, ss, n)
    BY <2>3, <2>4 DEF FlatsTo
  <2> QED BY <2>5, <1>3
<1> QED BY <1>4, <1>5

\* FlattenSeq is read off such a function.
LEMMA FlattenIs ==
  ASSUME NEW S, NEW ss \in Seq(S), ss # <<>>
  PROVE  \E f : FlatsTo(f, ss, Len(ss)) /\ FlattenSeq(ss) = f[Len(ss)]
<1> DEFINE G == CHOOSE f : FlatsTo(f, ss, Len(ss))
<1>1. FlatsTo(G, ss, Len(ss))
  <2>1. Len(ss) \in Nat
    OBVIOUS
  <2> QED BY <2>1, FlatsExists
<1>2. Len(ss) # 0
  OBVIOUS
<1>3. FlattenSeq(ss) = G[Len(ss)]
  BY <1>2 DEF FlattenSeq, FlatsTo
<1> HIDE DEF G
<1> QED BY <1>1, <1>3

\* One step of such a function.
LEMMA FlatsStep ==
  ASSUME NEW f, NEW ss, NEW m \in Nat, FlatsTo(f, ss, m), NEW i \in 1 .. m
  PROVE  f[i] = IF i = 1 THEN ss[i] ELSE f[i - 1] \o ss[i]
BY DEF FlatsTo

\* What it holds are sequences.
LEMMA FlatsIn ==
  ASSUME NEW S, NEW ss \in Seq(Seq(S)), NEW f, FlatsTo(f, ss, Len(ss)), NEW k \in 1 .. Len(ss)
  PROVE  f[k] \in Seq(S)
<1> DEFINE Bad == {n \in 1 .. Len(ss) : f[n] \notin Seq(S)}
<1>1. SUFFICES ASSUME Bad # {} PROVE FALSE
  OBVIOUS
<1>2. Bad \in SUBSET Nat /\ Len(ss) \in Nat
  OBVIOUS
<1>3. PICK n \in Bad : \A j \in Bad : n <= j
  BY <1>1, <1>2, LeastNumber
<1>4. n \in 1 .. Len(ss) /\ f[n] \notin Seq(S) /\ ss[n] \in Seq(S)
  OBVIOUS
<1>5. f[n] = IF n = 1 THEN ss[n] ELSE f[n - 1] \o ss[n]
  BY <1>2, <1>4, FlatsStep
<1>6. n # 1
  BY <1>4, <1>5
<1>7. n - 1 \in 1 .. Len(ss) /\ ~ (n <= n - 1)
  BY <1>4, <1>6
<1>8. f[n - 1] \in Seq(S)
  BY <1>3, <1>7
<1> QED BY <1>4, <1>5, <1>6, <1>8

\* Where a sequence starts.
EndAt(f, i) == IF i = 0 THEN 0 ELSE Len(f[i])

\* It ends where the next one starts.
LEMMA EndMore ==
  ASSUME NEW S, NEW ss \in Seq(Seq(S)), NEW f, FlatsTo(f, ss, Len(ss)), NEW i \in 1 .. Len(ss)
  PROVE  /\ EndAt(f, i - 1) \in Nat /\ Len(ss[i]) \in Nat
         /\ EndAt(f, i) = EndAt(f, i - 1) + Len(ss[i])
<1>1. f[i] = IF i = 1 THEN ss[i] ELSE f[i - 1] \o ss[i]
  <2>1. Len(ss) \in Nat
    OBVIOUS
  <2> QED BY <2>1, FlatsStep
<1>2. ss[i] \in Seq(S) /\ Len(ss[i]) \in Nat
  OBVIOUS
<1>3. CASE i = 1
  BY <1>1, <1>2, <1>3 DEF EndAt
<1>4. CASE i # 1
  <2>1. i - 1 \in 1 .. Len(ss)
    BY <1>4
  <2>2. f[i - 1] \in Seq(S)
    BY <2>1, FlatsIn
  <2> DEFINE a == f[i - 1]  b == ss[i]
  <2>3. f[i] = a \o b /\ a \in Seq(S) /\ b \in Seq(S)
    BY <1>1, <1>2, <1>4, <2>2
  <2>4. Len(f[i]) = Len(a) + Len(b) /\ Len(a) \in Nat
    <3> HIDE DEF a, b
    <3> QED BY <2>3, ConcatProperties
  <2>5. EndAt(f, i) = Len(f[i]) /\ EndAt(f, i - 1) = Len(a)
    BY <1>4, <2>1 DEF EndAt
  <2> QED BY <1>2, <2>4, <2>5
<1> QED BY <1>3, <1>4

\* Every element of every sequence is there.
LEMMA FlatAt ==
  ASSUME NEW S, NEW ss \in Seq(Seq(S)), NEW f, FlatsTo(f, ss, Len(ss)),
         NEW k \in 1 .. Len(ss), NEW i \in 1 .. k, NEW j \in 1 .. Len(ss[i])
  PROVE  /\ EndAt(f, i - 1) + j \in 1 .. Len(f[k])
         /\ f[k][EndAt(f, i - 1) + j] = ss[i][j]
<1> DEFINE p == EndAt(f, i - 1) + j
           Good(n) == p \in 1 .. Len(f[n]) /\ f[n][p] = ss[i][j]
           Bad == {n \in i .. Len(ss) : ~ Good(n)}
<1>0. Len(ss) \in Nat /\ i \in 1 .. Len(ss) /\ k \in i .. Len(ss)
  OBVIOUS
<1>1. SUFFICES ASSUME Bad # {} PROVE FALSE
  <2>1. Good(k)
    BY <1>0, <1>1
  <2> QED BY <2>1
<1>2. Bad \in SUBSET Nat
  BY <1>0
<1>3. PICK n \in Bad : \A m \in Bad : n <= m
  BY <1>1, <1>2, LeastNumber
<1>4. n \in i .. Len(ss) /\ n \in 1 .. Len(ss) /\ ~ Good(n) /\ ss[n] \in Seq(S)
  BY <1>0
<1>5. f[n] = IF n = 1 THEN ss[n] ELSE f[n - 1] \o ss[n]
  BY <1>0, <1>4, FlatsStep
<1>6. j \in Nat /\ j # 0 /\ j <= Len(ss[i]) /\ ss[i] \in Seq(S) /\ Len(ss[i]) \in Nat
  BY <1>0
<1>7. EndAt(f, i - 1) \in Nat /\ EndAt(f, i) = EndAt(f, i - 1) + Len(ss[i])
  BY <1>0, EndMore
<1>8. CASE n = 1
  <2>1. i = 1 /\ p = j
    BY <1>0, <1>4, <1>6, <1>8 DEF EndAt
  <2> QED BY <1>4, <1>5, <1>8, <2>1
<1>9. CASE n # 1
  <2>1. n - 1 \in 1 .. Len(ss)
    BY <1>4, <1>9
  <2>2. f[n - 1] \in Seq(S) /\ Len(f[n - 1]) \in Nat
    <3>1. f[n - 1] \in Seq(S)
      BY <2>1, FlatsIn
    <3> QED BY <3>1
  <2> DEFINE a == f[n - 1]
             b == ss[n]
  <2>6. f[n] = a \o b /\ a \in Seq(S) /\ b \in Seq(S)
    BY <1>4, <1>5, <1>9, <2>2
  <2> HIDE DEF a, b
  <2>3. /\ f[n] = a \o b /\ Len(a \o b) = Len(a) + Len(b) /\ Len(b) \in Nat
        /\ \A q \in 1 .. Len(a) + Len(b) :
             (a \o b)[q] = IF q <= Len(a) THEN a[q] ELSE b[q - Len(a)]
    BY <2>6, ConcatProperties
  <2>4. CASE n = i
    <3>1. p = Len(a) + j
      <4>1. EndAt(f, n - 1) = Len(a)
        BY <1>9, <2>1 DEF EndAt, a
      <4> QED BY <2>4, <4>1
    <3>2. p \in 1 .. Len(a) + Len(b) /\ ~ (p <= Len(a)) /\ p - Len(a) = j
      <4>1. j \in Nat /\ j # 0 /\ j <= Len(b) /\ Len(a) \in Nat /\ Len(b) \in Nat
        BY <1>6, <2>2, <2>3, <2>4 DEF a, b
      <4> HIDE DEF p
      <4> QED BY <3>1, <4>1
    <3> HIDE DEF p
    <3>3. f[n][p] = b[j] /\ p \in 1 .. Len(f[n])
      BY <2>3, <3>2
    <3> QED BY <1>4, <2>4, <3>3 DEF b, p
  <2>5. CASE n # i
    <3>1. n - 1 \in i .. Len(ss) /\ ~ (n <= n - 1)
      BY <1>4, <2>5, <1>0
    <3>2. Good(n - 1)
      BY <1>3, <3>1
    <3>3. p \in 1 .. Len(a) /\ a[p] = ss[i][j]
      BY <3>2 DEF a
    <3>6. Len(a) \in Nat
      BY <2>2 DEF a
    <3> HIDE DEF p
    <3>4. p \in 1 .. Len(a) + Len(b) /\ p <= Len(a)
      BY <2>3, <3>3, <3>6
    <3>5. p \in 1 .. Len(f[n]) /\ f[n][p] = ss[i][j]
      BY <2>3, <3>3, <3>4
    <3> QED BY <1>4, <3>5 DEF p
  <2> QED BY <2>4, <2>5
<1> QED BY <1>8, <1>9

\* And nothing else is.
IsPlace(p, f, ss) == \E i \in 1 .. Len(ss) : \E j \in 1 .. Len(ss[i]) : p = EndAt(f, i - 1) + j

LEMMA FlatCovers ==
  ASSUME NEW S, NEW ss \in Seq(Seq(S)), NEW f, FlatsTo(f, ss, Len(ss)),
         NEW k \in 1 .. Len(ss), NEW p \in 1 .. Len(f[k])
  PROVE  IsPlace(p, f, ss)
<1> DEFINE Upto == {n \in 1 .. Len(ss) : p <= Len(f[n])}
<1>0. Len(ss) \in Nat /\ f[k] \in Seq(S) /\ Len(f[k]) \in Nat
  <2>1. f[k] \in Seq(S)
    BY FlatsIn
  <2> QED BY <2>1
<1>1. Upto \in SUBSET Nat /\ k \in Upto /\ p \in Nat /\ p # 0
  BY <1>0
<1>2. PICK n \in Upto : \A m \in Upto : n <= m
  BY <1>1, LeastNumber
<1>3. n \in 1 .. Len(ss) /\ p <= Len(f[n])
  OBVIOUS
<1>4. EndAt(f, n - 1) \in Nat /\ Len(ss[n]) \in Nat /\ EndAt(f, n) = EndAt(f, n - 1) + Len(ss[n])
  BY <1>3, EndMore
<1>5. EndAt(f, n) = Len(f[n])
  BY <1>3 DEF EndAt
<1>6. EndAt(f, n - 1) < p
  <2>1. CASE n = 1
    BY <1>1, <2>1 DEF EndAt
  <2>2. CASE n # 1
    <3>1. n - 1 \in 1 .. Len(ss) /\ ~ (n <= n - 1)
      BY <1>3, <2>2
    <3>2. ~ (p <= Len(f[n - 1]))
      BY <1>2, <3>1
    <3>3. f[n - 1] \in Seq(S)
      BY <3>1, FlatsIn
    <3>4. Len(f[n - 1]) \in Nat
      BY <3>3
    <3> QED BY <1>1, <2>2, <3>1, <3>2, <3>4 DEF EndAt
  <2> QED BY <2>1, <2>2
<1>7. p - EndAt(f, n - 1) \in 1 .. Len(ss[n]) /\ p = EndAt(f, n - 1) + (p - EndAt(f, n - 1))
  BY <1>1, <1>3, <1>4, <1>5, <1>6
<1> DEFINE j == p - EndAt(f, n - 1)
<1>8. j \in 1 .. Len(ss[n]) /\ p = EndAt(f, n - 1) + j
  BY <1>7
<1> HIDE DEF j
<1> QED BY <1>3, <1>8 DEF IsPlace

Stages == {"args", "open", "asm", "write", "exit"}

\* A word generated from a line of one of the source files.
Word == [file : Nat, line : Nat \ {0}, addr : Nat, code : Nat]
RawLine == [kind : {"label", "word"}, file : Nat, line : Nat \ {0}, addr : Nat, code : Nat]

TypeInv ==
  /\ args \in Commands /\ shape \in [Files -> [lines : 1 .. MaxLines, ended : BOOLEAN]]
  /\ options \subseteq Outputs /\ stage \in Stages
  /\ sf \in Seq(Files) /\ open \in Seq([rec : 0 .. Len(sf) - 1, line : Nat \ {0}])
  /\ offset \in -1 .. MAX_PROGRAM /\ image \in [0 .. MAX_PROGRAM - 1 -> Word \cup {Hole}]
  /\ labelList \in Seq(Nat) /\ errors \subseteq {"pass", "output"}
  /\ todo \in Seq(ToSet(Images)) /\ status \in {"none", "error", "success"}
  /\ emitted \in Seq(Word)
  /\ disk = [o \in Outputs |-> [new |-> New(o), data |-> disk[o].data]]
  /\ \A o \in Outputs : New(o) \in BOOLEAN

\* The image holds the words generated so far, each at its address and from a
\* line that its file has, and holes everywhere else.
ImageInv ==
  /\ \A a \in 0 .. MAX_PROGRAM - 1 :
       image[a] # Hole => a < offset /\ image[a].addr = a /\ image[a] \in ToSet(emitted)
  /\ \A e \in ToSet(emitted) :
       /\ e.addr < offset /\ image[e.addr] = e /\ e.file < Len(sf)
       /\ e.line <= shape[FileOf(e.file)].lines

\* The word of a line of the raw listing, and those of several lines.
Raw(x) == Entry(x.file, x.line, x.addr, x.code)
RawWord == [kind : {"word"}, file : Nat, line : Nat \ {0}, addr : Nat, code : Nat]
RawWords(lines) == LET shown == Keep(lines, RawWord) IN [k \in DOMAIN shown |-> Raw(shown[k])]

\* The raw listing shows the words generated so far.
RawInv ==
  New("l") => disk["l"].data \in Seq(RawLine) /\ RawWords(disk["l"].data) = emitted

\* Before the passes nothing is generated, before they end nothing is written
\* but the raw listing, and what is written after them is what they left.
StageInv ==
  /\ stage \in {"args", "open"} => emitted = <<>> /\ \A o \in Outputs : ~New(o)
  /\ stage = "asm" => \A o \in ToSet(Images) : ~New(o)
  /\ stage \in {"asm", "write"} /\ "l" \in options => New("l")
  /\ status = "success" => stage = "exit" /\ \A o \in options : New(o)
  /\ New("l") => "l" \in options
  /\ \A o \in ToSet(Images) :
       New(o) => /\ o \in options /\ "pass" \notin errors /\ offset > 0
                 /\ \E lost \in SUBSET Files : disk[o].data = Data(o, lost)
  /\ todo # <<>> => stage = "write" /\ "pass" \notin errors /\ offset > 0
  /\ ToSet(todo) \subseteq options
  /\ stage = "write" /\ errors = {} /\ offset > 0 =>
       \A o \in options \ {"l"} : New(o) \/ o \in ToSet(todo)

OutputInv == TypeInv /\ ImageInv /\ RawInv /\ StageInv

\* The record being read is on top.
LEMMA TopIs ==
  ASSUME TypeInv, open # <<>>
  PROVE  /\ Len(open) \in Nat \ {0} /\ Top = open[Len(open)]
         /\ Top.rec \in 0 .. Len(sf) - 1 /\ Top.line \in Nat \ {0}
         /\ Advanced \in Seq([rec : 0 .. Len(sf) - 1, line : Nat \ {0}])
<1> DEFINE Recs == [rec : 0 .. Len(sf) - 1, line : Nat \ {0}]
           l == Len(open)
<1>1. open \in Seq(Recs) /\ Len(open) \in Nat \ {0}
  <2>1. open \in Seq(Recs)
    BY DEF TypeInv
  <2> HIDE DEF Recs
  <2> QED BY <2>1
<1>2. Top = open[Len(open)]
  BY DEF Top, Last
<1>3. open[l] \in Recs /\ l \in DOMAIN open
  <2> HIDE DEF Recs
  <2> QED BY <1>1
<1>4. [open[l] EXCEPT !.line = @ + 1] \in Recs
  BY <1>3
<1>5. Advanced = [open EXCEPT ![l] = [open[l] EXCEPT !.line = @ + 1]]
  BY DEF Advanced
<1> HIDE DEF Recs
<1>6. Advanced \in Seq(Recs)
  BY <1>1, <1>3, <1>4, <1>5 DEF Recs
<1> QED BY <1>1, <1>2, <1>3, <1>6 DEF Recs

\* The file of a record.
LEMMA FileOfIs ==
  ASSUME TypeInv, NEW r \in 0 .. Len(sf) - 1
  PROVE  FileOf(r) \in Files /\ shape[FileOf(r)].lines \in 1 .. MaxLines
           /\ shape[FileOf(r)].ended \in BOOLEAN
<1>1. sf \in Seq(Files) /\ r + 1 \in 1 .. Len(sf)
  <2>1. sf \in Seq(Files)
    BY DEF TypeInv
  <2>2. Len(sf) \in Nat
    BY <2>1
  <2> QED BY <2>1, <2>2
<1>2. FileOf(r) \in Files
  BY <1>1 DEF FileOf
<1> QED BY <1>2 DEF TypeInv

\* A file that is opened anew may be another one.
LEMMA MoreRecords ==
  ASSUME NEW m \in Int, NEW n \in Int, m <= n,
         NEW s \in Seq([rec : 0 .. m - 1, line : Nat \ {0}])
  PROVE  s \in Seq([rec : 0 .. n - 1, line : Nat \ {0}])
<1> DEFINE Recs == [rec : 0 .. m - 1, line : Nat \ {0}]
           T == [rec : 0 .. n - 1, line : Nat \ {0}]
<1>1. Recs \subseteq T
  OBVIOUS
<1> HIDE DEF Recs, T
<1>2. Seq(Recs) \subseteq Seq(T)
  BY <1>1, SeqMonotonic
<1> QED BY <1>2 DEF Recs, T

\* What an output was given.
LEMMA WroteIs ==
  ASSUME TypeInv, NEW o \in Outputs, NEW data
  PROVE  Wrote(o, data) = [p \in Outputs |-> IF p = o THEN [new |-> TRUE, data |-> data]
                                             ELSE [new |-> New(p), data |-> disk[p].data]]
<1>1. disk = [p \in Outputs |-> [new |-> New(p), data |-> disk[p].data]]
  BY DEF TypeInv
<1>2. \A p \in Outputs : disk[p] = [new |-> New(p), data |-> disk[p].data]
  BY <1>1
<1>3. DOMAIN disk = Outputs
  BY <1>1
<1>4. disk = [p \in DOMAIN disk |-> disk[p]]
  BY <1>1
<1>5. Wrote(o, data) = [p \in Outputs |-> IF p = o THEN [new |-> TRUE, data |-> data] ELSE disk[p]]
  BY <1>3, <1>4 DEF Wrote
<1> QED BY <1>2, <1>5

\* A word of the line being read.
NewWord(a, first) == Entry(Top.rec, Top.line, a, Len(emitted) + 1 + a - first)

\* The words of the line being read.
NewWords(n, first) == [k \in 1 .. n |-> NewWord(first + k - 1, first)]

\* The size of the image.
LEMMA ImageSize == MAX_PROGRAM \in Nat /\ MAX_PROGRAM > 8 /\ Origins \subseteq 0 .. MAX_PROGRAM - 1
BY OutputAssumption

\* A line generates words behind those there are.
LEMMA LineIs ==
  ASSUME TypeInv, NEW label \in BOOLEAN, NEW n \in 0 .. 2, Line(label, n)
  PROVE  /\ stage = "asm" /\ open # <<>> /\ Top.line <= shape[FileOf(Top.rec)].lines
         /\ Ready \in 0 .. MAX_PROGRAM - 1 /\ Ready + n <= MAX_PROGRAM /\ offset <= Ready
         /\ Ready = IF offset = -1 THEN 8 ELSE offset
         /\ offset' = Ready + n /\ open' = Advanced
         /\ \A a \in Ready .. Ready + n - 1 : NewWord(a, Ready) \in Word
         /\ image' = [a \in 0 .. MAX_PROGRAM - 1 |->
                        IF a \in Ready .. Ready + n - 1 THEN NewWord(a, Ready) ELSE image[a]]
         /\ NewWords(n, Ready) \in Seq(Word) /\ Len(NewWords(n, Ready)) = n
         /\ emitted' = emitted \o NewWords(n, Ready)
<1>1. stage = "asm" /\ open # <<>> /\ Top.line <= shape[FileOf(Top.rec)].lines
  BY DEF Line, AtLine
<1>2. offset \in -1 .. MAX_PROGRAM
  BY DEF TypeInv
<1>3. /\ Ready \in 0 .. MAX_PROGRAM - 1 /\ Ready + n <= MAX_PROGRAM /\ offset <= Ready
      /\ offset' = Ready + n /\ open' = Advanced /\ Ready = IF offset = -1 THEN 8 ELSE offset
  BY <1>2, ImageSize DEF Line, Ready
<1>4. Top.rec \in Nat /\ Top.line \in Nat \ {0} /\ Len(emitted) \in Nat
  <2>1. Len(emitted) \in Nat
    BY DEF TypeInv
  <2>2. Top.rec \in 0 .. Len(sf) - 1 /\ Top.line \in Nat \ {0}
    BY <1>1, TopIs
  <2> QED BY <2>1, <2>2
<1>5. ASSUME NEW a \in Ready .. Ready + n - 1
      PROVE  NewWord(a, Ready) \in Word
  <2>1. a \in Nat /\ Ready \in Nat /\ Ready <= a /\ a \in 0 .. MAX_PROGRAM - 1
    <3> DEFINE r == Ready
    <3>1. r \in Nat /\ r + n <= MAX_PROGRAM
      BY <1>3
    <3>3. a \in r .. r + n - 1
      OBVIOUS
    <3> HIDE DEF r
    <3>2. a \in Nat /\ r \in Nat /\ r <= a /\ a \in 0 .. MAX_PROGRAM - 1
      BY <3>1, <3>3, ImageSize
    <3> QED BY <3>2 DEF r
  <2> DEFINE c == Len(emitted) + 1 + a - Ready
  <2>2. c \in Nat
    BY <1>4, <2>1
  <2> HIDE DEF c
  <2> QED BY <1>4, <2>1, <2>2 DEF NewWord, Word, Entry, c
<1>6. DOMAIN image = 0 .. MAX_PROGRAM - 1
  BY DEF TypeInv
<1>7. image' = [a \in 0 .. MAX_PROGRAM - 1 |->
                  IF a \in Ready .. Ready + n - 1 THEN NewWord(a, Ready) ELSE image[a]]
  BY <1>6 DEF Line, NewWord
<1> DEFINE w == NewWords(n, Ready)
<1>8. ASSUME NEW k \in 1 .. n
      PROVE  Ready + k - 1 \in Ready .. Ready + n - 1 /\ Ready + k - 1 \in 0 .. MAX_PROGRAM - 1
  <2> DEFINE r == Ready
  <2>1. r \in Nat /\ r + n <= MAX_PROGRAM
    BY <1>3
  <2> HIDE DEF r
  <2>2. r + k - 1 \in r .. r + n - 1 /\ r + k - 1 \in 0 .. MAX_PROGRAM - 1
    BY <2>1, ImageSize
  <2> QED BY <2>2 DEF r
<1>9. w \in Seq(Word) /\ Len(w) = n
  <2>1. \A k \in 1 .. n : NewWord(Ready + k - 1, Ready) \in Word
    BY <1>5, <1>8
  <2> QED BY <2>1 DEF NewWords
<1>10. emitted' = emitted \o w
  <2>1. emitted' = emitted \o [k \in 1 .. n |-> image'[Ready + k - 1]]
    BY DEF Line
  <2>2. \A k \in 1 .. n : image'[Ready + k - 1] = NewWord(Ready + k - 1, Ready)
    BY <1>7, <1>8
  <2> QED BY <2>1, <2>2 DEF NewWords
<1> QED BY <1>1, <1>3, <1>5, <1>7, <1>9, <1>10

\* The state has its type.
LEMMA TypeStart == OutputInit => TypeInv
<1> SUFFICES ASSUME OutputInit PROVE TypeInv
  OBVIOUS
<1>1. offset \in -1 .. MAX_PROGRAM
  BY ImageSize DEF OutputInit
<1>2. image \in [0 .. MAX_PROGRAM - 1 -> Word \cup {Hole}]
  BY DEF OutputInit
<1>3. disk = [o \in Outputs |-> [new |-> New(o), data |-> disk[o].data]]
        /\ \A o \in Outputs : New(o) \in BOOLEAN
  BY DEF OutputInit, New
<1>4. /\ args \in Commands /\ shape \in [Files -> [lines : 1 .. MaxLines, ended : BOOLEAN]]
      /\ options \subseteq Outputs /\ stage \in Stages /\ errors \subseteq {"pass", "output"}
      /\ status \in {"none", "error", "success"}
  BY DEF OutputInit, Stages
<1>5. /\ sf \in Seq(Files) /\ open \in Seq([rec : 0 .. Len(sf) - 1, line : Nat \ {0}])
      /\ labelList \in Seq(Nat) /\ todo \in Seq(ToSet(Images)) /\ emitted \in Seq(Word)
  BY DEF OutputInit
<1> QED BY <1>1, <1>2, <1>3, <1>4, <1>5 DEF TypeInv

\* Outputs that are written keep the files what they are.
LEMMA WroteType ==
  ASSUME TypeInv, NEW o \in Outputs, NEW data, disk' = Wrote(o, data)
  PROVE  /\ (disk = [p \in Outputs |-> [new |-> New(p), data |-> disk[p].data]])'
         /\ (\A p \in Outputs : New(p) \in BOOLEAN)'
         /\ New(o)' /\ disk'[o].data = data
         /\ \A p \in Outputs \ {o} : New(p)' = New(p) /\ disk'[p].data = disk[p].data
<1>1. disk' = [p \in Outputs |-> IF p = o THEN [new |-> TRUE, data |-> data]
                                 ELSE [new |-> New(p), data |-> disk[p].data]]
  BY WroteIs
<1>2. \A p \in Outputs : New(p) \in BOOLEAN
  BY DEF TypeInv
<1>3. ASSUME NEW p \in Outputs
      PROVE  /\ disk'[p] = [new |-> disk'[p].new, data |-> disk'[p].data]
             /\ disk'[p].new \in BOOLEAN
             /\ p = o => disk'[p].new /\ disk'[p].data = data
             /\ p # o => disk'[p].new = New(p) /\ disk'[p].data = disk[p].data
  <2>1. CASE p = o
    <3>1. disk'[p] = [new |-> TRUE, data |-> data]
      BY <1>1, <2>1
    <3> QED BY <2>1, <3>1
  <2>2. CASE p # o
    <3>1. disk'[p] = [new |-> New(p), data |-> disk[p].data]
      BY <1>1, <2>2
    <3> QED BY <1>2, <2>2, <3>1
  <2> QED BY <2>1, <2>2
<1>4. disk' = [p \in Outputs |-> disk'[p]]
  BY <1>1
<1>5. disk' = [p \in Outputs |-> [new |-> disk'[p].new, data |-> disk'[p].data]]
  BY <1>3, <1>4
<1> QED BY <1>3, <1>5 DEF New

\* The type invariant where the output files stay what they are.
DiskType ==
  /\ disk = [o \in Outputs |-> [new |-> New(o), data |-> disk[o].data]]
  /\ \A o \in Outputs : New(o) \in BOOLEAN

LEMMA DiskKept == ASSUME TypeInv, disk' = disk PROVE DiskType'
BY DEF TypeInv, DiskType, New

\* Reading the command line and opening the source file.
LEMMA TypeStarts ==
  ASSUME TypeInv, ReadArgs \/ OpenFails \/ Begin
  PROVE  TypeInv'
<1>1. CASE ReadArgs
  <2>1. options' \subseteq Outputs
    <3>1. Selected \subseteq Outputs
      <4>1. "c" \in Outputs
        BY DEF Outputs, ToSet, Images
      <4> QED BY <4>1 DEF Selected
    <3> QED BY <1>1, <3>1 DEF ReadArgs, TypeInv
  <2>2. stage' \in Stages /\ status' \in {"none", "error", "success"}
    BY <1>1 DEF ReadArgs, Fail, Stages, TypeInv
  <2>3. UNCHANGED <<args, shape, sf, open, offset, image, labelList, errors, todo, disk, emitted>>
    BY <1>1 DEF ReadArgs
  <2>4. DiskType'
    BY <2>3, DiskKept
  <2> QED BY <2>1, <2>2, <2>3, <2>4 DEF TypeInv, DiskType
<1>2. CASE OpenFails
  <2>1. stage' \in Stages /\ status' \in {"none", "error", "success"}
    BY <1>2 DEF OpenFails, Fail, Stages
  <2>2. UNCHANGED <<args, shape, options, sf, open, offset, image, labelList, errors, todo, disk,
                    emitted>>
    BY <1>2 DEF OpenFails
  <2>3. DiskType'
    BY <2>2, DiskKept
  <2> QED BY <2>1, <2>2, <2>3 DEF TypeInv, DiskType
<1>3. CASE Begin
  <2>1. stage' \in Stages
    BY <1>3 DEF Begin, Stages
  <2>2. sf' \in Seq(Files) /\ open' \in Seq([rec : 0 .. Len(sf') - 1, line : Nat \ {0}])
    <3>1. sf' = <<Main>> /\ open' = <<[rec |-> 0, line |-> 1]>> /\ Main \in Files
      BY <1>3, OutputAssumption DEF Begin
    <3>2. Len(sf') = 1 /\ sf' \in Seq(Files)
      BY <3>1
    <3>3. [rec |-> 0, line |-> 1] \in [rec : 0 .. Len(sf') - 1, line : Nat \ {0}]
      BY <3>2
    <3> QED BY <3>1, <3>2, <3>3
  <2>3. UNCHANGED <<args, shape, options, offset, image, labelList, errors, todo, status, emitted>>
    BY <1>3 DEF Begin
  <2>4. DiskType'
    <3>1. CASE "l" \in options
      <4>1. disk' = Wrote("l", <<>>) /\ "l" \in Outputs
        BY <1>3, <3>1 DEF Begin, Outputs
      <4> QED BY <4>1, WroteType DEF DiskType
    <3>2. CASE "l" \notin options
      BY <1>3, <3>2, DiskKept DEF Begin
    <3> QED BY <3>1, <3>2
  <2> QED BY <2>1, <2>2, <2>3, <2>4 DEF TypeInv, DiskType
<1> QED BY <1>1, <1>2, <1>3

\* Reading a line that generates nothing, and the end of a file.
LEMMA TypeReads ==
  ASSUME TypeInv, Skip \/ EndOfFile \/ GiveUp \/ EndPasses \/ Exit
                    \/ (\E val \in Origins : Origin(val))
                    \/ UNCHANGED outputVars
  PROVE  TypeInv'
<1>1. CASE Skip
  <2>1. open # <<>> /\ open' = Advanced
    BY <1>1 DEF Skip, AtLine
  <2>2. UNCHANGED <<args, shape, options, stage, sf, offset, image, labelList, errors, todo, disk,
                    status, emitted>>
    BY <1>1 DEF Skip
  <2>3. open' \in Seq([rec : 0 .. Len(sf) - 1, line : Nat \ {0}])
    BY <2>1, TopIs
  <2>4. DiskType'
    BY <2>2, DiskKept
  <2> QED BY <2>2, <2>3, <2>4 DEF TypeInv, DiskType
<1>2. ASSUME NEW val \in Origins, Origin(val)
      PROVE  TypeInv'
  <2>1. open # <<>> /\ open' = Advanced /\ offset' = val
    BY <1>2 DEF Origin, AtLine
  <2>2. UNCHANGED <<args, shape, options, stage, sf, image, labelList, errors, todo, disk, status,
                    emitted>>
    BY <1>2 DEF Origin
  <2>3. open' \in Seq([rec : 0 .. Len(sf) - 1, line : Nat \ {0}])
    BY <2>1, TopIs
  <2>4. DiskType'
    BY <2>2, DiskKept
  <2>5. offset' \in -1 .. MAX_PROGRAM
    BY <2>1, ImageSize
  <2> QED BY <2>2, <2>3, <2>4, <2>5 DEF TypeInv, DiskType
<1>3. CASE EndOfFile
  <2>1. open # <<>> /\ open' = Front(open)
    BY <1>3 DEF EndOfFile
  <2>2. UNCHANGED <<args, shape, options, stage, sf, offset, image, labelList, errors, todo, disk,
                    status, emitted>>
    BY <1>3 DEF EndOfFile
  <2>3. open' \in Seq([rec : 0 .. Len(sf) - 1, line : Nat \ {0}])
    <3> DEFINE Recs == [rec : 0 .. Len(sf) - 1, line : Nat \ {0}]
    <3>1. open \in Seq(Recs)
      BY DEF TypeInv
    <3> HIDE DEF Recs
    <3>2. open' = SubSeq(open, 1, Len(open) - 1)
      BY <2>1 DEF Front
    <3>3. open' \in Seq(Recs)
      BY <2>1, <3>1, <3>2
    <3> QED BY <3>3 DEF Recs
  <2>4. DiskType'
    BY <2>2, DiskKept
  <2> QED BY <2>2, <2>3, <2>4 DEF TypeInv, DiskType
<1>4. CASE GiveUp
  <2>1. errors' \subseteq {"pass", "output"} /\ open' = <<>>
    BY <1>4 DEF GiveUp
  <2>2. UNCHANGED <<args, shape, options, stage, sf, offset, image, labelList, todo, disk, status,
                    emitted>>
    BY <1>4 DEF GiveUp
  <2>3. open' \in Seq([rec : 0 .. Len(sf) - 1, line : Nat \ {0}])
    BY <2>1
  <2>4. DiskType'
    BY <2>2, DiskKept
  <2> QED BY <2>1, <2>2, <2>3, <2>4 DEF TypeInv, DiskType
<1>5. CASE EndPasses
  <2>1. stage' \in Stages
    BY <1>5 DEF EndPasses, Stages
  <2>2. todo' \in Seq(ToSet(Images))
    <3>1. Images \in Seq(ToSet(Images))
      BY DEF Images, ToSet
    <3>2. Keep(Images, options) \in Seq(ToSet(Images))
      BY <3>1, KeepIn
    <3> QED BY <1>5, <3>2 DEF EndPasses, Wanted
  <2>3. UNCHANGED <<args, shape, options, sf, open, offset, image, labelList, errors, disk, status,
                    emitted>>
    BY <1>5 DEF EndPasses
  <2>4. DiskType'
    BY <2>3, DiskKept
  <2> QED BY <2>1, <2>2, <2>3, <2>4 DEF TypeInv, DiskType
<1>6. CASE Exit
  <2>1. stage' \in Stages /\ status' \in {"none", "error", "success"}
    BY <1>6 DEF Exit, Stages
  <2>2. UNCHANGED <<args, shape, options, sf, open, offset, image, labelList, errors, todo, disk,
                    emitted>>
    BY <1>6 DEF Exit
  <2>3. DiskType'
    BY <2>2, DiskKept
  <2> QED BY <2>1, <2>2, <2>3 DEF TypeInv, DiskType
<1>7. CASE UNCHANGED outputVars
  <2>1. DiskType'
    BY <1>7, DiskKept DEF outputVars
  <2> QED BY <1>7, <2>1 DEF TypeInv, DiskType, outputVars
<1> QED BY <1>1, <1>2, <1>3, <1>4, <1>5, <1>6, <1>7

\* A line that generates words.
LEMMA TypeLine ==
  ASSUME TypeInv, NEW label \in BOOLEAN, NEW n \in 0 .. 2, Line(label, n)
  PROVE  TypeInv'
<1>1. /\ open # <<>> /\ Ready \in 0 .. MAX_PROGRAM - 1 /\ Ready + n <= MAX_PROGRAM
      /\ offset' = Ready + n /\ open' = Advanced
      /\ \A a \in Ready .. Ready + n - 1 : NewWord(a, Ready) \in Word
      /\ image' = [a \in 0 .. MAX_PROGRAM - 1 |->
                     IF a \in Ready .. Ready + n - 1 THEN NewWord(a, Ready) ELSE image[a]]
      /\ NewWords(n, Ready) \in Seq(Word) /\ emitted' = emitted \o NewWords(n, Ready)
  BY LineIs
<1>2. UNCHANGED <<args, shape, options, stage, sf, errors, todo, status>>
  BY DEF Line
<1>3. open' \in Seq([rec : 0 .. Len(sf) - 1, line : Nat \ {0}])
  BY <1>1, TopIs
<1>4. offset' \in -1 .. MAX_PROGRAM
  <2> DEFINE r == Ready
  <2>1. r \in 0 .. MAX_PROGRAM - 1 /\ r + n <= MAX_PROGRAM /\ offset' = r + n
    BY <1>1
  <2> HIDE DEF r
  <2> QED BY <2>1, ImageSize
<1>5. image' \in [0 .. MAX_PROGRAM - 1 -> Word \cup {Hole}]
  <2>1. \A a \in 0 .. MAX_PROGRAM - 1 : image[a] \in Word \cup {Hole}
    BY DEF TypeInv
  <2> QED BY <1>1, <2>1
<1>6. emitted' \in Seq(Word)
  <2>1. emitted \in Seq(Word)
    BY DEF TypeInv
  <2> QED BY <1>1, <2>1, ConcatProperties
<1>7. labelList' \in Seq(Nat)
  <2> DEFINE r == Ready
  <2>1. r \in Nat /\ labelList \in Seq(Nat)
    BY <1>1 DEF TypeInv
  <2>2. labelList' = IF label THEN <<r>> \o labelList ELSE labelList
    BY DEF Line
  <2> HIDE DEF r
  <2>3. <<r>> \in Seq(Nat)
    BY <2>1
  <2>4. <<r>> \o labelList \in Seq(Nat)
    BY <2>1, <2>3, ConcatProperties
  <2> QED BY <2>1, <2>2, <2>4
<1>8. DiskType'
  <2>1. CASE "l" \in options
    <3> DEFINE data == disk'["l"].data
    <3>1. PICK d : disk' = [disk EXCEPT !["l"].data = d]
      BY <2>1 DEF Line
    <3>2. disk = [o \in Outputs |-> [new |-> New(o), data |-> disk[o].data]]
            /\ "l" \in Outputs /\ \A o \in Outputs : New(o) \in BOOLEAN
      BY DEF TypeInv, Outputs
    <3>3. disk["l"] = [new |-> New("l"), data |-> disk["l"].data]
      BY <3>2
    <3>4. disk' = [o \in Outputs |-> IF o = "l" THEN [new |-> New("l"), data |-> d]
                                     ELSE [new |-> New(o), data |-> disk[o].data]]
      BY <3>1, <3>2, <3>3
    <3>5. \A o \in Outputs : /\ disk'[o] = [new |-> disk'[o].new, data |-> disk'[o].data]
                             /\ disk'[o].new \in BOOLEAN
      BY <3>2, <3>4
    <3>6. disk' = [o \in Outputs |-> disk'[o]]
      BY <3>4
    <3> QED BY <3>5, <3>6 DEF DiskType, New
  <2>2. CASE "l" \notin options
    BY <2>2, DiskKept DEF Line
  <2> QED BY <2>1, <2>2
<1> QED BY <1>2, <1>3, <1>4, <1>5, <1>6, <1>7, <1>8 DEF TypeInv, DiskType

\* A line that includes a file.
LEMMA TypeInclude ==
  ASSUME TypeInv, NEW f \in Files, Include(f)
  PROVE  TypeInv'
<1> DEFINE free == {r \in 0 .. Len(sf) - 1 :
                      FileOf(r) = f /\ \A k \in DOMAIN open : open[k].rec # r}
           rec == IF free = {} THEN Len(sf) ELSE Min(free)
<1>1. /\ AtLine /\ sf' = IF free = {} THEN Append(sf, f) ELSE sf
      /\ open' = Append(Advanced, [rec |-> rec, line |-> 1])
  BY DEF Include
<1>2. UNCHANGED <<args, shape, options, stage, offset, image, labelList, errors, todo, disk, status,
                  emitted>>
  BY DEF Include
<1>3. sf \in Seq(Files) /\ Len(sf) \in Nat
  BY DEF TypeInv
<1>4. Advanced \in Seq([rec : 0 .. Len(sf) - 1, line : Nat \ {0}])
  BY <1>1, TopIs DEF AtLine
<1>5. sf' \in Seq(Files) /\ Len(sf') \in Nat /\ Len(sf) <= Len(sf') /\ rec \in 0 .. Len(sf') - 1
  <2>1. CASE free = {}
    BY <1>1, <1>3, <2>1
  <2>2. CASE free # {}
    <3>1. Min(free) \in free
      <4>1. free \in SUBSET Nat
        OBVIOUS
      <4>2. \E x \in free : \A y \in free : x <= y
        BY <2>2, <4>1, LeastNumber
      <4> HIDE DEF free
      <4> QED BY <4>2 DEF Min
    <3> QED BY <1>1, <1>3, <2>2, <3>1
  <2> QED BY <2>1, <2>2
<1>6. open' \in Seq([rec : 0 .. Len(sf') - 1, line : Nat \ {0}])
  <2> DEFINE Recs == [rec : 0 .. Len(sf') - 1, line : Nat \ {0}]
  <2>1. Advanced \in Seq(Recs)
    <3> DEFINE m == Len(sf)
               l == Len(sf')
    <3>1. m \in Int /\ l \in Int /\ m <= l
      BY <1>3, <1>5
    <3>2. Advanced \in Seq([rec : 0 .. m - 1, line : Nat \ {0}])
      BY <1>4
    <3> HIDE DEF m, l
    <3>3. Advanced \in Seq([rec : 0 .. l - 1, line : Nat \ {0}])
      BY <3>1, <3>2, MoreRecords
    <3> QED BY <3>3 DEF l
  <2>2. [rec |-> rec, line |-> 1] \in Recs
    BY <1>5
  <2> HIDE DEF Recs, rec
  <2>3. open' \in Seq(Recs)
    BY <1>1, <2>1, <2>2 DEF rec
  <2> QED BY <2>3 DEF Recs
<1>7. DiskType'
  BY <1>2, DiskKept
<1> QED BY <1>2, <1>5, <1>6, <1>7 DEF TypeInv, DiskType

\* An output file.
LEMMA TypeWrites ==
  ASSUME TypeInv, NEW opens \in BOOLEAN, NEW lost \in SUBSET Files, WriteOutput(opens, lost)
  PROVE  TypeInv'
<1>1. UNCHANGED <<args, shape, options, stage, sf, open, offset, image, labelList, status, emitted>>
  BY DEF WriteOutput
<1>2. todo \in Seq(ToSet(Images)) /\ todo # <<>> /\ todo' = Tail(todo)
  BY DEF WriteOutput, TypeInv
<1>3. todo' \in Seq(ToSet(Images)) /\ Head(todo) \in ToSet(Images)
  BY <1>2
<1>4. Head(todo) \in Outputs
  BY <1>3 DEF Outputs
<1>5. errors' \subseteq {"pass", "output"}
  BY DEF WriteOutput, TypeInv
<1>6. DiskType'
  <2>1. CASE opens
    <3>1. disk' = Wrote(Head(todo), Data(Head(todo), lost))
      BY <2>1 DEF WriteOutput
    <3> QED BY <1>4, <3>1, WroteType DEF DiskType
  <2>2. CASE ~opens
    BY <2>2, DiskKept DEF WriteOutput
  <2> QED BY <2>1, <2>2
<1> QED BY <1>1, <1>3, <1>5, <1>6 DEF TypeInv, DiskType

\* The type invariant is inductive.
LEMMA TypeStep ==
  ASSUME TypeInv, [OutputNext]_outputVars
  PROVE  TypeInv'
BY TypeStarts, TypeReads, TypeLine, TypeInclude, TypeWrites DEF OutputNext

\* Where the image, the words, the records and their files stay what they are.
LEMMA ImageKept ==
  ASSUME TypeInv, ImageInv, UNCHANGED <<shape, sf, offset, image, emitted>>
  PROVE  ImageInv'
BY DEF ImageInv, FileOf

\* Elements of a sequence with others behind it.
LEMMA ToSetMore ==
  ASSUME NEW S, NEW s \in Seq(S), NEW t \in Seq(S)
  PROVE  ToSet(s \o t) = ToSet(s) \cup ToSet(t)
<1> DEFINE m == Len(s)
           n == Len(t)
           u == s \o t
<1>1. m \in Nat /\ n \in Nat /\ DOMAIN s = 1 .. m /\ DOMAIN t = 1 .. n
  OBVIOUS
<1>2. Len(u) = m + n /\ DOMAIN u = 1 .. m + n
        /\ \A i \in 1 .. m + n : u[i] = IF i <= m THEN s[i] ELSE t[i - m]
  <2>1. u \in Seq(S) /\ Len(u) = m + n
    BY ConcatProperties
  <2>2. \A i \in 1 .. m + n : u[i] = IF i <= m THEN s[i] ELSE t[i - m]
    BY ConcatProperties
  <2> QED BY <2>1, <2>2
<1> HIDE DEF m, n, u
<1>3. ASSUME NEW i \in 1 .. m + n
      PROVE  u[i] \in {s[k] : k \in 1 .. m} \cup {t[k] : k \in 1 .. n}
  <2>1. CASE i <= m
    BY <1>1, <1>2, <2>1
  <2>2. CASE ~ (i <= m)
    <3>1. i - m \in 1 .. n
      BY <1>1, <2>2
    <3> QED BY <1>2, <2>2, <3>1
  <2> QED BY <2>1, <2>2
<1>4. ASSUME NEW k \in 1 .. m
      PROVE  s[k] \in {u[i] : i \in 1 .. m + n}
  <2>1. k \in 1 .. m + n /\ k <= m
    BY <1>1
  <2> QED BY <1>2, <2>1
<1>5. ASSUME NEW k \in 1 .. n
      PROVE  t[k] \in {u[i] : i \in 1 .. m + n}
  <2>1. m + k \in 1 .. m + n /\ ~ (m + k <= m) /\ (m + k) - m = k
    BY <1>1
  <2>2. u[m + k] = t[k]
    BY <1>2, <2>1
  <2> QED BY <2>1, <2>2
<1>6. {u[i] : i \in 1 .. m + n} = {s[k] : k \in 1 .. m} \cup {t[k] : k \in 1 .. n}
  BY <1>3, <1>4, <1>5
<1> QED BY <1>1, <1>2, <1>6 DEF ToSet, u

\* A word that was generated.
LEMMA EmittedIs ==
  ASSUME TypeInv, NEW e \in ToSet(emitted)
  PROVE  /\ e \in Word /\ e.file \in Nat /\ e.line \in Nat \ {0} /\ e.addr \in Nat /\ e.code \in Nat
         /\ e = Entry(e.file, e.line, e.addr, e.code)
<1>1. emitted \in Seq(Word)
  BY DEF TypeInv
<1>2. e \in Word
  BY <1>1 DEF ToSet
<1> QED BY <1>2 DEF Word, Entry

\* A line leaves the image as it says.
LEMMA ImageLine ==
  ASSUME TypeInv, ImageInv, NEW label \in BOOLEAN, NEW n \in 0 .. 2, Line(label, n)
  PROVE  ImageInv'
<1> DEFINE r == Ready
           New1 == r .. r + n - 1
           w == NewWords(n, r)
<1>1. /\ open # <<>> /\ r \in 0 .. MAX_PROGRAM - 1 /\ r + n <= MAX_PROGRAM /\ offset <= r
      /\ offset' = r + n /\ Top.line <= shape[FileOf(Top.rec)].lines
      /\ image' = [a \in 0 .. MAX_PROGRAM - 1 |-> IF a \in New1 THEN NewWord(a, r) ELSE image[a]]
      /\ w \in Seq(Word) /\ Len(w) = n /\ emitted' = emitted \o w
  BY LineIs
<1>2. sf' = sf /\ shape' = shape
  BY DEF Line
<1>3. emitted \in Seq(Word) /\ offset \in Int /\ r \in Nat /\ r + n \in Nat /\ n \in Nat
  <2>1. emitted \in Seq(Word) /\ offset \in -1 .. MAX_PROGRAM
    BY DEF TypeInv
  <2> QED BY <1>1, <2>1, ImageSize
<1>4. ToSet(emitted') = ToSet(emitted) \cup ToSet(w)
  BY <1>1, <1>3, ToSetMore
<1>5. ToSet(w) = {NewWord(a, r) : a \in New1}
  <2>1. DOMAIN w = 1 .. n /\ w = [k \in 1 .. n |-> NewWord(r + k - 1, r)]
    BY DEF NewWords
  <2>2. ASSUME NEW k \in 1 .. n PROVE r + k - 1 \in New1
    <3> HIDE DEF r
    <3> QED BY <1>3
  <2>3. ASSUME NEW a \in New1 PROVE a - r + 1 \in 1 .. n /\ r + (a - r + 1) - 1 = a
    <3> HIDE DEF r
    <3> QED BY <1>3
  <2> HIDE DEF w, r, New1
  <2>4. ToSet(w) = {NewWord(r + k - 1, r) : k \in 1 .. n}
    BY <2>1 DEF ToSet
  <2>5. ASSUME NEW a \in New1
        PROVE  NewWord(a, r) \in {NewWord(r + k - 1, r) : k \in 1 .. n}
    BY <2>3
  <2> QED BY <2>2, <2>4, <2>5
<1>6. \A a \in New1 : /\ NewWord(a, r).addr = a /\ NewWord(a, r).file = Top.rec
                      /\ NewWord(a, r).line = Top.line /\ a \in 0 .. MAX_PROGRAM - 1
  <2>1. \A a \in New1 : a \in 0 .. MAX_PROGRAM - 1
    <3> HIDE DEF r
    <3> QED BY <1>1, <1>3, ImageSize
  <2> QED BY <2>1 DEF NewWord, Entry
<1>7. Top.rec \in 0 .. Len(sf) - 1
  BY <1>1, TopIs
<1> HIDE DEF r, New1, w
<1>8. ASSUME NEW a \in 0 .. MAX_PROGRAM - 1, image'[a] # Hole
      PROVE  a < offset' /\ image'[a].addr = a /\ image'[a] \in ToSet(emitted')
  <2>1. CASE a \in New1
    <3>1. image'[a] = NewWord(a, r)
      BY <1>1, <2>1
    <3>2. a < offset'
      BY <1>1, <1>3, <2>1 DEF New1
    <3> QED BY <1>4, <1>5, <1>6, <2>1, <3>1, <3>2
  <2>2. CASE a \notin New1
    <3>1. image'[a] = image[a]
      BY <1>1, <2>2
    <3>2. a < offset /\ image[a].addr = a /\ image[a] \in ToSet(emitted)
      BY <1>8, <3>1 DEF ImageInv
    <3>3. a < offset'
      BY <1>1, <1>3, <3>2
    <3> QED BY <1>4, <3>1, <3>2, <3>3
  <2> QED BY <2>1, <2>2
<1>9. ASSUME NEW e \in ToSet(emitted')
      PROVE  /\ e.addr < offset' /\ image'[e.addr] = e /\ e.file < Len(sf')
             /\ e.line <= shape'[FileOf(e.file)'].lines
  <2>1. CASE e \in ToSet(emitted)
    <3>1. e.addr < offset /\ image[e.addr] = e /\ e.file < Len(sf)
            /\ e.line <= shape[FileOf(e.file)].lines
      BY <2>1 DEF ImageInv
    <3>3. e.addr \in Nat /\ e.addr \notin New1 /\ e.addr < offset'
      <4>1. e.addr \in Nat
        BY <2>1, EmittedIs
      <4> QED BY <1>1, <1>3, <3>1, <4>1 DEF New1
    <3>4. e.addr \in 0 .. MAX_PROGRAM - 1
      BY <1>1, <1>3, <3>1, <3>3, ImageSize
    <3>5. image'[e.addr] = e
      BY <1>1, <3>1, <3>3, <3>4
    <3> QED BY <1>2, <3>1, <3>3, <3>5 DEF FileOf
  <2>2. CASE e \in ToSet(w)
    <3>1. PICK a \in New1 : e = NewWord(a, r)
      BY <1>5, <2>2
    <3>2. e.addr = a /\ image'[a] = e /\ a < offset'
      BY <1>1, <1>3, <1>6, <3>1 DEF New1
    <3>3. e.file = Top.rec /\ e.line = Top.line
      BY <1>6, <3>1
    <3> QED BY <1>1, <1>2, <1>7, <3>2, <3>3 DEF FileOf
  <2> QED BY <1>4, <2>1, <2>2
<1> QED BY <1>8, <1>9 DEF ImageInv

\* The image and the words generated agree in every step.
LEMMA ImageStep ==
  ASSUME TypeInv, ImageInv, StageInv, [OutputNext]_outputVars
  PROVE  ImageInv'
<1>1. ASSUME NEW label \in BOOLEAN, NEW n \in 0 .. 2, Line(label, n)
      PROVE  ImageInv'
  BY <1>1, ImageLine
<1>2. ASSUME NEW val \in Origins, Origin(val)
      PROVE  ImageInv'
  <2>1. val >= offset /\ offset' = val /\ UNCHANGED <<shape, sf, image, emitted>>
    BY <1>2 DEF Origin
  <2>2. val \in Int /\ offset \in Int
    <3>1. offset \in -1 .. MAX_PROGRAM
      BY DEF TypeInv
    <3> QED BY <3>1, ImageSize
  <2>3. \A x \in Int : x < offset => x < offset'
    BY <2>1, <2>2
  <2>4. \A e \in ToSet(emitted) : e.addr \in Nat
    BY EmittedIs
  <2> QED BY <2>1, <2>3, <2>4 DEF ImageInv, FileOf
<1>3. ASSUME NEW f \in Files, Include(f)
      PROVE  ImageInv'
  <2>1. UNCHANGED <<shape, offset, image, emitted>> /\ (sf' = sf \/ sf' = Append(sf, f))
    BY <1>3 DEF Include
  <2>2. CASE sf' = sf
    BY <2>1, <2>2, ImageKept
  <2>3. CASE sf' = Append(sf, f)
    <3>1. sf \in Seq(Files) /\ emitted \in Seq(Word)
      BY DEF TypeInv
    <3>2. Len(sf') = Len(sf) + 1 /\ Len(sf) \in Nat /\ \A k \in 1 .. Len(sf) : sf'[k] = sf[k]
      BY <2>3, <3>1
    <3>3. ASSUME NEW e \in ToSet(emitted)
          PROVE  e.file < Len(sf') /\ FileOf(e.file)' = FileOf(e.file)
      <4>1. e.file \in Nat /\ e.file < Len(sf)
        BY EmittedIs DEF ImageInv
      <4>2. e.file + 1 \in 1 .. Len(sf) /\ e.file < Len(sf')
        BY <3>2, <4>1
      <4> QED BY <3>2, <4>2 DEF FileOf
    <3> QED BY <2>1, <3>3 DEF ImageInv
  <2> QED BY <2>1, <2>2, <2>3
<1>4. CASE Begin
  <2>1. UNCHANGED <<offset, image, emitted>> /\ stage = "open"
    BY <1>4 DEF Begin
  <2>2. ToSet(emitted) = {}
    BY <2>1 DEF StageInv, ToSet
  <2> QED BY <2>1, <2>2 DEF ImageInv
<1>5. CASE ReadArgs \/ OpenFails \/ Skip \/ EndOfFile \/ GiveUp \/ EndPasses \/ Exit
             \/ (\E opens \in BOOLEAN, lost \in SUBSET Files : WriteOutput(opens, lost))
             \/ UNCHANGED outputVars
  <2>1. UNCHANGED <<shape, sf, offset, image, emitted>>
    BY <1>5 DEF ReadArgs, OpenFails, Skip, EndOfFile, GiveUp, EndPasses, Exit, WriteOutput,
                outputVars
  <2> QED BY <2>1, ImageKept
<1> QED BY <1>1, <1>2, <1>3, <1>4, <1>5 DEF OutputNext

\* One more line in the raw listing.
LEMMA RawAdd ==
  ASSUME NEW s \in Seq(RawLine), NEW x \in RawLine
  PROVE  /\ Append(s, x) \in Seq(RawLine)
         /\ RawWords(Append(s, x)) = IF x.kind = "word" THEN Append(RawWords(s), Raw(x))
                                     ELSE RawWords(s)
<1> DEFINE shown == Keep(s, RawWord)
           more == Keep(Append(s, x), RawWord)
<1>1. Append(s, x) \in Seq(RawLine) /\ shown \in Seq(RawLine)
  BY KeepIn
<1>2. more = IF x \in RawWord THEN Append(shown, x) ELSE shown
  BY KeepMore
<1>3. x \in RawWord <=> x.kind = "word"
  BY DEF RawWord, RawLine
<1>4. RawWords(s) = [k \in DOMAIN shown |-> Raw(shown[k])]
        /\ RawWords(Append(s, x)) = [k \in DOMAIN more |-> Raw(more[k])]
  BY DEF RawWords
<1> HIDE DEF shown, more
<1>5. CASE x.kind = "word"
  <2> DEFINE l == Len(shown)
             a == [k \in 1 .. l |-> Raw(shown[k])]
  <2>1. l \in Nat /\ DOMAIN shown = 1 .. l /\ more = Append(shown, x)
    BY <1>1, <1>2, <1>3, <1>5
  <2>2. DOMAIN more = 1 .. (l + 1) /\ more[l + 1] = x /\ \A k \in 1 .. l : more[k] = shown[k]
    BY <1>1, <2>1
  <2>3. Append(a, Raw(x)) = [k \in 1 .. (l + 1) |-> IF k = l + 1 THEN Raw(x) ELSE a[k]]
    <3>1. Len(a) = l /\ a = [k \in 1 .. l |-> Raw(shown[k])]
      BY <2>1
    <3> HIDE DEF a
    <3> QED BY <2>1, <3>1
  <2>4. \A k \in 1 .. (l + 1) : Raw(more[k]) = IF k = l + 1 THEN Raw(x) ELSE a[k]
    BY <2>1, <2>2
  <2>5. [k \in 1 .. (l + 1) |-> Raw(more[k])]
          = [k \in 1 .. (l + 1) |-> IF k = l + 1 THEN Raw(x) ELSE a[k]]
    <3> HIDE DEF a
    <3> QED BY <2>4
  <2>6. RawWords(s) = a /\ RawWords(Append(s, x)) = [k \in 1 .. (l + 1) |-> Raw(more[k])]
    BY <1>4, <2>1, <2>2
  <2> HIDE DEF a
  <2> QED BY <1>1, <1>5, <2>3, <2>5, <2>6
<1>6. CASE x.kind # "word"
  BY <1>1, <1>2, <1>3, <1>4, <1>6
<1> QED BY <1>5, <1>6

\* The lines of the raw listing for a line of the source.
RawLabel(label) == IF label THEN <<ListLine("label", Ready, 0)>> ELSE <<>>
RawLines(n) ==
  [k \in 1 .. n |-> ListLine("word", Ready + k - 1, Len(emitted) + 1 + (Ready + k - 1) - Ready)]

\* A line of the raw listing for a word shows it.
LEMMA ListLineIs ==
  ASSUME TypeInv, open # <<>>, NEW kind \in {"label", "word"}, NEW a \in Nat, NEW c \in Nat
  PROVE  /\ ListLine(kind, a, c) \in RawLine /\ ListLine(kind, a, c).kind = kind
         /\ Raw(ListLine(kind, a, c)) = Entry(Top.rec, Top.line, a, c)
<1>1. Top.rec \in Nat /\ Top.line \in Nat \ {0}
  <2>1. Top.rec \in 0 .. Len(sf) - 1 /\ Top.line \in Nat \ {0}
    BY TopIs
  <2> QED BY <2>1
<1> QED BY <1>1 DEF ListLine, RawLine, Raw

\* Two elements at the end of a sequence.
LEMMA TwoMore ==
  ASSUME NEW S, NEW s \in Seq(S), NEW a \in S, NEW b \in S
  PROVE  s \o <<a, b>> = Append(Append(s, a), b)
OBVIOUS

\* The raw listing shows the words of a line.
LEMMA RawLineStep ==
  ASSUME TypeInv, RawInv, New("l"), NEW label \in BOOLEAN, NEW n \in 0 .. 2, Line(label, n),
         disk'["l"].data = disk["l"].data \o RawLabel(label) \o RawLines(n)
  PROVE  disk'["l"].data \in Seq(RawLine) /\ RawWords(disk'["l"].data) = emitted'
<1> DEFINE s == disk["l"].data
           r == Ready
           z == Len(emitted) + 1
           x == ListLine("label", r, 0)
           y == ListLine("word", r, z)
           u == ListLine("word", r + 1, z + 1)
           t == s \o RawLabel(label)
<1>1. s \in Seq(RawLine) /\ RawWords(s) = emitted /\ emitted \in Seq(Word)
  BY DEF RawInv, TypeInv
<1>2. open # <<>> /\ r \in Nat /\ emitted' = emitted \o NewWords(n, r)
  <2>1. open # <<>> /\ Ready \in 0 .. MAX_PROGRAM - 1 /\ emitted' = emitted \o NewWords(n, Ready)
    BY LineIs
  <2> QED BY <2>1
<1>3. z \in Nat /\ z + 1 \in Nat /\ r + 1 \in Nat
  BY <1>1, <1>2
<1>4. x \in RawLine /\ x.kind = "label"
  BY <1>2, ListLineIs
<1>5. y \in RawLine /\ y.kind = "word" /\ Raw(y) = NewWord(r, r)
  <2>1. Raw(y) = Entry(Top.rec, Top.line, r, z)
    BY <1>2, <1>3, ListLineIs
  <2>2. z + r - r = z
    BY <1>2, <1>3
  <2> QED BY <1>2, <1>3, <2>1, <2>2, ListLineIs DEF NewWord
<1>6. u \in RawLine /\ u.kind = "word" /\ Raw(u) = NewWord(r + 1, r)
  <2>1. Raw(u) = Entry(Top.rec, Top.line, r + 1, z + 1)
    BY <1>2, <1>3, ListLineIs
  <2>2. z + (r + 1) - r = z + 1
    BY <1>2, <1>3
  <2> QED BY <1>2, <1>3, <2>1, <2>2, ListLineIs DEF NewWord
<1>7. t \in Seq(RawLine) /\ RawWords(t) = emitted
  <2>1. CASE label
    <3>1. t = Append(s, x)
      <4>1. t = s \o <<x>>
        BY <2>1 DEF RawLabel
      <4> HIDE DEF s, x
      <4> QED BY <1>1, <4>1
    <3> HIDE DEF s, x
    <3> QED BY <1>1, <1>4, <3>1, RawAdd
  <2>2. CASE ~label
    <3>1. t = s
      <4>1. t = s \o <<>>
        BY <2>2 DEF RawLabel
      <4> HIDE DEF s
      <4> QED BY <1>1, <4>1
    <3> QED BY <1>1, <3>1
  <2> QED BY <2>1, <2>2
<1>8. disk'["l"].data = t \o RawLines(n)
  OBVIOUS
<1>9. CASE n = 0
  <2>1. RawLines(n) = <<>> /\ NewWords(n, r) = <<>>
    BY <1>9 DEF RawLines, NewWords
  <2> HIDE DEF t, r
  <2> QED BY <1>1, <1>2, <1>7, <1>8, <2>1
<1>10. CASE n = 1
  <2>1. RawLines(n) = <<y>> /\ NewWords(n, r) = <<NewWord(r, r)>>
    <3>1. r + 1 - 1 = r /\ Len(emitted) + 1 + (r + 1 - 1) - r = z
      BY <1>2, <1>3
    <3>2. RawLines(n) = [k \in 1 .. 1 |-> y]
      <4> HIDE DEF r, z
      <4>1. \A k \in 1 .. 1 : k = 1
        OBVIOUS
      <4> QED BY <1>10, <3>1, <4>1 DEF RawLines, r, z
    <3>3. NewWords(n, r) = [k \in 1 .. 1 |-> NewWord(r, r)]
      <4>1. \A k \in 1 .. 1 : k = 1
        OBVIOUS
      <4> HIDE DEF r
      <4> QED BY <1>10, <3>1, <4>1 DEF NewWords
    <3> HIDE DEF r, y
    <3> QED BY <3>2, <3>3
  <2> HIDE DEF t, r, y
  <2>2. disk'["l"].data = Append(t, y) /\ emitted' = Append(emitted, NewWord(r, r))
    BY <1>1, <1>2, <1>7, <1>8, <2>1
  <2> QED BY <1>5, <1>7, <2>2, RawAdd
<1>11. CASE n = 2
  <2>1. RawLines(n) = <<y, u>> /\ NewWords(n, r) = <<NewWord(r, r), NewWord(r + 1, r)>>
    <3>1. /\ r + 1 - 1 = r /\ Len(emitted) + 1 + (r + 1 - 1) - r = z
          /\ r + 2 - 1 = r + 1 /\ Len(emitted) + 1 + (r + 2 - 1) - r = z + 1
      BY <1>2, <1>3
    <3>2. RawLines(n) = [k \in 1 .. 2 |-> IF k = 1 THEN y ELSE u]
      <4>1. \A k \in 1 .. 2 : k = 1 \/ k = 2
        OBVIOUS
      <4> HIDE DEF r, z
      <4> QED BY <1>11, <3>1, <4>1 DEF RawLines, r, z
    <3>3. NewWords(n, r) = [k \in 1 .. 2 |-> IF k = 1 THEN NewWord(r, r) ELSE NewWord(r + 1, r)]
      <4>1. \A k \in 1 .. 2 : k = 1 \/ k = 2
        OBVIOUS
      <4> HIDE DEF r
      <4> QED BY <1>11, <3>1, <4>1 DEF NewWords
    <3> HIDE DEF r, y, u
    <3> QED BY <3>2, <3>3
  <2> HIDE DEF t, r, y, u
  <2>2. /\ t \o <<y, u>> = Append(Append(t, y), u)
        /\ emitted' = Append(Append(emitted, NewWord(r, r)), NewWord(r + 1, r))
    <3>2. NewWord(r, r) \in Word /\ NewWord(r + 1, r) \in Word
      <4>1. \A a \in Ready .. Ready + n - 1 : NewWord(a, Ready) \in Word
        BY LineIs
      <4>2. r \in r .. r + n - 1 /\ r + 1 \in r .. r + n - 1
        BY <1>2, <1>11
      <4> QED BY <4>1, <4>2 DEF r
    <3>3. t \o <<y, u>> = Append(Append(t, y), u)
      BY <1>5, <1>6, <1>7, TwoMore
    <3>4. emitted' = emitted \o <<NewWord(r, r), NewWord(r + 1, r)>>
      BY <1>2, <2>1
    <3> QED BY <1>1, <3>2, <3>3, <3>4, TwoMore
  <2>3. Append(t, y) \in Seq(RawLine) /\ RawWords(Append(t, y)) = Append(emitted, NewWord(r, r))
    BY <1>5, <1>7, RawAdd
  <2>4. /\ Append(Append(t, y), u) \in Seq(RawLine)
        /\ RawWords(Append(Append(t, y), u)) = Append(RawWords(Append(t, y)), Raw(u))
    BY <1>6, <2>3, RawAdd
  <2> QED BY <1>6, <1>8, <2>1, <2>2, <2>3, <2>4
<1> QED BY <1>9, <1>10, <1>11

\* Which outputs are images.
LEMMA OutputNames ==
  /\ ToSet(Images) = {"c", "m", "d", "L", "b", "B"} /\ Images \in Seq(ToSet(Images))
  /\ Outputs = ToSet(Images) \cup {"l"} /\ "l" \notin ToSet(Images)
<1>1. DOMAIN Images = 1 .. 6
  BY DEF Images
<1>2. ToSet(Images) = {Images[i] : i \in 1 .. 6}
  BY <1>1 DEF ToSet
<1>3. /\ Images[1] = "c" /\ Images[2] = "m" /\ Images[3] = "d" /\ Images[4] = "L"
      /\ Images[5] = "b" /\ Images[6] = "B"
  BY DEF Images
<1>4. ToSet(Images) = {"c", "m", "d", "L", "b", "B"}
  <2>1. \A i \in 1 .. 6 : i = 1 \/ i = 2 \/ i = 3 \/ i = 4 \/ i = 5 \/ i = 6
    OBVIOUS
  <2> QED BY <1>2, <1>3, <2>1
<1>5. Images \in Seq(ToSet(Images))
  BY <1>4 DEF Images
<1> QED BY <1>4, <1>5 DEF Outputs

\* What a listing has of a line stays as long as what it is made of does.
LEMMA ListKept ==
  ASSUME UNCHANGED <<shape, sf, offset, image>>, NEW rec
  PROVE  ListFile(rec)' = ListFile(rec)
<1>1. \A r, a, l : From(r, a, l)' <=> From(r, a, l)
  BY DEF From, GetInfoFromAddr
<1>2. FileOf(rec)' = FileOf(rec)
  BY DEF FileOf
<1>3. ASSUME NEW l PROVE ListOf(rec, l)' = ListOf(rec, l)
  <2>1. {a \in 0 .. offset - 1 : From(rec, a, l)}' = {a \in 0 .. offset - 1 : From(rec, a, l)}
    BY <1>1
  <2> DEFINE shown == Keep([a \in 1 .. offset |-> a - 1], {a \in 0 .. offset - 1 : From(rec, a, l)})
  <2>2. shown' = shown
    BY <2>1
  <2> HIDE DEF shown
  <2> QED BY <1>2, <2>2 DEF ListOf, shown
<1> QED BY <1>2, <1>3 DEF ListFile

\* So does what every output holds.
LEMMA DataKept ==
  ASSUME UNCHANGED <<shape, sf, offset, image, labelList>>, NEW o, NEW lost
  PROVE  Data(o, lost)' = Data(o, lost)
<1>1. Codes' = Codes /\ DebugFile' = DebugFile
  BY DEF Codes, DebugFile, Header
<1>2. Listing(lost)' = Listing(lost)
  BY ListKept DEF Listing
<1> QED BY <1>1, <1>2 DEF Data

\* The raw listing and the words generated agree in every step.
LEMMA RawStep ==
  ASSUME TypeInv, RawInv, StageInv, [OutputNext]_outputVars
  PROVE  RawInv'
<1>1. ASSUME NEW label \in BOOLEAN, NEW n \in 0 .. 2, Line(label, n)
      PROVE  RawInv'
  <2>1. CASE "l" \in options
    <3>1. New("l")
      BY <1>1, <2>1 DEF Line, AtLine, StageInv
    <3> DEFINE d == disk["l"].data \o RawLabel(label) \o RawLines(n)
    <3>2. disk' = [disk EXCEPT !["l"].data = d]
      BY <1>1, <2>1 DEF Line, RawLabel, RawLines
    <3>3. disk'["l"].data = d
      <4>1. disk = [p \in Outputs |-> [new |-> New(p), data |-> disk[p].data]] /\ "l" \in Outputs
        BY DEF TypeInv, Outputs
      <4>2. disk["l"] = [new |-> New("l"), data |-> disk["l"].data] /\ "l" \in DOMAIN disk
        BY <4>1
      <4> HIDE DEF d
      <4> QED BY <3>2, <4>2
    <3>4. disk'["l"].data \in Seq(RawLine) /\ RawWords(disk'["l"].data) = emitted'
      BY <1>1, <3>1, <3>3, RawLineStep
    <3> QED BY <3>4 DEF RawInv
  <2>2. CASE "l" \notin options
    <3>1. disk' = disk /\ ~New("l")
      BY <1>1, <2>2 DEF Line, StageInv
    <3> QED BY <3>1 DEF RawInv, New
  <2> QED BY <2>1, <2>2
<1>2. CASE Begin
  <2>1. emitted' = <<>> /\ ~New("l")
    BY <1>2 DEF Begin, StageInv, Outputs
  <2>2. CASE "l" \in options
    <3>1. disk' = Wrote("l", <<>>) /\ "l" \in Outputs
      BY <1>2, <2>2 DEF Begin, Outputs
    <3>2. disk'["l"].data = <<>>
      BY <3>1, WroteType
    <3>3. RawWords(<<>>) = <<>>
      BY KeepNone DEF RawWords
    <3> QED BY <2>1, <3>2, <3>3 DEF RawInv
  <2>3. CASE "l" \notin options
    <3>1. disk' = disk
      BY <1>2, <2>3 DEF Begin
    <3> QED BY <2>1, <3>1 DEF RawInv, New
  <2> QED BY <2>2, <2>3
<1>3. ASSUME NEW opens \in BOOLEAN, NEW lost \in SUBSET Files, WriteOutput(opens, lost)
      PROVE  RawInv'
  <2>1. emitted' = emitted
    BY <1>3 DEF WriteOutput
  <2>2. CASE opens
    <3> DEFINE o == Head(todo)
    <3>1. o \in ToSet(Images)
      <4>1. todo \in Seq(ToSet(Images)) /\ todo # <<>>
        BY <1>3 DEF WriteOutput, TypeInv
      <4> QED BY <4>1
    <3>2. o \in Outputs /\ "l" \in Outputs \ {o}
      BY <3>1, OutputNames
    <3>3. disk' = Wrote(o, Data(o, lost))
      BY <1>3, <2>2 DEF WriteOutput
    <3> HIDE DEF o
    <3>4. New("l")' = New("l") /\ disk'["l"].data = disk["l"].data
      BY <3>2, <3>3, WroteType
    <3> QED BY <2>1, <3>4 DEF RawInv
  <2>3. CASE ~opens
    BY <1>3, <2>1, <2>3 DEF WriteOutput, RawInv, New
  <2> QED BY <2>2, <2>3
<1>4. CASE ReadArgs \/ OpenFails \/ Skip \/ EndOfFile \/ GiveUp \/ EndPasses \/ Exit
             \/ (\E val \in Origins : Origin(val)) \/ (\E f \in Files : Include(f))
             \/ UNCHANGED outputVars
  <2>1. disk' = disk /\ emitted' = emitted
    BY <1>4 DEF ReadArgs, OpenFails, Skip, EndOfFile, GiveUp, EndPasses, Exit, Origin, Include,
                outputVars
  <2> QED BY <2>1 DEF RawInv, New
<1> QED BY <1>1, <1>2, <1>3, <1>4 DEF OutputNext

\* What is written is what the passes left.
Faithful(o) ==
  /\ o \in options /\ "pass" \notin errors /\ offset > 0
  /\ \E lost \in SUBSET Files : disk[o].data = Data(o, lost)

LEMMA FaithfulKept ==
  ASSUME NEW o, Faithful(o), disk'[o].data = disk[o].data, "pass" \notin errors',
         UNCHANGED <<options, shape, sf, offset, image, labelList>>
  PROVE  Faithful(o)'
BY DataKept DEF Faithful

\* In a stage before the outputs are written none is.
LEMMA NoneNew ==
  ASSUME TypeInv, StageInv, stage \in {"args", "open", "asm"}
  PROVE  (\A o \in ToSet(Images) : ~New(o)) /\ todo = <<>>
BY OutputNames DEF StageInv

\* Nothing of an empty sequence.
LEMMA NoElements == ToSet(<<>>) = {}
BY DEF ToSet

\* The stages before the outputs.
LEMMA StageReads ==
  ASSUME TypeInv, StageInv, ReadArgs \/ OpenFails \/ Begin
  PROVE  StageInv'
<1>1. stage \in {"args", "open"} /\ (\A o \in Outputs : ~New(o)) /\ todo = <<>> /\ emitted = <<>>
        /\ todo' = todo /\ emitted' = emitted
  <2>1. stage \in {"args", "open"} /\ todo' = todo /\ emitted' = emitted
    BY DEF ReadArgs, OpenFails, Begin
  <2> QED BY <2>1, NoneNew DEF StageInv
<1>2. "l" \in Outputs /\ ToSet(Images) \subseteq Outputs /\ options \subseteq Outputs
  BY OutputNames DEF TypeInv
<1>3. ToSet(todo) = {}
  BY <1>1, NoElements
<1>4. status # "success"
  BY <1>1 DEF StageInv
<1>5. CASE ReadArgs \/ OpenFails
  <2>1. /\ stage' \in {"open", "exit"} /\ status' # "success" /\ disk' = disk
    BY <1>4, <1>5 DEF ReadArgs, OpenFails, Fail
  <2>2. \A o \in Outputs : ~New(o)'
    BY <1>1, <2>1 DEF New
  <2> QED BY <1>1, <1>2, <1>3, <2>1, <2>2 DEF StageInv
<1>6. CASE Begin
  <2>1. stage' = "asm" /\ status' = status /\ options' = options
    BY <1>6 DEF Begin
  <2>2. (\A o \in ToSet(Images) : ~New(o)') /\ (New("l")' <=> "l" \in options)
    <3>1. CASE "l" \in options
      <4>1. disk' = Wrote("l", <<>>)
        BY <1>6, <3>1 DEF Begin
      <4>2. New("l")' /\ \A p \in Outputs \ {"l"} : New(p)' = New(p)
        BY <1>2, <4>1, WroteType
      <4> QED BY <1>1, <3>1, <4>2, OutputNames
    <3>2. CASE "l" \notin options
      <4>1. disk' = disk
        BY <1>6, <3>2 DEF Begin
      <4> QED BY <1>1, <1>2, <3>2, <4>1 DEF New
    <3> QED BY <3>1, <3>2
  <2> QED BY <1>1, <1>2, <1>3, <1>4, <2>1, <2>2 DEF StageInv
<1> QED BY <1>5, <1>6

\* The passes.
LEMMA StagePasses ==
  ASSUME TypeInv, StageInv,
         \/ \E label \in BOOLEAN, n \in 0 .. 2 : Line(label, n)
         \/ Skip \/ EndOfFile \/ GiveUp
         \/ \E val \in Origins : Origin(val)
         \/ \E f \in Files : Include(f)
  PROVE  StageInv'
<1>1. stage = "asm" /\ UNCHANGED <<stage, options, todo, status>>
  BY DEF Line, Skip, EndOfFile, GiveUp, Origin, Include, AtLine
<1>2. (\A o \in ToSet(Images) : ~New(o)) /\ todo = <<>>
  BY <1>1, NoneNew
<1>3. ToSet(todo) = {} /\ status # "success"
  BY <1>1, <1>2, NoElements DEF StageInv
<1>4. \A o \in Outputs : New(o)' = New(o)
  <2>1. CASE \E label \in BOOLEAN, n \in 0 .. 2 : Line(label, n)
    <3>1. PICK label \in BOOLEAN, n \in 0 .. 2 : Line(label, n)
      BY <2>1
    <3>2. CASE "l" \in options
      <4>1. PICK d : disk' = [disk EXCEPT !["l"].data = d]
        BY <3>1, <3>2 DEF Line
      <4>2. disk = [p \in Outputs |-> [new |-> New(p), data |-> disk[p].data]] /\ "l" \in Outputs
        BY DEF TypeInv, Outputs
      <4>3. disk["l"] = [new |-> New("l"), data |-> disk["l"].data] /\ "l" \in DOMAIN disk
        BY <4>2
      <4>4. disk'["l"] = [new |-> New("l"), data |-> d]
        BY <4>1, <4>3
      <4>5. \A o \in Outputs \ {"l"} : disk'[o] = disk[o]
        BY <4>1
      <4> QED BY <4>4, <4>5 DEF New
    <3>3. CASE "l" \notin options
      BY <3>1, <3>3 DEF Line, New
    <3> QED BY <3>2, <3>3
  <2>2. CASE Skip \/ EndOfFile \/ GiveUp \/ (\E val \in Origins : Origin(val))
               \/ (\E f \in Files : Include(f))
    <3>1. disk' = disk
      BY <2>2 DEF Skip, EndOfFile, GiveUp, Origin, Include
    <3> QED BY <3>1 DEF New
  <2> QED BY <2>1, <2>2
<1>5. New("l")' = New("l") /\ \A o \in ToSet(Images) : ~New(o)'
  BY <1>2, <1>4, OutputNames
<1>6. ("l" \in options => New("l")) /\ (New("l") => "l" \in options)
  BY <1>1 DEF StageInv
<1> QED BY <1>1, <1>2, <1>3, <1>5, <1>6 DEF StageInv

\* The end of the passes.
LEMMA StageEnds ==
  ASSUME TypeInv, StageInv, EndPasses
  PROVE  StageInv'
<1>1. stage = "asm" /\ stage' = "write" /\ todo' = Wanted
        /\ UNCHANGED <<options, offset, errors, disk, status>>
  BY DEF EndPasses
<1>2. \A o \in ToSet(Images) : ~New(o)
  BY <1>1, NoneNew
<1>3. ("l" \in options => New("l")) /\ (New("l") => "l" \in options) /\ status # "success"
  BY <1>1 DEF StageInv
<1>4. \A o \in Outputs : New(o)' = New(o)
  BY <1>1 DEF New
<1>5. New("l")' = New("l") /\ \A o \in ToSet(Images) : ~New(o)'
  BY <1>2, <1>4, OutputNames
<1> DEFINE kept == Keep(Images, options)
<1>6. /\ \A i \in DOMAIN kept : kept[i] \in options
      /\ \A k \in 1 .. Len(Images) :
           Images[k] \in options => \E i \in DOMAIN kept : kept[i] = Images[k]
  BY OutputNames, KeepIn
<1>7. ToSet(kept) \subseteq options /\ ToSet(Images) \cap options \subseteq ToSet(kept)
  <2>1. DOMAIN Images = 1 .. Len(Images)
    BY OutputNames
  <2> HIDE DEF kept
  <2>2. \A o \in ToSet(Images) : \E k \in 1 .. Len(Images) : o = Images[k]
    BY <2>1 DEF ToSet
  <2> QED BY <1>6, <2>2 DEF ToSet
<1>8. options \ {"l"} \subseteq ToSet(Images)
  BY OutputNames DEF TypeInv
<1> HIDE DEF kept
<1>9. todo' = IF errors # {} \/ offset <= 0 THEN <<>> ELSE kept
  BY <1>1 DEF Wanted, kept
<1>10. offset \in Int
  BY DEF TypeInv
<1>11. todo' # <<>> => "pass" \notin errors /\ offset > 0
  BY <1>9, <1>10
<1>12. ToSet(todo') \subseteq options
  BY <1>7, <1>9, NoElements
<1>13. errors = {} /\ offset > 0 => todo' = kept
  BY <1>9, <1>10
<1>14. errors = {} /\ offset > 0 => \A o \in options \ {"l"} : o \in ToSet(todo')
  BY <1>7, <1>8, <1>13
<1> QED BY <1>1, <1>3, <1>5, <1>11, <1>12, <1>14 DEF StageInv

\* Writing the outputs.
LEMMA StageWrites ==
  ASSUME TypeInv, StageInv, NEW opens \in BOOLEAN, NEW lost \in SUBSET Files,
         WriteOutput(opens, lost)
  PROVE  StageInv'
<1> SUFFICES ASSUME NEW o, o = Head(todo) PROVE StageInv'
  OBVIOUS
<1>1. stage = "write" /\ todo # <<>> /\ todo' = Tail(todo)
        /\ UNCHANGED <<options, stage, shape, sf, offset, image, labelList, status, emitted>>
  BY DEF WriteOutput
<1>2. todo \in Seq(ToSet(Images)) /\ o \in ToSet(todo) /\ o \in ToSet(Images)
        /\ ToSet(todo) \subseteq ToSet(Tail(todo)) \cup {o}
        /\ ToSet(Tail(todo)) \subseteq ToSet(todo)
  <2>1. todo \in Seq(ToSet(Images))
    BY DEF TypeInv
  <2> DEFINE l == Len(todo)
             t == Tail(todo)
  <2>2. /\ l \in Nat \ {0} /\ DOMAIN todo = 1 .. l /\ DOMAIN t = 1 .. (l - 1) /\ o = todo[1]
        /\ \A i \in 1 .. (l - 1) : t[i] = todo[i + 1]
    BY <1>1, <2>1
  <2> HIDE DEF l, t
  <2>3. 1 \in 1 .. l /\ \A i \in 1 .. (l - 1) : i + 1 \in 1 .. l
    BY <2>2
  <2>4. ASSUME NEW i \in 1 .. l PROVE i = 1 \/ (i - 1 \in 1 .. (l - 1) /\ t[i - 1] = todo[i])
    <3>1. i - 1 + 1 = i /\ (i = 1 \/ i - 1 \in 1 .. (l - 1))
      BY <2>2
    <3> QED BY <2>2, <3>1
  <2>5. o \in ToSet(todo) /\ o \in ToSet(Images)
    BY <2>1, <2>2, <2>3 DEF ToSet
  <2>6. ASSUME NEW x \in ToSet(todo) PROVE x \in ToSet(t) \cup {o}
    <3>1. PICK i \in 1 .. l : x = todo[i]
      BY <2>2 DEF ToSet
    <3>2. CASE i = 1
      BY <2>2, <3>1, <3>2
    <3>3. CASE i # 1
      BY <2>2, <2>4, <3>1, <3>3 DEF ToSet
    <3> QED BY <3>2, <3>3
  <2>7. ToSet(t) \subseteq ToSet(todo)
    BY <2>2, <2>3 DEF ToSet
  <2> QED BY <2>1, <2>5, <2>6, <2>7 DEF t
<1>3. "pass" \notin errors /\ offset > 0 /\ o \in options /\ status # "success"
        /\ ("l" \in options => New("l")) /\ (New("l") => "l" \in options)
  <2>1. "pass" \notin errors /\ offset > 0 /\ ToSet(todo) \subseteq options /\ status # "success"
          /\ ("l" \in options => New("l")) /\ (New("l") => "l" \in options)
    BY <1>1 DEF StageInv
  <2> QED BY <1>2, <2>1
<1>4. "pass" \notin errors'
  BY <1>3 DEF WriteOutput
<1>5. o \in Outputs /\ "l" # o
  BY <1>2, OutputNames
<1> DEFINE data == Data(o, lost)
<1> HIDE DEF data
<1>6. (opens /\ disk' = Wrote(o, data) /\ errors' = errors)
        \/ (~opens /\ disk' = disk /\ errors' = errors \cup {"output"})
  BY DEF WriteOutput, data
<1>6a. ASSUME NEW p \in Outputs \ {o}
       PROVE  New(p)' = New(p) /\ disk'[p].data = disk[p].data
  <2>1. CASE disk' = Wrote(o, data)
    BY <1>5, <2>1, WroteType
  <2>2. CASE disk' = disk
    BY <2>2 DEF New
  <2> QED BY <1>6, <2>1, <2>2
<1>6b. ASSUME opens PROVE New(o)' /\ disk'[o].data = data /\ errors' = errors
  <2>1. disk' = Wrote(o, data) /\ errors' = errors
    BY <1>6, <1>6b
  <2> QED BY <1>5, <2>1, WroteType
<1>6c. ASSUME ~opens
       PROVE  New(o)' = New(o) /\ disk'[o].data = disk[o].data /\ errors' # {}
  <2>1. disk' = disk /\ errors' = errors \cup {"output"}
    BY <1>6, <1>6c
  <2> QED BY <2>1 DEF New
<1>7. \A p \in ToSet(Images) : New(p) => Faithful(p)
  BY DEF StageInv, Faithful
<1>8. ASSUME NEW p \in ToSet(Images), New(p)'
      PROVE  Faithful(p)'
  <2>1. CASE p = o /\ opens
    <3>1. disk'[p].data = data
      BY <1>6b, <2>1
    <3>2. data = Data(o, lost)'
      BY <1>1, DataKept DEF data
    <3>3. disk'[p].data = Data(p, lost)'
      BY <2>1, <3>1, <3>2
    <3>4. p \in options' /\ "pass" \notin errors' /\ offset' > 0
      BY <1>1, <1>3, <1>4, <2>1
    <3> QED BY <3>3, <3>4 DEF Faithful
  <2>2. CASE ~ (p = o /\ opens)
    <3>1. New(p)' = New(p) /\ disk'[p].data = disk[p].data
      <4>1. CASE p = o
        BY <1>6c, <2>2, <4>1
      <4>2. CASE p # o
        BY <1>6a, <4>2, OutputNames
      <4> QED BY <4>1, <4>2
    <3>2. Faithful(p)
      BY <1>7, <1>8, <3>1
    <3> QED BY <1>1, <1>4, <3>1, <3>2, FaithfulKept
  <2> QED BY <2>1, <2>2
<1>9. \A p \in ToSet(Images) : New(p)' => /\ p \in options' /\ "pass" \notin errors' /\ offset' > 0
                                          /\ \E x \in SUBSET Files : disk'[p].data = Data(p, x)'
  BY <1>8 DEF Faithful
<1>10. New("l")' = New("l")
  BY <1>5, <1>6a, OutputNames
<1>11. ToSet(todo') \subseteq options
  <2>1. ToSet(todo) \subseteq options
    BY DEF StageInv
  <2> QED BY <1>1, <1>2, <2>1
<1>12. ASSUME errors' = {}, offset > 0, NEW p \in options \ {"l"}
       PROVE  New(p)' \/ p \in ToSet(todo')
  <2>1. opens
    BY <1>6c, <1>12
  <2>2. New(o)' /\ errors = {}
    BY <1>6b, <1>12, <2>1
  <2>3. New(p) \/ p \in ToSet(todo)
    BY <1>1, <1>12, <2>2 DEF StageInv
  <2>4. p \in Outputs
    BY DEF TypeInv
  <2>5. p = o \/ (New(p)' = New(p))
    BY <1>6a, <2>4
  <2> QED BY <1>1, <1>2, <2>2, <2>3, <2>5
<1> QED BY <1>1, <1>3, <1>4, <1>9, <1>10, <1>11, <1>12 DEF StageInv

\* The end.
LEMMA StageExits ==
  ASSUME TypeInv, StageInv, Exit \/ UNCHANGED outputVars
  PROVE  StageInv'
<1>1. CASE Exit
  <2>1. /\ stage = "write" /\ todo = <<>> /\ stage' = "exit"
        /\ status' = IF errors # {} \/ offset <= 0 THEN "error" ELSE "success"
        /\ UNCHANGED <<shape, options, sf, offset, image, labelList, errors, todo, disk, emitted>>
    BY <1>1 DEF Exit
  <2>2. \A o : New(o)' = New(o)
    BY <2>1 DEF New
  <2>3. \A o \in ToSet(Images) : New(o) => Faithful(o)
    BY DEF StageInv, Faithful
  <2>4. \A o \in ToSet(Images) : New(o)' => Faithful(o)'
    <3> TAKE o \in ToSet(Images)
    <3> HAVE New(o)'
    <3>1. Faithful(o) /\ "pass" \notin errors'
      BY <2>1, <2>2, <2>3 DEF Faithful
    <3> QED BY <2>1, <3>1, FaithfulKept
  <2>5. \A p \in ToSet(Images) :
          New(p)' => /\ p \in options' /\ "pass" \notin errors' /\ offset' > 0
                     /\ \E x \in SUBSET Files : disk'[p].data = Data(p, x)'
    BY <2>4 DEF Faithful
  <2>6. status' = "success" => \A o \in options : New(o)
    <3> SUFFICES ASSUME status' = "success", NEW o \in options PROVE New(o)
      OBVIOUS
    <3>1. offset \in Int
      BY DEF TypeInv
    <3>2. errors = {} /\ offset > 0
      BY <2>1, <3>1
    <3>3. o = "l" \/ New(o) \/ o \in ToSet(todo)
      BY <2>1, <3>2 DEF StageInv
    <3> QED BY <2>1, <3>3, NoElements DEF StageInv
  <2>7. ToSet(todo) \subseteq options /\ (New("l") => "l" \in options)
    BY DEF StageInv
  <2> QED BY <2>1, <2>2, <2>5, <2>6, <2>7 DEF StageInv
<1>2. CASE UNCHANGED outputVars
  <2>1. /\ UNCHANGED <<shape, options, sf, offset, image, labelList, errors, todo, disk, emitted,
                       stage, status>>
    BY <1>2 DEF outputVars
  <2>2. \A o : New(o)' = New(o)
    BY <2>1 DEF New
  <2>3. \A o \in ToSet(Images) : New(o) => Faithful(o)
    BY DEF StageInv, Faithful
  <2>4. \A o \in ToSet(Images) : New(o)' => Faithful(o)'
    <3> TAKE o \in ToSet(Images)
    <3> HAVE New(o)'
    <3>1. Faithful(o) /\ "pass" \notin errors'
      BY <2>1, <2>2, <2>3 DEF Faithful
    <3> QED BY <2>1, <3>1, FaithfulKept
  <2>5. \A p \in ToSet(Images) :
          New(p)' => /\ p \in options' /\ "pass" \notin errors' /\ offset' > 0
                     /\ \E x \in SUBSET Files : disk'[p].data = Data(p, x)'
    BY <2>4 DEF Faithful
  <2> QED BY <2>1, <2>2, <2>5 DEF StageInv
<1> QED BY <1>1, <1>2

\* The invariant.
LEMMA OutputStart == OutputInit => OutputInv
<1> SUFFICES ASSUME OutputInit PROVE OutputInv
  OBVIOUS
<1>1. TypeInv
  BY TypeStart
<1>2. \A o \in Outputs : ~New(o)
  BY DEF OutputInit, New
<1>3. ~New("l") /\ \A o \in ToSet(Images) : ~New(o)
  BY <1>2, OutputNames
<1>4. ImageInv
  BY NoElements DEF OutputInit, ImageInv
<1>5. RawInv
  BY <1>3 DEF RawInv
<1>6. StageInv
  BY <1>2, <1>3, NoElements DEF OutputInit, StageInv
<1> QED BY <1>1, <1>4, <1>5, <1>6 DEF OutputInv

LEMMA OutputStep ==
  ASSUME OutputInv, [OutputNext]_outputVars
  PROVE  OutputInv'
<1>1. TypeInv' /\ ImageInv' /\ RawInv'
  BY TypeStep, ImageStep, RawStep DEF OutputInv
<1>2. StageInv'
  BY StageReads, StagePasses, StageEnds, StageWrites, StageExits DEF OutputInv, OutputNext
<1> QED BY <1>1, <1>2 DEF OutputInv

LEMMA AlwaysOutput == OutputSpec => []OutputInv
BY OutputStart, OutputStep, PTL DEF OutputSpec

\* The word the program has at an address is the one in the image.
LEMMA WordIs ==
  ASSUME TypeInv, ImageInv, NEW a \in 0 .. MAX_PROGRAM - 1
  PROVE  WordAt(a) = image[a].code /\ image[a].code \in Nat
<1>1. WordAt(a) = image[a].code
  <2>1. CASE \E e \in ToSet(emitted) : e.addr = a
    <3> DEFINE x == CHOOSE e \in ToSet(emitted) : e.addr = a
    <3>1. x \in ToSet(emitted) /\ x.addr = a
      BY <2>1
    <3>2. WordAt(a) = x.code
      BY <2>1 DEF WordAt
    <3> HIDE DEF x
    <3>3. image[x.addr] = x
      BY <3>1 DEF ImageInv
    <3> QED BY <3>1, <3>2, <3>3
  <2>2. CASE ~ \E e \in ToSet(emitted) : e.addr = a
    <3>1. image[a] = Hole
      BY <2>2 DEF ImageInv
    <3> QED BY <2>2, <3>1 DEF WordAt, Hole, Entry
  <2> QED BY <2>1, <2>2
<1>2. image[a] \in Word \cup {Hole}
  BY DEF TypeInv
<1>3. Hole.code = 0
  BY DEF Hole, Entry
<1>4. image[a].code \in Nat
  BY <1>2, <1>3 DEF Word
<1> QED BY <1>1, <1>4

\* Sequences of four put one after the other.
Fours(ss) == \A i \in 1 .. Len(ss) : Len(ss[i]) = 4

FoursOf(d, ss) ==
  /\ Len(d) = 4 * Len(ss)
  /\ \A i \in 1 .. Len(ss), j \in 1 .. 4 : d[4 * (i - 1) + j] = ss[i][j]

LEMMA FlattenFours ==
  ASSUME NEW S, NEW ss \in Seq(Seq(S)), ss # <<>>, Fours(ss)
  PROVE  FoursOf(FlattenSeq(ss), ss)
<1> DEFINE n == Len(ss)
<1>1. n \in Nat /\ n > 0
  OBVIOUS
<1>2. PICK f : FlatsTo(f, ss, n) /\ FlattenSeq(ss) = f[n]
  BY FlattenIs
<1>3. ASSUME NEW i \in 1 .. n
      PROVE  EndAt(f, i - 1) \in Nat /\ EndAt(f, i) = EndAt(f, i - 1) + 4
  <2>1. EndAt(f, i - 1) \in Nat /\ EndAt(f, i) = EndAt(f, i - 1) + Len(ss[i])
    BY <1>2, EndMore
  <2> QED BY <2>1 DEF Fours
<1>4. \A i \in 1 .. n, j \in 1 .. 4 : f[n][EndAt(f, i - 1) + j] = ss[i][j]
  <2> TAKE i \in 1 .. n, j \in 1 .. 4
  <2>1. n \in 1 .. Len(ss)
    BY <1>1
  <2>2. j \in 1 .. Len(ss[i])
    <3>1. Len(ss[i]) = 4
      BY DEF Fours
    <3> QED BY <3>1
  <2> SUFFICES ASSUME NEW k \in 1 .. Len(ss), k = n PROVE f[k][EndAt(f, i - 1) + j] = ss[i][j]
    BY <2>1
  <2>3. FlatsTo(f, ss, Len(ss)) /\ i \in 1 .. k
    BY <1>2
  <2> HIDE DEF n
  <2> QED BY <2>2, <2>3, FlatAt
<1> HIDE DEF n
<1>5. \A m \in 0 .. n : EndAt(f, m) = 4 * m
  <2> DEFINE Bad == {m \in 0 .. n : EndAt(f, m) # 4 * m}
  <2>1. SUFFICES ASSUME Bad # {} PROVE FALSE
    OBVIOUS
  <2>2. Bad \in SUBSET Nat
    BY <1>1
  <2>3. PICK m \in Bad : \A x \in Bad : m <= x
    BY <2>1, <2>2, LeastNumber
  <2>4. m \in 0 .. n /\ EndAt(f, m) # 4 * m
    OBVIOUS
  <2>5. m # 0
    BY <2>4 DEF EndAt
  <2>6. m \in 1 .. n /\ m - 1 \in 0 .. n /\ ~ (m <= m - 1)
    BY <1>1, <2>4, <2>5
  <2>7. EndAt(f, m - 1) = 4 * (m - 1)
    BY <2>3, <2>6
  <2> QED BY <1>3, <2>4, <2>6, <2>7
<1>6. EndAt(f, n) = Len(f[n])
  BY <1>1 DEF EndAt
<1>7. Len(f[n]) = 4 * n
  BY <1>1, <1>5, <1>6
<1>8. \A i \in 1 .. n, j \in 1 .. 4 : f[n][4 * (i - 1) + j] = ss[i][j]
  <2> TAKE i \in 1 .. n, j \in 1 .. 4
  <2>1. i - 1 \in 0 .. n
    BY <1>1
  <2>2. EndAt(f, i - 1) = 4 * (i - 1)
    BY <1>5, <2>1
  <2> QED BY <1>4, <2>2
<1> QED BY <1>2, <1>7, <1>8 DEF n, FoursOf

\* The bytes of words.
Bytes == {Byte(w, k) : w \in Nat, k \in 0 .. 3}

LEMMA LittleIs ==
  ASSUME NEW w \in Nat
  PROVE  /\ Little(w) \in Seq(Bytes) /\ Len(Little(w)) = 4
         /\ Reverse(Little(w)) \in Seq(Bytes) /\ Len(Reverse(Little(w))) = 4
         /\ \A k \in 0 .. 3 :
              Little(w)[k + 1] = Byte(w, k) /\ Reverse(Little(w))[4 - k] = Byte(w, k)
<1>1. Byte(w, 0) \in Bytes /\ Byte(w, 1) \in Bytes /\ Byte(w, 2) \in Bytes /\ Byte(w, 3) \in Bytes
  BY DEF Bytes
<1>2. Little(w) \in Seq(Bytes) /\ Len(Little(w)) = 4
  <2> HIDE DEF Bytes
  <2> QED BY <1>1 DEF Little
<1>3. /\ Little(w)[1] = Byte(w, 0) /\ Little(w)[2] = Byte(w, 1)
      /\ Little(w)[3] = Byte(w, 2) /\ Little(w)[4] = Byte(w, 3)
  BY DEF Little
<1> DEFINE s == Little(w)
<1> HIDE DEF s
<1>4. Reverse(s) = [i \in 1 .. 4 |-> s[4 - i + 1]]
  BY <1>2 DEF Reverse, s
<1>5. \A i \in 1 .. 4 : 4 - i + 1 \in 1 .. 4 /\ s[4 - i + 1] \in Bytes
  <2>1. \A i \in 1 .. 4 : 4 - i + 1 \in 1 .. 4
    OBVIOUS
  <2>2. \A i \in 1 .. 4 : s[i] \in Bytes
    BY <1>2 DEF s
  <2> QED BY <2>1, <2>2
<1>6. Reverse(s) \in Seq(Bytes) /\ Len(Reverse(s)) = 4
  BY <1>4, <1>5
<1>7. \A k \in 0 .. 3 : Reverse(s)[4 - k] = s[k + 1]
  <2> TAKE k \in 0 .. 3
  <2>1. 4 - k \in 1 .. 4 /\ 4 - (4 - k) + 1 = k + 1
    OBVIOUS
  <2> QED BY <1>4, <2>1
<1>8. \A k \in 0 .. 3 : s[k + 1] = Byte(w, k)
  <2> TAKE k \in 0 .. 3
  <2>1. k = 0 \/ k = 1 \/ k = 2 \/ k = 3
    OBVIOUS
  <2> QED BY <1>3, <2>1 DEF s
<1> QED BY <1>2, <1>6, <1>7, <1>8 DEF s

\* The binary outputs.
HoldsBytes(data, o) ==
  /\ Len(data) = 4 * offset
  /\ \A a \in 0 .. offset - 1, k \in 0 .. 3 :
       data[4 * a + IF o = "b" THEN k + 1 ELSE 4 - k] = Byte(WordAt(a), k)

LEMMA BinaryIs ==
  ASSUME TypeInv, ImageInv, offset > 0, NEW o \in {"b", "B"}, NEW lost
  PROVE  HoldsBytes(Data(o, lost), o)
<1>1. offset \in Nat /\ offset <= MAX_PROGRAM /\ MAX_PROGRAM \in Nat
  BY ImageSize DEF TypeInv
<1> DEFINE Block(w) == IF o = "b" THEN Little(w) ELSE Reverse(Little(w))
           Code(k) == image[k - 1].code
           ss == [k \in 1 .. offset |-> Block(Code(k))]
<1>2. Data(o, lost) = FlattenSeq(ss)
  BY DEF Data
<1>3. \A k \in 1 .. offset : Code(k) \in Nat /\ WordAt(k - 1) = Code(k)
  <2> TAKE k \in 1 .. offset
  <2>1. k - 1 \in 0 .. MAX_PROGRAM - 1
    BY <1>1
  <2> QED BY <2>1, WordIs
<1>4. \A w \in Nat : Block(w) \in Seq(Bytes) /\ Len(Block(w)) = 4
  BY LittleIs
<1> HIDE DEF Code
<1>5. \A k \in 1 .. offset : ss[k] = Block(Code(k)) /\ ss[k] \in Seq(Bytes) /\ Len(ss[k]) = 4
  BY <1>3, <1>4
<1>6. ss \in Seq(Seq(Bytes)) /\ Len(ss) = offset /\ ss # <<>>
  <2>1. ss \in [1 .. offset -> Seq(Bytes)]
    <3> HIDE DEF Block
    <3> QED BY <1>3, <1>4
  <2> HIDE DEF ss
  <2> QED BY <1>1, <2>1
<1>7. \A w \in Nat, k \in 0 .. 3 : Block(w)[IF o = "b" THEN k + 1 ELSE 4 - k] = Byte(w, k)
  BY LittleIs
<1> HIDE DEF ss, Block
<1>8. /\ Len(FlattenSeq(ss)) = 4 * offset
      /\ \A i \in 1 .. offset, j \in 1 .. 4 : FlattenSeq(ss)[4 * (i - 1) + j] = ss[i][j]
  <2>1. Fours(ss)
    BY <1>5, <1>6 DEF Fours
  <2>2. FoursOf(FlattenSeq(ss), ss)
    BY <1>6, <2>1, FlattenFours
  <2> QED BY <1>6, <2>2 DEF FoursOf
<1>9. ASSUME NEW a \in 0 .. offset - 1, NEW k \in 0 .. 3
      PROVE  Data(o, lost)[4 * a + IF o = "b" THEN k + 1 ELSE 4 - k] = Byte(WordAt(a), k)
  <2> DEFINE j == IF o = "b" THEN k + 1 ELSE 4 - k
  <2>1. j \in 1 .. 4 /\ a + 1 \in 1 .. offset /\ a + 1 - 1 = a
    BY <1>1
  <2>2. ss[a + 1][j] = Byte(Code(a + 1), k)
    BY <1>3, <1>5, <1>7, <2>1
  <2>3. WordAt(a) = Code(a + 1)
    BY <1>3, <2>1
  <2> HIDE DEF j
  <2>4. FlattenSeq(ss)[4 * a + j] = ss[a + 1][j]
    <3>1. SUFFICES ASSUME NEW i, i = a + 1, i \in 1 .. offset, i - 1 = a
                   PROVE  FlattenSeq(ss)[4 * (i - 1) + j] = ss[i][j]
      BY <2>1
    <3> QED BY <1>8, <2>1, <3>1
  <2>5. Data(o, lost)[4 * a + j] = Byte(WordAt(a), k)
    BY <1>2, <2>2, <2>3, <2>4
  <2> QED BY <2>5 DEF j
<1> QED BY <1>2, <1>8, <1>9 DEF HoldsBytes

\* Outputs are written only when the passes found no error, and each of them
\* holds every word.
LEMMA OutputsRead ==
  ASSUME TypeInv, ImageInv, NEW o \in {"c", "m", "b", "B"}, Faithful(o)
  PROVE  ReadsBack(o)
<1>1. offset > 0 /\ \E lost \in SUBSET Files : disk[o].data = Data(o, lost)
  BY DEF Faithful
<1>2. PICK lost \in SUBSET Files : disk[o].data = Data(o, lost)
  BY <1>1
<1>3. CASE o \in {"c", "m"}
  <2>1. offset \in Nat /\ offset <= MAX_PROGRAM /\ MAX_PROGRAM \in Nat
    BY <1>1, ImageSize DEF TypeInv
  <2>2. \A k \in 1 .. offset : image[k - 1].code = WordAt(k - 1)
    <3> TAKE k \in 1 .. offset
    <3>1. k - 1 \in 0 .. MAX_PROGRAM - 1
      BY <2>1
    <3> QED BY <3>1, WordIs
  <2>3. disk[o].data = [k \in 1 .. offset |-> image[k - 1].code]
    BY <1>2, <1>3 DEF Data, Codes
  <2>4. disk[o].data = [k \in 1 .. offset |-> WordAt(k - 1)]
    BY <2>2, <2>3
  <2> QED BY <1>3, <2>4 DEF ReadsBack
<1>4. CASE o \in {"b", "B"}
  <2> DEFINE data == Data(o, lost)
  <2>1. HoldsBytes(data, o)
    BY <1>1, <1>4, BinaryIs
  <2> HIDE DEF data
  <2>3. disk[o].data = data
    BY <1>2 DEF data
  <2>2. o \notin {"c", "m"}
    BY <1>4
  <2> QED BY <2>1, <2>2, <2>3 DEF ReadsBack, HoldsBytes
<1> QED BY <1>3, <1>4

LEMMA OutputsWhole == OutputInv => WholeOrOld
<1> SUFFICES ASSUME OutputInv, stage = "exit" PROVE WholeOrOld
  BY DEF WholeOrOld
<1>1. \A o \in ToSet(Images) : New(o) => Faithful(o)
  BY DEF OutputInv, StageInv, Faithful
<1>2. \A o \in {"c", "m", "b", "B"} : New(o) => o \in options /\ ReadsBack(o)
  <2> TAKE o \in {"c", "m", "b", "B"}
  <2> HAVE New(o)
  <2>1. o \in ToSet(Images)
    BY OutputNames
  <2>2. Faithful(o)
    BY <1>1, <2>1
  <2>3. o \in options
    BY <2>2 DEF Faithful
  <2> QED BY <2>2, <2>3, OutputsRead DEF OutputInv
<1>3. (\E o \in ToSet(Images) : New(o)) => "pass" \notin errors
  BY <1>1 DEF Faithful
<1>4. status = "success" => \A o \in options : New(o)
  BY DEF OutputInv, StageInv
<1> QED BY <1>2, <1>3, <1>4 DEF WholeOrOld

\* An output never holds a part of a program (pasm.c:388-647).
THEOREM OutputsAreWhole == OutputSpec => []WholeOrOld
BY AlwaysOutput, OutputsWhole, PTL

\* A sequence behind another.
LEMMA Behind ==
  ASSUME NEW V, NEW s \in Seq(V), NEW t \in Seq(V), NEW c, c = s \o t
  PROVE  /\ c \in Seq(V) /\ Len(c) = Len(s) + Len(t)
         /\ \A i \in 1 .. Len(s) : c[i] = s[i]
         /\ \A i \in 1 .. Len(t) : c[Len(s) + i] = t[i]
<1> DEFINE m == Len(s)
           n == Len(t)
<1>0. m \in Nat /\ n \in Nat
  OBVIOUS
<1>1. /\ c \in Seq(V) /\ Len(c) = Len(s) + Len(t)
      /\ \A i \in 1 .. Len(s) + Len(t) : c[i] = IF i <= Len(s) THEN s[i] ELSE t[i - Len(s)]
  BY ConcatProperties
<1> HIDE DEF m, n
<1>2. /\ c \in Seq(V) /\ Len(c) = m + n
      /\ \A i \in 1 .. m + n : c[i] = IF i <= m THEN s[i] ELSE t[i - m]
  BY <1>1 DEF m, n
<1>3. ASSUME NEW i \in 1 .. m PROVE c[i] = s[i]
  <2>1. i \in 1 .. m + n /\ i <= m
    BY <1>0
  <2> QED BY <1>2, <2>1
<1>4. ASSUME NEW i \in 1 .. n PROVE c[m + i] = t[i]
  <2> DEFINE k == m + i
  <2>1. k \in 1 .. m + n /\ ~ (k <= m) /\ k - m = i
    BY <1>0
  <2> HIDE DEF k
  <2>2. c[k] = t[i]
    BY <1>2, <2>1
  <2> QED BY <2>2 DEF k
<1> QED BY <1>2, <1>3, <1>4 DEF m, n

\* The units of the debug file: the header, the labels, the files, the words.
InFourParts(d, h, a, b, c) ==
  /\ Len(d) = 1 + Len(a) + Len(b) + Len(c) /\ DOMAIN d = 1 .. Len(d) /\ d[1] = h
  /\ \A i \in 1 .. Len(a) : d[1 + i] = a[i]
  /\ \A i \in 1 .. Len(b) : d[1 + Len(a) + i] = b[i]
  /\ \A i \in 1 .. Len(c) : d[1 + Len(a) + Len(b) + i] = c[i]

LEMMA UnitsAre ==
  ASSUME NEW S, NEW T, NEW U, NEW h, NEW a \in Seq(S), NEW b \in Seq(T), NEW c \in Seq(U)
  PROVE  InFourParts(<<h>> \o a \o b \o c, h, a, b, c)
<1> DEFINE V == {h} \cup S \cup T \cup U
           x == <<h>>
<1>1. a \in Seq(V) /\ b \in Seq(V) /\ c \in Seq(V)
  <2>1. S \subseteq V /\ T \subseteq V /\ U \subseteq V
    OBVIOUS
  <2> HIDE DEF V
  <2> QED BY <2>1, SeqMonotonic
<1>2. x \in Seq(V) /\ Len(x) = 1 /\ x[1] = h
  <2>1. h \in V
    OBVIOUS
  <2> HIDE DEF V
  <2> QED BY <2>1
<1> DEFINE y == x \o a
           z == y \o b
           d == z \o c
<1> DEFINE la == Len(a)
           lb == Len(b)
           lc == Len(c)
<1>3. la \in Nat /\ lb \in Nat /\ lc \in Nat
  OBVIOUS
<1> HIDE DEF V, x, la, lb, lc
<1>4. /\ y \in Seq(V) /\ Len(y) = 1 + la /\ \A i \in 1 .. 1 : y[i] = x[i]
      /\ \A i \in 1 .. la : y[1 + i] = a[i]
  <2>0. y = x \o a
    OBVIOUS
  <2> HIDE DEF y
  <2>0a. x \in Seq(V) /\ a \in Seq(V)
    BY <1>1, <1>2
  <2>1. y \in Seq(V) /\ Len(y) = Len(x) + Len(a) /\ \A i \in 1 .. Len(x) : y[i] = x[i]
    BY <2>0, <2>0a, Behind
  <2>1a. \A i \in 1 .. Len(a) : y[Len(x) + i] = a[i]
    BY <2>0, <2>0a, Behind
  <2>2. Len(x) = 1 /\ Len(a) = la
    BY <1>1, <1>2 DEF la
  <2> QED BY <2>1, <2>1a, <2>2
<1> HIDE DEF y
<1>5. /\ z \in Seq(V) /\ Len(z) = 1 + la + lb
      /\ \A i \in 1 .. 1 + la : z[i] = y[i]
      /\ \A i \in 1 .. lb : z[1 + la + i] = b[i]
  <2>0. z = y \o b
    OBVIOUS
  <2> HIDE DEF z
  <2>0a. y \in Seq(V) /\ b \in Seq(V)
    BY <1>1, <1>4
  <2>1. z \in Seq(V) /\ Len(z) = Len(y) + Len(b) /\ \A i \in 1 .. Len(y) : z[i] = y[i]
    BY <2>0, <2>0a, Behind
  <2>1a. \A i \in 1 .. Len(b) : z[Len(y) + i] = b[i]
    BY <2>0, <2>0a, Behind
  <2>2. Len(y) = 1 + la /\ Len(b) = lb
    BY <1>1, <1>4 DEF lb
  <2> QED BY <2>1, <2>1a, <2>2
<1> HIDE DEF z
<1>6. /\ d \in Seq(V) /\ Len(d) = 1 + la + lb + lc
      /\ \A i \in 1 .. 1 + la + lb : d[i] = z[i]
      /\ \A i \in 1 .. lc : d[1 + la + lb + i] = c[i]
  <2>0. d = z \o c
    OBVIOUS
  <2> HIDE DEF d
  <2>0a. z \in Seq(V) /\ c \in Seq(V)
    BY <1>1, <1>5
  <2>1. d \in Seq(V) /\ Len(d) = Len(z) + Len(c) /\ \A i \in 1 .. Len(z) : d[i] = z[i]
    BY <2>0, <2>0a, Behind
  <2>1a. \A i \in 1 .. Len(c) : d[Len(z) + i] = c[i]
    BY <2>0, <2>0a, Behind
  <2>2. Len(z) = 1 + la + lb /\ Len(c) = lc
    BY <1>1, <1>5 DEF lc
  <2> QED BY <2>1, <2>1a, <2>2
<1>6a. DOMAIN d = 1 .. Len(d)
  BY <1>6
<1> HIDE DEF d
<1>7. d[1] = h
  <2>1. 1 \in 1 .. 1 /\ 1 \in 1 .. 1 + la /\ 1 \in 1 .. 1 + la + lb
    BY <1>3
  <2> QED BY <1>2, <1>4, <1>5, <1>6, <2>1
<1>8. \A i \in 1 .. la : d[1 + i] = a[i]
  <2> TAKE i \in 1 .. la
  <2>1. 1 + i \in 1 .. 1 + la /\ 1 + i \in 1 .. 1 + la + lb
    BY <1>3
  <2> QED BY <1>2, <1>4, <1>5, <1>6, <2>1
<1>9. \A i \in 1 .. lb : d[1 + la + i] = b[i]
  <2> TAKE i \in 1 .. lb
  <2>1. 1 + la + i \in 1 .. 1 + la + lb
    BY <1>3
  <2> QED BY <1>5, <1>6, <2>1
<1>10. InFourParts(d, h, a, b, c)
  BY <1>6, <1>6a, <1>7, <1>8, <1>9 DEF la, lb, lc, InFourParts
<1> QED BY <1>10 DEF d, z, y, x

\* From m on, n times, the next number is z more.
Steps(g, m, n, z) == \A i \in 1 .. n : g[m + i] = g[m + i - 1] + z

\* Where equal units start.
LEMMA EvenSteps ==
  ASSUME NEW g, NEW m \in Nat, NEW n \in Nat, NEW z \in Nat, g[m] \in Nat, Steps(g, m, n, z)
  PROVE  \A i \in 0 .. n : g[m + i] = g[m] + z * i
<1> DEFINE Bad == {i \in 0 .. n : g[m + i] # g[m] + z * i}
<1>1. SUFFICES ASSUME Bad # {} PROVE FALSE
  OBVIOUS
<1>2. Bad \in SUBSET Nat
  OBVIOUS
<1>3. PICK i \in Bad : \A j \in Bad : i <= j
  BY <1>1, <1>2, LeastNumber
<1>4. i \in 0 .. n /\ g[m + i] # g[m] + z * i
  OBVIOUS
<1>5. z * 0 = 0 /\ m + 0 = m
  OBVIOUS
<1>6. i # 0
  BY <1>4, <1>5
<1> DEFINE j == i - 1
<1>7. i \in 1 .. n /\ j \in 0 .. n /\ ~ (i <= j) /\ m + i - 1 = m + j
  BY <1>4, <1>6
<1>8. g[m + j] = g[m] + z * j
  BY <1>3, <1>7
<1>9. z * i = z * j + z /\ z * j \in Nat /\ z * i \in Nat
  BY <1>7
<1>10. g[m + i] = g[m + j] + z
  BY <1>7 DEF Steps
<1> HIDE DEF j
<1>11. g[m + i] = (g[m] + z * j) + z
  BY <1>8, <1>10
<1> QED BY <1>4, <1>9, <1>11

\* The first elements of a sequence of numbers add up to those before and one.
LEMMA Adding ==
  ASSUME NEW n \in Nat, NEW f \in [1 .. n -> Nat]
  PROVE  /\ SumFunction([i \in 1 .. 0 |-> f[i]]) = 0
         /\ \A k \in 1 .. n : SumFunction([i \in 1 .. k |-> f[i]])
                               = SumFunction([i \in 1 .. k - 1 |-> f[i]]) + f[k]
<1>1. f \in Seq(Nat) /\ Len(f) = n
  OBVIOUS
<1>2. ASSUME NEW k \in 0 .. n PROVE SubSeq(f, 1, k) = [i \in 1 .. k |-> f[i]]
  <2> DEFINE p == SubSeq(f, 1, k)
  <2>1. 1 \in Int /\ k \in Int /\ \A i \in 1 .. k : f[i] \in Nat
    OBVIOUS
  <2> HIDE DEF p
  <2>2. p \in Seq(Nat) /\ Len(p) = IF 1 <= k THEN k - 1 + 1 ELSE 0
    BY <2>1, SubSeqProperties DEF p
  <2>3. \A i \in 1 .. k - 1 + 1 : p[i] = f[1 + i - 1]
    BY <2>1, SubSeqProperties DEF p
  <2>4. \A i \in 1 .. k : p[i] = f[i]
    BY <2>1, <2>3
  <2>5. Len(p) = k
    BY <2>1, <2>2
  <2>6. p = [i \in 1 .. k |-> f[i]]
    BY <2>2, <2>4, <2>5
  <2> QED BY <2>6 DEF p
<1>3. [i \in 1 .. 0 |-> f[i]] = <<>>
  OBVIOUS
<1>4. ASSUME NEW k \in 1 .. n
      PROVE  SumFunction([i \in 1 .. k |-> f[i]]) = SumFunction([i \in 1 .. k - 1 |-> f[i]]) + f[k]
  <2>1. k \in 1 .. Len(f) /\ k \in 0 .. n /\ k - 1 \in 0 .. n
    BY <1>1
  <2>2. SumFunction(SubSeq(f, 1, k)) = SumFunction(SubSeq(f, 1, k - 1)) + f[k]
    BY <1>1, <2>1, SumMore
  <2> QED BY <1>2, <2>1, <2>2
<1> QED BY <1>3, <1>4, SumNone

\* The debug file, unit by unit.
Labels == Len(labelList)
Sources == Len(sf)

LEMMA DebugUnits ==
  ASSUME TypeInv, offset > 0
  PROVE  /\ Labels \in Nat /\ Sources \in Nat /\ offset \in Nat
         /\ Len(DebugFile) = 1 + Labels + Sources + offset
         /\ DOMAIN DebugFile = 1 .. Len(DebugFile) /\ DebugFile[1] = Unit("header", Header)
         /\ \A i \in 1 .. Labels : DebugFile[1 + i] = Unit("label", labelList[i])
         /\ \A i \in 1 .. Sources : DebugFile[1 + Labels + i] = Unit("file", sf[i])
         /\ \A i \in 1 .. offset : DebugFile[1 + Labels + Sources + i] = Unit("code", image[i - 1])
<1>1. labelList \in Seq(Nat) /\ sf \in Seq(Files) /\ offset \in Nat
  BY DEF TypeInv
<1>2. /\ Labels \in Nat /\ DOMAIN labelList = 1 .. Labels
      /\ Sources \in Nat /\ DOMAIN sf = 1 .. Sources
  BY <1>1 DEF Labels, Sources
<1> DEFINE h == Unit("header", Header)
           a == [k \in DOMAIN labelList |-> Unit("label", labelList[k])]
           b == [k \in DOMAIN sf |-> Unit("file", sf[k])]
           c == [k \in 1 .. offset |-> Unit("code", image[k - 1])]
           S == {a[k] : k \in DOMAIN labelList}
           T == {b[k] : k \in DOMAIN sf}
           U == {c[k] : k \in 1 .. offset}
<1>3. DebugFile = <<h>> \o a \o b \o c
  BY DEF DebugFile
<1>4. a \in Seq(S) /\ Len(a) = Labels /\ \A i \in 1 .. Labels : a[i] = Unit("label", labelList[i])
  <2>1. a \in [1 .. Labels -> S]
    BY <1>2
  <2>2. \A i \in 1 .. Labels : a[i] = Unit("label", labelList[i])
    BY <1>2
  <2> HIDE DEF a, S
  <2> QED BY <1>2, <2>1, <2>2
<1>5. b \in Seq(T) /\ Len(b) = Sources /\ \A i \in 1 .. Sources : b[i] = Unit("file", sf[i])
  <2>1. b \in [1 .. Sources -> T]
    BY <1>2
  <2>2. \A i \in 1 .. Sources : b[i] = Unit("file", sf[i])
    BY <1>2
  <2> HIDE DEF b, T
  <2> QED BY <1>2, <2>1, <2>2
<1>6. c \in Seq(U) /\ Len(c) = offset /\ \A i \in 1 .. offset : c[i] = Unit("code", image[i - 1])
  <2>1. c \in [1 .. offset -> U]
    OBVIOUS
  <2>2. \A i \in 1 .. offset : c[i] = Unit("code", image[i - 1])
    OBVIOUS
  <2> HIDE DEF c, U
  <2> QED BY <1>1, <2>1, <2>2
<1> DEFINE d == <<h>> \o a \o b \o c
<1> HIDE DEF h, a, b, c, S, T, U
<1>7. /\ Len(d) = 1 + Len(a) + Len(b) + Len(c) /\ DOMAIN d = 1 .. Len(d) /\ d[1] = h
      /\ \A i \in 1 .. Len(a) : d[1 + i] = a[i]
      /\ \A i \in 1 .. Len(b) : d[1 + Len(a) + i] = b[i]
      /\ \A i \in 1 .. Len(c) : d[1 + Len(a) + Len(b) + i] = c[i]
  <2>1. a \in Seq(S) /\ b \in Seq(T) /\ c \in Seq(U)
    BY <1>4, <1>5, <1>6
  <2>2. InFourParts(d, h, a, b, c)
    BY <2>1, UnitsAre DEF d
  <2> QED BY <2>2 DEF InFourParts
<1>8. DebugFile = d
  BY <1>3
<1> HIDE DEF d
<1> QED BY <1>1, <1>2, <1>4, <1>5, <1>6, <1>7, <1>8 DEF h

\* Where the units of the debug file start.
LEMMA DebugStarts ==
  ASSUME TypeInv, offset > 0, disk["d"].data = DebugFile
  PROVE  /\ \A i \in 1 .. Labels : StartOf(1 + i) = 36 + 68 * (i - 1)
         /\ \A i \in 1 .. Sources : StartOf(1 + Labels + i) = 36 + 68 * Labels + 64 * (i - 1)
         /\ \A i \in 1 .. offset :
              StartOf(1 + Labels + Sources + i) = 36 + 68 * Labels + 64 * Sources + 16 * (i - 1)
<1> DEFINE n == 1 + Labels + Sources + offset
           f == [i \in 1 .. n |-> SizeOf[DebugFile[i].kind]]
           g == [k \in 1 .. n + 1 |-> StartOf(k)]
<1>1. Labels \in Nat /\ Sources \in Nat /\ offset \in Nat /\ n \in Nat
  BY DebugUnits
<1>2. /\ SizeOf[DebugFile[1].kind] = 36
      /\ \A i \in 1 .. Labels : SizeOf[DebugFile[1 + i].kind] = 68
      /\ \A i \in 1 .. Sources : SizeOf[DebugFile[1 + Labels + i].kind] = 64
      /\ \A i \in 1 .. offset : SizeOf[DebugFile[1 + Labels + Sources + i].kind] = 16
  <2>1. /\ DebugFile[1] = Unit("header", Header)
        /\ \A i \in 1 .. Labels : DebugFile[1 + i] = Unit("label", labelList[i])
        /\ \A i \in 1 .. Sources : DebugFile[1 + Labels + i] = Unit("file", sf[i])
        /\ \A i \in 1 .. offset : DebugFile[1 + Labels + Sources + i] = Unit("code", image[i - 1])
    BY DebugUnits
  <2>2. \A kind, what : Unit(kind, what).kind = kind
    BY DEF Unit
  <2>3. SizeOf["header"] = 36 /\ SizeOf["label"] = 68 /\ SizeOf["file"] = 64 /\ SizeOf["code"] = 16
    BY DEF SizeOf
  <2> QED BY <2>1, <2>2, <2>3
<1> HIDE DEF n
<1>3. /\ 1 \in 1 .. n /\ \A i \in 1 .. Labels : 1 + i \in 1 .. n
      /\ \A i \in 1 .. Sources : 1 + Labels + i \in 1 .. n
      /\ \A i \in 1 .. offset : 1 + Labels + Sources + i \in 1 .. n
  BY <1>1 DEF n
<1>4. /\ f[1] = 36 /\ \A i \in 1 .. Labels : f[1 + i] = 68
      /\ \A i \in 1 .. Sources : f[1 + Labels + i] = 64
      /\ \A i \in 1 .. offset : f[1 + Labels + Sources + i] = 16
  BY <1>2, <1>3
<1>5. f \in [1 .. n -> Nat]
  <2>1. ASSUME NEW i \in 1 .. n PROVE f[i] \in Nat
    <3>1. CASE i = 1
      BY <1>4, <3>1
    <3>2. CASE i \in 2 .. 1 + Labels
      <4>1. i - 1 \in 1 .. Labels /\ 1 + (i - 1) = i
        BY <1>1, <3>2
      <4> HIDE DEF f
      <4> QED BY <1>4, <4>1
    <3>3. CASE i \in 2 + Labels .. 1 + Labels + Sources
      <4>1. i - 1 - Labels \in 1 .. Sources /\ 1 + Labels + (i - 1 - Labels) = i
        BY <1>1, <3>3
      <4> HIDE DEF f
      <4> QED BY <1>4, <4>1
    <3>4. CASE i \in 2 + Labels + Sources .. n
      <4>1. /\ i - 1 - Labels - Sources \in 1 .. offset
            /\ 1 + Labels + Sources + (i - 1 - Labels - Sources) = i
        BY <1>1, <3>4 DEF n
      <4> HIDE DEF f
      <4> QED BY <1>4, <4>1
    <3>5. i = 1 \/ i \in 2 .. 1 + Labels \/ i \in 2 + Labels .. 1 + Labels + Sources
            \/ i \in 2 + Labels + Sources .. n
      BY <1>1
    <3> QED BY <3>1, <3>2, <3>3, <3>4, <3>5
  <2> HIDE DEF f
  <2>2. f = [i \in 1 .. n |-> f[i]]
    BY DEF f
  <2> QED BY <2>1, <2>2
<1>6. \A k \in 1 .. n + 1 : g[k] = SumFunction([i \in 1 .. k - 1 |-> f[i]])
  <2> TAKE k \in 1 .. n + 1
  <2>1. [i \in 1 .. k - 1 |-> SizeOf[disk["d"].data[i].kind]] = [i \in 1 .. k - 1 |-> f[i]]
    <3>1. \A i \in 1 .. k - 1 : i \in 1 .. n
      BY <1>1
    <3>2. \A i \in 1 .. k - 1 : SizeOf[disk["d"].data[i].kind] = f[i]
      BY <3>1
    <3> HIDE DEF f
    <3> QED BY <3>2
  <2> HIDE DEF f
  <2> QED BY <2>1 DEF StartOf
<1> HIDE DEF f, g
<1>7. /\ g[1] = 0
      /\ \A k \in 1 .. n : g[k + 1] = g[k] + f[k]
  <2>1. /\ SumFunction([i \in 1 .. 0 |-> f[i]]) = 0
        /\ \A k \in 1 .. n : SumFunction([i \in 1 .. k |-> f[i]])
                               = SumFunction([i \in 1 .. k - 1 |-> f[i]]) + f[k]
    BY <1>1, <1>5, Adding
  <2>2. 1 \in 1 .. n + 1 /\ 1 - 1 = 0
    BY <1>1
  <2>3. g[1] = 0
    BY <1>6, <2>1, <2>2
  <2>4. ASSUME NEW k \in 1 .. n PROVE g[k + 1] = g[k] + f[k]
    <3>1. k + 1 \in 1 .. n + 1 /\ k \in 1 .. n + 1 /\ k + 1 - 1 = k
      BY <1>1
    <3>2. g[k + 1] = SumFunction([i \in 1 .. k |-> f[i]])
      BY <1>6, <3>1
    <3>3. g[k] = SumFunction([i \in 1 .. k - 1 |-> f[i]])
      BY <1>6, <3>1
    <3> QED BY <2>1, <3>2, <3>3
  <2> QED BY <2>3, <2>4
<1>8. g[2] = 36
  <2>1. g[1 + 1] = g[1] + f[1]
    BY <1>3, <1>7
  <2> QED BY <1>4, <1>7, <2>1
<1>9. \A i \in 0 .. Labels : g[2 + i] = 36 + 68 * i
  <2>1. ASSUME NEW i \in 1 .. Labels PROVE g[2 + i] = g[2 + i - 1] + 68
    <3>1. 1 + i \in 1 .. n /\ (1 + i) + 1 = 2 + i /\ 1 + i = 2 + i - 1
      BY <1>1, <1>3
    <3>2. g[(1 + i) + 1] = g[1 + i] + f[1 + i]
      BY <1>7, <3>1
    <3> QED BY <1>4, <3>1, <3>2
  <2>2. g[2] \in Nat /\ 68 \in Nat /\ 2 \in Nat
    BY <1>8
  <2>3. Steps(g, 2, Labels, 68)
    BY <2>1 DEF Steps
  <2>4. \A i \in 0 .. Labels : g[2 + i] = g[2] + 68 * i
    BY <1>1, <2>2, <2>3, EvenSteps
  <2> QED BY <1>8, <2>4
<1> DEFINE m == 2 + Labels
<1>10. \A i \in 0 .. Sources : g[m + i] = 36 + 68 * Labels + 64 * i
  <2>1. m \in Nat /\ 64 \in Nat
    BY <1>1
  <2>2. g[m] = 36 + 68 * Labels
    <3>1. Labels \in 0 .. Labels
      BY <1>1
    <3> QED BY <1>9, <3>1
  <2>3. g[m] \in Nat
    BY <1>1, <2>2
  <2>4. ASSUME NEW i \in 1 .. Sources PROVE g[m + i] = g[m + i - 1] + 64
    <3>1. 1 + Labels + i \in 1 .. n /\ (1 + Labels + i) + 1 = m + i /\ 1 + Labels + i = m + i - 1
      BY <1>1, <1>3
    <3>2. g[(1 + Labels + i) + 1] = g[1 + Labels + i] + f[1 + Labels + i]
      BY <1>7, <3>1
    <3> QED BY <1>4, <3>1, <3>2
  <2> DEFINE z == 64
  <2>5. z \in Nat /\ m \in Nat /\ Sources \in Nat /\ g[m] \in Nat
    BY <1>1, <2>1, <2>3
  <2>5a. Steps(g, m, Sources, z)
    BY <2>4 DEF Steps
  <2> HIDE DEF m, z, n
  <2>6. \A i \in 0 .. Sources : g[m + i] = g[m] + z * i
    BY <2>5, <2>5a, EvenSteps
  <2> QED BY <2>2, <2>6 DEF z
<1> DEFINE w == m + Sources
<1>11. \A i \in 0 .. offset : g[w + i] = 36 + 68 * Labels + 64 * Sources + 16 * i
  <2>1. w \in Nat /\ 16 \in Nat
    BY <1>1
  <2>2. g[w] = 36 + 68 * Labels + 64 * Sources
    <3>1. Sources \in 0 .. Sources
      BY <1>1
    <3> QED BY <1>10, <3>1
  <2>3. g[w] \in Nat
    BY <1>1, <2>2
  <2>4. ASSUME NEW i \in 1 .. offset PROVE g[w + i] = g[w + i - 1] + 16
    <3> DEFINE k == 1 + Labels + Sources + i
    <3>1. k \in 1 .. n /\ k + 1 = w + i /\ k = w + i - 1
      BY <1>1, <1>3
    <3>2. f[k] = 16
      BY <1>4
    <3> HIDE DEF k, w
    <3>3. g[k + 1] = g[k] + f[k]
      BY <1>7, <3>1
    <3> QED BY <3>1, <3>2, <3>3
  <2> DEFINE z == 16
  <2>5. z \in Nat /\ w \in Nat /\ offset \in Nat /\ g[w] \in Nat
    BY <1>1, <2>1, <2>3
  <2>5a. Steps(g, w, offset, z)
    BY <2>4 DEF Steps
  <2> HIDE DEF w, z, n
  <2>6. \A i \in 0 .. offset : g[w + i] = g[w] + z * i
    BY <2>5, <2>5a, EvenSteps
  <2> QED BY <2>2, <2>6 DEF z
<1>12. \A k \in 1 .. n + 1 : g[k] = StartOf(k)
  BY DEF g
<1>13. ASSUME NEW i \in 1 .. Labels PROVE StartOf(1 + i) = 36 + 68 * (i - 1)
  <2>1. i - 1 \in 0 .. Labels /\ 1 + i \in 1 .. n + 1 /\ 2 + (i - 1) = 1 + i
    BY <1>1, <1>3
  <2> QED BY <1>9, <1>12, <2>1
<1>14. ASSUME NEW i \in 1 .. Sources
       PROVE  StartOf(1 + Labels + i) = 36 + 68 * Labels + 64 * (i - 1)
  <2>1. i - 1 \in 0 .. Sources /\ 1 + Labels + i \in 1 .. n + 1 /\ m + (i - 1) = 1 + Labels + i
    BY <1>1, <1>3
  <2> QED BY <1>10, <1>12, <2>1
<1>15. ASSUME NEW i \in 1 .. offset
       PROVE  StartOf(1 + Labels + Sources + i) = 36 + 68 * Labels + 64 * Sources + 16 * (i - 1)
  <2>1. /\ i - 1 \in 0 .. offset /\ 1 + Labels + Sources + i \in 1 .. n + 1
        /\ w + (i - 1) = 1 + Labels + Sources + i
    BY <1>1, <1>3
  <2> QED BY <1>11, <1>12, <2>1
<1> QED BY <1>13, <1>14, <1>15

\* A debugger finds every unit.
LEMMA DebugReads == OutputInv => DebugFileReads
<1> SUFFICES ASSUME OutputInv, New("d") PROVE DebugFileReads
  BY DEF DebugFileReads
<1>1. TypeInv /\ ImageInv
  BY DEF OutputInv
<1>2. offset > 0 /\ disk["d"].data = DebugFile
  <2>1. "d" \in ToSet(Images)
    BY OutputNames
  <2>2. offset > 0 /\ \E lost \in SUBSET Files : disk["d"].data = Data("d", lost)
    BY <2>1 DEF OutputInv, StageInv
  <2>3. \A lost : Data("d", lost) = DebugFile
    BY DEF Data
  <2> QED BY <2>2, <2>3
<1> DEFINE d == DebugFile
           n == 1 + Labels + Sources + offset
<1>3. /\ Labels \in Nat /\ Sources \in Nat /\ offset \in Nat /\ n \in Nat
      /\ DOMAIN d = 1 .. n /\ d[1] = Unit("header", Header)
  BY <1>1, <1>2, DebugUnits
<1>4. /\ \A i \in 1 .. Labels : d[1 + i] = Unit("label", labelList[i])
      /\ \A i \in 1 .. Sources : d[1 + Labels + i] = Unit("file", sf[i])
      /\ \A i \in 1 .. offset : d[1 + Labels + Sources + i] = Unit("code", image[i - 1])
  BY <1>1, <1>2, DebugUnits
<1>5. /\ \A i \in 1 .. Labels : StartOf(1 + i) = 36 + 68 * (i - 1)
      /\ \A i \in 1 .. Sources : StartOf(1 + Labels + i) = 36 + 68 * Labels + 64 * (i - 1)
      /\ \A i \in 1 .. offset :
           StartOf(1 + Labels + Sources + i) = 36 + 68 * Labels + 64 * Sources + 16 * (i - 1)
  BY <1>1, <1>2, DebugStarts
<1>6. disk["d"].data = d
  BY <1>2
<1>7. /\ SizeOf.label = 68 /\ SizeOf.file = 64 /\ SizeOf.code = 16
      /\ Header.LabelCount = Labels /\ Header.CodeCount = offset /\ Header.LabelOffset = 36
      /\ Header.FileOffset = 36 + Labels * 68 /\ Header.CodeOffset = 36 + Labels * 68 + Sources * 64
  BY DEF SizeOf, Header, Labels, Sources
<1> HIDE DEF d
<1>8. ASSUME NEW k \in 1 .. n, NEW kind, NEW place, NEW what,
             d[k] = Unit(kind, what), StartOf(k) = place
      PROVE  UnitAt(kind, place, what)
  BY <1>3, <1>6, <1>8 DEF UnitAt, Unit
<1>9. ASSUME NEW k \in 1 .. Labels
      PROVE  UnitAt("label", 36 + 68 * (k - 1), labelList[k])
  <2>1. 1 + k \in 1 .. n
    BY <1>3
  <2> QED BY <1>4, <1>5, <1>8, <2>1
<1>10. ASSUME NEW r \in 0 .. Sources - 1
       PROVE  UnitAt("file", 36 + Labels * 68 + 64 * r, sf[r + 1])
  <2> DEFINE i == r + 1
             k == 1 + Labels + i
  <2>1. i \in 1 .. Sources /\ k \in 1 .. n /\ i - 1 = r
    BY <1>3
  <2>2. d[k] = Unit("file", sf[i]) /\ StartOf(k) = 36 + 68 * Labels + 64 * (i - 1)
    BY <1>4, <1>5, <2>1
  <2>3. StartOf(k) = 36 + Labels * 68 + 64 * r
    BY <1>3, <2>1, <2>2
  <2> HIDE DEF k, n
  <2> QED BY <1>8, <2>1, <2>2, <2>3
<1>11. ASSUME NEW a \in 0 .. offset - 1
       PROVE  UnitAt("code", 36 + Labels * 68 + Sources * 64 + 16 * a, image[a])
  <2> DEFINE i == a + 1
             k == 1 + Labels + Sources + i
  <2>1. i \in 1 .. offset /\ k \in 1 .. n /\ i - 1 = a
    BY <1>3
  <2>2. d[k] = Unit("code", image[i - 1])
          /\ StartOf(k) = 36 + 68 * Labels + 64 * Sources + 16 * (i - 1)
    BY <1>4, <1>5, <2>1
  <2>3. StartOf(k) = 36 + Labels * 68 + Sources * 64 + 16 * a
    BY <1>3, <2>1, <2>2
  <2>4. d[k] = Unit("code", image[a])
    BY <2>1, <2>2
  <2> HIDE DEF k, n
  <2> QED BY <1>8, <2>1, <2>3, <2>4
<1>12. ASSUME NEW e \in ToSet(emitted)
       PROVE  e.file \in 0 .. Sources - 1 /\ e.addr \in 0 .. offset - 1 /\ image[e.addr] = e
  <2>1. e.addr < offset /\ image[e.addr] = e /\ e.file < Len(sf)
    BY <1>1 DEF ImageInv
  <2>2. e.file \in Nat /\ e.addr \in Nat
    BY <1>1, EmittedIs
  <2> QED BY <1>3, <2>1, <2>2 DEF Sources
<1>13. DOMAIN labelList = 1 .. Labels
  BY <1>1 DEF TypeInv, Labels
<1> DEFINE header == disk["d"].data[1].what
<1>14. header = Header
  BY <1>3, <1>6 DEF Unit
<1> HIDE DEF header
<1>15. header.LabelCount = Len(labelList) /\ header.CodeCount = offset
  BY <1>7, <1>14 DEF Labels
<1>16. \A k \in DOMAIN labelList :
         UnitAt("label", header.LabelOffset + SizeOf.label * (k - 1), labelList[k])
  BY <1>7, <1>9, <1>13, <1>14
<1>17. \A e \in ToSet(emitted) :
         /\ UnitAt("file", header.FileOffset + SizeOf.file * e.file, sf[e.file + 1])
         /\ UnitAt("code", header.CodeOffset + SizeOf.code * e.addr, e)
  BY <1>7, <1>10, <1>11, <1>12, <1>14
<1> QED BY <1>15, <1>16, <1>17 DEF DebugFileReads, header

\* By its header a debugger finds in the debug file every label, source file and
\* word (pasm.c:457-549).
THEOREM DebugFilesRead == OutputSpec => []DebugFileReads
BY AlwaysOutput, DebugReads, PTL

\* s goes up.
Ascending(s) == \A i, j \in DOMAIN s : i < j => s[i] < s[j]

\* What is kept of a sequence that goes up goes up.
LEMMA KeepUp ==
  ASSUME NEW seq \in Seq(Int), Ascending(seq), NEW set
  PROVE  Keep(seq, set) \in Seq(Int) /\ Ascending(Keep(seq, set))
<1> DEFINE shown == Keep(seq, set)
<1>1. PICK w : Places(w, seq, set, Len(seq)) /\ shown = At(seq, w)
  BY KeepAt
<1>2. /\ w \in Seq(1 .. Len(seq)) /\ DOMAIN w = 1 .. Len(w) /\ Len(w) \in Nat
      /\ \A i \in 1 .. Len(w) : w[i] \in 1 .. Len(seq)
      /\ \A i, j \in 1 .. Len(w) : i < j => w[i] < w[j]
  BY <1>1 DEF Places
<1>3. DOMAIN shown = 1 .. Len(w) /\ \A i \in 1 .. Len(w) : shown[i] = seq[w[i]]
  BY <1>1 DEF At
<1>4. shown \in Seq(Int)
  BY KeepIn
<1> HIDE DEF shown
<1>5. DOMAIN seq = 1 .. Len(seq)
  OBVIOUS
<1>6. Ascending(shown)
  BY <1>2, <1>3, <1>5 DEF Ascending
<1> QED BY <1>4, <1>6 DEF shown

\* What is kept is in the set, and all of it that the sequence has is kept.
LEMMA KeepFrom ==
  ASSUME NEW S, NEW seq \in Seq(S), NEW set, NEW i \in DOMAIN Keep(seq, set)
  PROVE  Keep(seq, set)[i] \in set
BY KeepIn

LEMMA KeepAll ==
  ASSUME NEW S, NEW seq \in Seq(S), NEW set, NEW k \in 1 .. Len(seq), NEW x, seq[k] = x, x \in set
  PROVE  x \in ToSet(Keep(seq, set))
<1> DEFINE kept == Keep(seq, set)
<1>1. \A l \in 1 .. Len(seq) : seq[l] \in set => \E i \in DOMAIN kept : kept[i] = seq[l]
  BY KeepIn
<1> HIDE DEF kept
<1>2. \E i \in DOMAIN kept : kept[i] = x
  BY <1>1
<1>3. x \in ToSet(kept)
  BY <1>2 DEF ToSet
<1> QED BY <1>3 DEF kept

\* A line of the annotated listing.
PrintedLine == [line : Nat, addr : Int, text : Nat]

\* The first of the printed lines of a line says which it is, the others do not;
\* the words they show are words of the line, in order; and they show every one,
\* or the first one at the end of a file that is not ended.
LEMMA ListOfIs ==
  ASSUME TypeInv, offset > 0, NEW rec, NEW line \in Nat \ {0}
  PROVE  LET out == ListOf(rec, line)
         IN  /\ out \in Seq(PrintedLine) /\ out # <<>>
             /\ out[1].line = line /\ \A i \in 2 .. Len(out) : out[i].line = 0
             /\ \A i \in 1 .. Len(out) :
                  out[i].addr >= 0 =>
                    out[i].addr \in 0 .. offset - 1 /\ From(rec, out[i].addr, line)
             /\ \A i, j \in 1 .. Len(out) : i < j => out[i].addr < out[j].addr
             /\ \A a \in 0 .. offset - 1 :
                  From(rec, a, line) => \/ \E i \in 1 .. Len(out) : out[i].addr = a
                                        \/ CutShort(rec, line) /\ out[1].addr >= 0
<1> DEFINE out == ListOf(rec, line)
           all == [a \in 1 .. offset |-> a - 1]
           set == {a \in 0 .. offset - 1 : From(rec, a, line)}
           shown == Keep(all, set)
<1>1. offset \in Nat
  BY DEF TypeInv
<1>2. all \in Seq(Int) /\ Len(all) = offset /\ Ascending(all)
  BY <1>1 DEF Ascending
<1>3. \A a \in 0 .. offset - 1 : a + 1 \in 1 .. Len(all) /\ all[a + 1] = a
  <2> TAKE a \in 0 .. offset - 1
  <2> DEFINE b == a + 1
  <2>1. b \in 1 .. offset /\ b - 1 = a
    BY <1>1
  <2> HIDE DEF b
  <2>2. b \in 1 .. Len(all)
    BY <1>2, <2>1
  <2>3. all[b] = b - 1
    BY <2>1
  <2> HIDE DEF all
  <2>4. all[b] = a
    BY <2>1, <2>3
  <2> QED BY <2>2, <2>4 DEF b
<1> DEFINE n == Len(shown)
<1> HIDE DEF all
<1>4. shown \in Seq(Int) /\ n \in Nat /\ DOMAIN shown = 1 .. n
  <2>1. shown \in Seq(Int)
    BY <1>2, KeepUp
  <2> HIDE DEF shown
  <2> QED BY <2>1
<1>5. \A i \in 1 .. n : shown[i] \in set
  <2> TAKE i \in 1 .. n
  <2>1. i \in DOMAIN shown /\ all \in Seq(Int)
    BY <1>2, <1>4
  <2> HIDE DEF set
  <2> QED BY <2>1, KeepFrom
<1>6. \A i, j \in 1 .. n : i < j => shown[i] < shown[j]
  <2>1. Ascending(shown)
    BY <1>2, KeepUp
  <2> QED BY <1>4, <2>1 DEF Ascending
<1>7. \A a \in 0 .. offset - 1 : From(rec, a, line) => \E i \in 1 .. n : shown[i] = a
  <2> TAKE a \in 0 .. offset - 1
  <2> HAVE From(rec, a, line)
  <2>1. all[a + 1] \in set /\ a + 1 \in 1 .. Len(all)
    BY <1>3
  <2> HIDE DEF set
  <2>2. all \in Seq(Int)
    BY <1>2
  <2> DEFINE b == a + 1
  <2>3. b \in 1 .. Len(all) /\ all[b] = a /\ a \in set
    BY <1>3, <2>1
  <2> HIDE DEF b
  <2>4. a \in ToSet(shown)
    BY <2>2, <2>3, KeepAll
  <2> HIDE DEF shown, n
  <2> QED BY <1>4, <2>4 DEF ToSet
<1>8. \A i \in 1 .. n : shown[i] \in 0 .. offset - 1 /\ From(rec, shown[i], line)
  BY <1>5
<1>9. out = IF shown = <<>> THEN <<Printed(line, -1, line)>>
            ELSE <<Printed(line, shown[1], line)>> \o
                 (IF CutShort(rec, line) THEN <<>>
                  ELSE [k \in 1 .. n - 1 |-> Printed(0, shown[k + 1], 0)])
  BY DEF ListOf, CutShort, all
<1> HIDE DEF shown, n, out
<1>10. ASSUME NEW a \in Int, NEW l \in Nat
       PROVE  /\ Printed(l, a, l) \in PrintedLine /\ Printed(l, a, l).line = l
              /\ Printed(l, a, l).addr = a
  BY DEF Printed, PrintedLine
<1>11. CASE shown = <<>>
  <2>1. n = 0
    BY <1>11 DEF n
  <2> DEFINE p == Printed(line, -1, line)
  <2>2. p \in PrintedLine /\ p.line = line /\ p.addr = -1
    BY <1>10
  <2> HIDE DEF p
  <2>3. out = <<p>>
    BY <1>9, <1>11 DEF p
  <2>4. out \in Seq(PrintedLine) /\ Len(out) = 1 /\ out[1] = p /\ out # <<>>
    BY <2>2, <2>3
  <2>5. \A a \in 0 .. offset - 1 : ~ From(rec, a, line)
    BY <1>7, <2>1
  <2>6. \A i \in 1 .. Len(out) : out[i].addr = -1
    BY <2>2, <2>4
  <2>7. (\A i \in 2 .. Len(out) : FALSE) /\ \A i, j \in 1 .. Len(out) : ~ (i < j)
    BY <2>4
  <2> QED BY <2>2, <2>4, <2>5, <2>6, <2>7 DEF out
<1>12. CASE shown # <<>>
  <2>1. n >= 1 /\ 1 \in 1 .. n /\ shown[1] \in 0 .. offset - 1
    <3>1. n # 0
      BY <1>4, <1>12 DEF n
    <3>2. 1 \in 1 .. n /\ n >= 1
      BY <1>4, <3>1
    <3> QED BY <1>8, <3>2
  <2> DEFINE p == Printed(line, shown[1], line)
             others == IF CutShort(rec, line) THEN <<>>
                     ELSE [k \in 1 .. n - 1 |-> Printed(0, shown[k + 1], 0)]
             x == <<p>>
  <2>2. p \in PrintedLine /\ p.line = line /\ p.addr = shown[1]
    BY <1>4, <1>10, <2>1
  <2>3. \A k \in 1 .. n - 1 : k + 1 \in 1 .. n /\ shown[k + 1] \in Int
    <3> TAKE k \in 1 .. n - 1
    <3>1. k + 1 \in 1 .. n
      BY <1>4
    <3> QED BY <1>4, <3>1
  <2>4. /\ others \in Seq(PrintedLine) /\ Len(others) \in 0 .. n - 1
        /\ \A k \in 1 .. Len(others) : others[k].line = 0 /\ others[k].addr = shown[k + 1]
        /\ CutShort(rec, line) \/ Len(others) = n - 1
    <3>1. CASE CutShort(rec, line)
      <4>1. others = <<>>
        BY <3>1
      <4> HIDE DEF others
      <4> QED BY <1>4, <2>1, <3>1, <4>1
    <3>2. CASE ~ CutShort(rec, line)
      <4>1. others = [k \in 1 .. n - 1 |-> Printed(0, shown[k + 1], 0)]
        BY <3>2
      <4>2. \A k \in 1 .. n - 1 : /\ Printed(0, shown[k + 1], 0) \in PrintedLine
                                  /\ Printed(0, shown[k + 1], 0).line = 0
                                  /\ Printed(0, shown[k + 1], 0).addr = shown[k + 1]
        BY <1>10, <2>3
      <4> HIDE DEF others
      <4>3. \A k \in 1 .. n - 1 : /\ others[k] \in PrintedLine /\ others[k].line = 0
                                  /\ others[k].addr = shown[k + 1]
        BY <4>1, <4>2
      <4>4. others \in Seq(PrintedLine) /\ Len(others) = n - 1
        BY <1>4, <2>1, <4>1, <4>3
      <4>5. Len(others) \in 0 .. n - 1
        BY <1>4, <2>1, <4>4
      <4>6. \A k \in 1 .. Len(others) : others[k].line = 0 /\ others[k].addr = shown[k + 1]
        BY <4>3, <4>4
      <4> QED BY <4>4, <4>5, <4>6
    <3> QED BY <3>1, <3>2
  <2>5. out = x \o others
    BY <1>9, <1>12
  <2> HIDE DEF others, p
  <2>6. x \in Seq(PrintedLine) /\ Len(x) = 1 /\ x[1] = p
    BY <2>2
  <2> HIDE DEF x
  <2> DEFINE m == Len(others)
  <2>7. x \in Seq(PrintedLine) /\ others \in Seq(PrintedLine)
    BY <2>4, <2>6
  <2>8. /\ out \in Seq(PrintedLine) /\ Len(out) = Len(x) + Len(others)
        /\ \A i \in 1 .. Len(x) : out[i] = x[i]
    BY <2>5, <2>7, Behind
  <2>9. \A i \in 1 .. Len(others) : out[Len(x) + i] = others[i]
    BY <2>5, <2>7, Behind
  <2>10. m \in Nat /\ m <= n - 1
    BY <1>4, <2>4
  <2>11. /\ Len(out) = 1 + m /\ out[1] = p /\ \A i \in 1 .. m : out[1 + i] = others[i]
         /\ out # <<>>
    BY <2>6, <2>8, <2>9, <2>10
  <2> HIDE DEF m
  <2>12. ASSUME NEW i \in 1 .. Len(out)
         PROVE  /\ i \in 1 .. n /\ out[i].addr = shown[i]
                /\ i # 1 => out[i].line = 0
    <3>1. i \in 1 .. n
      BY <1>4, <2>10, <2>11
    <3>2. CASE i = 1
      BY <2>2, <2>11, <3>1, <3>2
    <3>3. CASE i # 1
      <4> DEFINE k == i - 1
      <4>1. k \in 1 .. m /\ i = 1 + k /\ i = k + 1
        BY <2>10, <2>11, <3>3
      <4> HIDE DEF k
      <4>2. out[i] = others[k] /\ k \in 1 .. Len(others)
        BY <2>11, <4>1 DEF m
      <4>3. others[k].line = 0 /\ others[k].addr = shown[k + 1]
        BY <2>4, <4>2
      <4> QED BY <3>1, <4>1, <4>2, <4>3
    <3> QED BY <3>2, <3>3
  <2>13. out[1].line = line /\ \A i \in 2 .. Len(out) : out[i].line = 0
    <3>1. \A i \in 2 .. Len(out) : i \in 1 .. Len(out) /\ i # 1
      BY <2>10, <2>11
    <3> QED BY <2>2, <2>11, <2>12, <3>1
  <2>14. \A i \in 1 .. Len(out) : out[i].addr \in 0 .. offset - 1 /\ From(rec, out[i].addr, line)
    BY <1>8, <2>12
  <2>15. \A i, j \in 1 .. Len(out) : i < j => out[i].addr < out[j].addr
    BY <1>6, <2>12
  <2>16. \A a \in 0 .. offset - 1 :
           From(rec, a, line) => \/ \E i \in 1 .. Len(out) : out[i].addr = a
                                 \/ CutShort(rec, line) /\ out[1].addr >= 0
    <3> TAKE a \in 0 .. offset - 1
    <3> HAVE From(rec, a, line)
    <3>1. PICK i \in 1 .. n : shown[i] = a
      BY <1>7
    <3>2. CASE CutShort(rec, line)
      <4>1. 1 \in 1 .. Len(out)
        BY <2>10, <2>11
      <4>2. out[1].addr \in 0 .. offset - 1
        BY <2>14, <4>1
      <4> QED BY <1>1, <3>2, <4>2
    <3>3. CASE ~ CutShort(rec, line)
      <4>1. Len(out) = n
        BY <1>4, <2>4, <2>11, <3>3 DEF m
      <4> QED BY <2>12, <3>1, <4>1
    <3> QED BY <3>2, <3>3
  <2> QED BY <2>8, <2>11, <2>13, <2>14, <2>15, <2>16 DEF out
<1> QED BY <1>11, <1>12

\* The sequences of ss stand one behind the other in text, the i-th from s[i] on.
Laid(s, ss, text) ==
  /\ \A i \in 1 .. Len(ss) : s[i] \in Nat
  /\ \A i \in 1 .. Len(ss) : \A j \in 1 .. Len(ss[i]) :
       s[i] + j \in 1 .. Len(text) /\ text[s[i] + j] = ss[i][j]
  /\ \A p \in 1 .. Len(text) :
       \E i \in 1 .. Len(ss) : \E j \in 1 .. Len(ss[i]) : p = s[i] + j
  /\ \A i, k \in 1 .. Len(ss) : i < k => \A j \in 1 .. Len(ss[i]) : s[i] + j <= s[k]

LEMMA FlatLaid ==
  ASSUME NEW S, NEW ss \in Seq(Seq(S)), ss # <<>>
  PROVE  FlattenSeq(ss) \in Seq(S) /\ \E s : Laid(s, ss, FlattenSeq(ss))
<1> DEFINE n == Len(ss)
<1>1. n \in Nat /\ n > 0 /\ n \in 1 .. n
  <2>1. n \in Nat /\ n # 0
    OBVIOUS
  <2> HIDE DEF n
  <2> QED BY <2>1
<1>2. PICK f : FlatsTo(f, ss, Len(ss)) /\ FlattenSeq(ss) = f[Len(ss)]
  BY FlattenIs
<1>3. f[n] \in Seq(S)
  BY <1>1, <1>2, FlatsIn
<1> DEFINE s == [i \in 1 .. n |-> EndAt(f, i - 1)]
<1>4. \A i \in 1 .. n : s[i] = EndAt(f, i - 1) /\ EndAt(f, i - 1) \in Nat
  BY <1>2, EndMore
<1> HIDE DEF s
<1>5. ASSUME NEW i \in 1 .. n, NEW j \in 1 .. Len(ss[i]), NEW k \in 1 .. n, i <= k
      PROVE  s[i] + j \in 1 .. Len(f[k]) /\ f[k][s[i] + j] = ss[i][j]
  <2>1. k \in 1 .. Len(ss) /\ i \in 1 .. k
    BY <1>1, <1>5
  <2>2. EndAt(f, i - 1) + j \in 1 .. Len(f[k]) /\ f[k][EndAt(f, i - 1) + j] = ss[i][j]
    BY <1>2, <2>1, FlatAt
  <2> QED BY <1>4, <2>2
<1>6. ASSUME NEW i \in 1 .. n, NEW j \in 1 .. Len(ss[i])
      PROVE  s[i] + j \in 1 .. Len(f[n]) /\ f[n][s[i] + j] = ss[i][j]
  <2>1. i <= n
    BY <1>1
  <2> QED BY <1>1, <1>5, <2>1
<1>7. ASSUME NEW p \in 1 .. Len(f[n])
      PROVE  \E i \in 1 .. n : \E j \in 1 .. Len(ss[i]) : p = s[i] + j
  <2>1. IsPlace(p, f, ss)
    BY <1>1, <1>2, FlatCovers
  <2>2. PICK i \in 1 .. n : \E j \in 1 .. Len(ss[i]) : p = EndAt(f, i - 1) + j
    BY <2>1 DEF IsPlace
  <2> QED BY <1>4, <2>2
<1>8. ASSUME NEW i \in 1 .. n, NEW k \in 1 .. n, i < k, NEW j \in 1 .. Len(ss[i])
      PROVE  s[i] + j <= s[k]
  <2> DEFINE l == k - 1
  <2>1. l \in 1 .. n /\ i <= l /\ l # 0
    BY <1>1, <1>8
  <2>2. s[k] = EndAt(f, l)
    BY <1>4
  <2> HIDE DEF l
  <2>3. s[i] + j \in 1 .. Len(f[l])
    BY <1>5, <2>1
  <2>4. EndAt(f, l) = Len(f[l])
    BY <2>1 DEF EndAt
  <2>5. f[l] \in Seq(S)
    BY <1>2, <2>1, FlatsIn
  <2>6. Len(f[l]) \in Nat
    BY <2>5
  <2> QED BY <2>2, <2>3, <2>4, <2>6
<1>9. Laid(s, ss, f[n])
  BY <1>4, <1>6, <1>7, <1>8 DEF Laid
<1> QED BY <1>2, <1>3, <1>9

\* The line that Listed finds for a printed line.
LineOf(text, k) ==
  text[CHOOSE j \in 1 .. k : text[j].line > 0 /\ \A i \in j + 1 .. k : text[i].line = 0].line

\* The first of the printed lines of a line is the last before each of them that
\* has a number.
Numbered(ss) ==
  \A i \in 1 .. Len(ss) : /\ Len(ss[i]) >= 1 /\ ss[i][1].line = i
                          /\ \A j \in 2 .. Len(ss[i]) : ss[i][j].line = 0

LEMMA LineFound ==
  ASSUME NEW text \in Seq(PrintedLine), NEW ss \in Seq(Seq(PrintedLine)), NEW s, Laid(s, ss, text),
         Numbered(ss), NEW i \in 1 .. Len(ss), NEW j \in 1 .. Len(ss[i])
  PROVE  LineOf(text, s[i] + j) = i
<1> DEFINE m == s[i]
           p == m + j
           l == Len(ss[i])
<1>1. m \in Nat /\ l \in Nat /\ j \in 1 .. l /\ i \in Nat /\ i > 0
  BY DEF Laid
<1>2. \A x \in 1 .. l : text[m + x] = ss[i][x]
  BY DEF Laid
<1>3. /\ l >= 1 /\ ss[i][1].line = i /\ \A x \in 2 .. l : ss[i][x].line = 0
  BY DEF Numbered
<1> DEFINE q == m + 1
<1> HIDE DEF m, l
<1>4. text[q].line = i
  <2>1. 1 \in 1 .. l
    BY <1>1
  <2> QED BY <1>2, <1>3, <2>1
<1>5. ASSUME NEW x \in q + 1 .. p PROVE text[x].line = 0
  <2> DEFINE y == x - m
  <2>1. y \in 2 .. l /\ y \in 1 .. l /\ x = m + y
    BY <1>1
  <2> HIDE DEF y
  <2>2. text[x] = ss[i][y]
    BY <1>2, <2>1
  <2> QED BY <1>3, <2>1, <2>2
<1>6. q \in 1 .. p /\ p \in Nat /\ q \in Nat
  BY <1>1
<1> HIDE DEF p, q
<1> DEFINE Good(x) == text[x].line > 0 /\ \A y \in x + 1 .. p : text[y].line = 0
<1>7. Good(q)
  BY <1>1, <1>4, <1>5
<1>8. ASSUME NEW x \in 1 .. p, Good(x) PROVE x = q
  <2>1. ~ (x > q)
    <3> SUFFICES ASSUME x > q PROVE FALSE
      OBVIOUS
    <3>1. x \in q + 1 .. p
      BY <1>6
    <3>2. text[x].line = 0
      BY <1>5, <3>1
    <3> QED BY <1>8, <3>2
  <2>2. ~ (x < q)
    <3> SUFFICES ASSUME x < q PROVE FALSE
      OBVIOUS
    <3>1. q \in x + 1 .. p
      BY <1>6
    <3>2. text[q].line = 0
      BY <1>8, <3>1
    <3> QED BY <1>1, <1>4, <3>2
  <2> QED BY <1>6, <2>1, <2>2
<1>9. (CHOOSE x \in 1 .. p : Good(x)) = q
  <2> HIDE DEF Good
  <2> QED BY <1>6, <1>7, <1>8
<1>10. LineOf(text, p) = text[q].line
  BY <1>9 DEF LineOf
<1> QED BY <1>4, <1>10 DEF p, m

\* The words of a text: where they stand, in order.
WordsOf(text) == Keep([k \in 1 .. Len(text) |-> k], {k \in 1 .. Len(text) : text[k].addr >= 0})

LEMMA WordsShown ==
  ASSUME NEW text \in Seq(PrintedLine)
  PROVE  /\ WordsOf(text) \in Seq(Int)
         /\ \A x \in 1 .. Len(WordsOf(text)) :
              WordsOf(text)[x] \in 1 .. Len(text) /\ text[WordsOf(text)[x]].addr >= 0
         /\ \A x, y \in 1 .. Len(WordsOf(text)) : x < y => WordsOf(text)[x] < WordsOf(text)[y]
         /\ \A k \in 1 .. Len(text) :
              text[k].addr >= 0 => \E x \in 1 .. Len(WordsOf(text)) : WordsOf(text)[x] = k
<1> DEFINE d == 1 .. Len(text)
           all == [k \in d |-> k]
           set == {k \in d : text[k].addr >= 0}
           shown == Keep(all, set)
<1>1. Len(text) \in Nat
  OBVIOUS
<1>2. shown = WordsOf(text)
  BY DEF WordsOf
<1>3. all \in Seq(Int) /\ Len(all) = Len(text) /\ Ascending(all) /\ \A k \in d : all[k] = k
  BY <1>1 DEF Ascending
<1> DEFINE n == Len(shown)
<1> HIDE DEF all
<1>4. shown \in Seq(Int) /\ n \in Nat /\ DOMAIN shown = 1 .. n
  <2>1. shown \in Seq(Int)
    BY <1>3, KeepUp
  <2> HIDE DEF shown
  <2> QED BY <2>1
<1>5. \A x \in 1 .. n : shown[x] \in set
  <2> TAKE x \in 1 .. n
  <2> HIDE DEF set
  <2>1. x \in DOMAIN shown /\ all \in Seq(Int)
    BY <1>3, <1>4
  <2> QED BY <2>1, KeepFrom
<1>6. \A x, y \in 1 .. n : x < y => shown[x] < shown[y]
  <2>1. Ascending(shown)
    BY <1>3, KeepUp
  <2> QED BY <1>4, <2>1 DEF Ascending
<1>7. ASSUME NEW k \in d, text[k].addr >= 0 PROVE \E x \in 1 .. n : shown[x] = k
  <2>1. all \in Seq(Int)
    BY <1>3
  <2> DEFINE b == k
  <2>2. b \in 1 .. Len(all) /\ all[b] = k /\ k \in set
    BY <1>1, <1>3, <1>7
  <2> HIDE DEF b, set, d
  <2>3. k \in ToSet(shown)
    BY <2>1, <2>2, KeepAll
  <2> HIDE DEF shown, n
  <2> QED BY <1>4, <2>3 DEF ToSet
<1> HIDE DEF shown
<1> QED BY <1>2, <1>4, <1>5, <1>6, <1>7

\* A listing shows all the words that the lines of ss show, and nothing else,
\* each with its line, in order.
IsShown(word, ss) ==
  \E i \in 1 .. Len(ss) : \E j \in 1 .. Len(ss[i]) :
    word = <<i, ss[i][j].addr>> /\ ss[i][j].addr >= 0

ShownBefore(word, next, ss) ==
  \E i, k \in 1 .. Len(ss) : \E j \in 1 .. Len(ss[i]), l \in 1 .. Len(ss[k]) :
    /\ word = <<i, ss[i][j].addr>> /\ next = <<k, ss[k][l].addr>>
    /\ i < k \/ (i = k /\ j < l)

ShowsAll(listed, ss) ==
  /\ Len(listed) \in Nat /\ DOMAIN listed = 1 .. Len(listed)
  /\ \A x \in DOMAIN listed : IsShown(listed[x], ss)
  /\ \A x, y \in DOMAIN listed : x < y => ShownBefore(listed[x], listed[y], ss)
  /\ \A i \in 1 .. Len(ss) : \A j \in 1 .. Len(ss[i]) :
       ss[i][j].addr >= 0 => <<i, ss[i][j].addr>> \in ToSet(listed)

LEMMA ListedIs ==
  ASSUME NEW text \in Seq(PrintedLine), NEW ss \in Seq(Seq(PrintedLine)), NEW s, Laid(s, ss, text),
         Numbered(ss)
  PROVE  ShowsAll(Listed(text), ss)
<1> DEFINE d == 1 .. Len(text)
           shown == WordsOf(text)
           listed == Listed(text)
           n == Len(shown)
<1>1. DOMAIN text = d /\ Len(text) \in Nat
  OBVIOUS
<1>2. listed = [x \in DOMAIN shown |-> <<LineOf(text, shown[x]), text[shown[x]].addr>>]
  BY <1>1 DEF Listed, LineOf, WordsOf
<1> HIDE DEF listed
<1>4. shown \in Seq(Int) /\ n \in Nat /\ DOMAIN shown = 1 .. n
  <2>1. shown \in Seq(Int)
    BY WordsShown
  <2> HIDE DEF shown
  <2> QED BY <2>1
<1>6. \A x, y \in 1 .. n : x < y => shown[x] < shown[y]
  BY WordsShown
<1>7. \A k \in d : text[k].addr >= 0 => \E x \in 1 .. n : shown[x] = k
  BY WordsShown
<1>8. \A x \in 1 .. n : shown[x] \in d /\ text[shown[x]].addr >= 0
  BY WordsShown
<1> HIDE DEF shown, n
<1>9. \A i \in 1 .. Len(ss) : s[i] \in Nat
  BY DEF Laid
<1>9a. ASSUME NEW i \in 1 .. Len(ss), NEW j \in 1 .. Len(ss[i])
       PROVE  s[i] + j \in d /\ text[s[i] + j] = ss[i][j]
  BY DEF Laid
<1>9b. ASSUME NEW p \in d PROVE \E i \in 1 .. Len(ss) : \E j \in 1 .. Len(ss[i]) : p = s[i] + j
  BY DEF Laid
<1>9c. ASSUME NEW i \in 1 .. Len(ss), NEW k \in 1 .. Len(ss), i < k, NEW j \in 1 .. Len(ss[i])
       PROVE  s[i] + j <= s[k]
  BY <1>9c DEF Laid
<1>10. ASSUME NEW i \in 1 .. Len(ss), NEW j \in 1 .. Len(ss[i])
       PROVE  LineOf(text, s[i] + j) = i
  BY LineFound
<1>11. DOMAIN listed = 1 .. n /\ Len(listed) = n
  <2>1. listed = [x \in 1 .. n |-> <<LineOf(text, shown[x]), text[shown[x]].addr>>]
    BY <1>2, <1>4
  <2> QED BY <1>4, <2>1
<1>12. ASSUME NEW x \in 1 .. n, NEW i \in 1 .. Len(ss), NEW j \in 1 .. Len(ss[i]),
              shown[x] = s[i] + j
       PROVE  listed[x] = <<i, ss[i][j].addr>>
  <2>1. listed[x] = <<LineOf(text, shown[x]), text[shown[x]].addr>>
    BY <1>2, <1>4
  <2>2. LineOf(text, s[i] + j) = i /\ text[s[i] + j] = ss[i][j]
    BY <1>9a, <1>10
  <2> QED BY <1>12, <2>1, <2>2
<1> DEFINE Found(x, i, j) == shown[x] = s[i] + j /\ ss[i][j].addr >= 0
                            /\ listed[x] = <<i, ss[i][j].addr>>
<1>13. ASSUME NEW x \in 1 .. n
       PROVE  \E i \in 1 .. Len(ss) : \E j \in 1 .. Len(ss[i]) : Found(x, i, j)
  <2>1. shown[x] \in d
    BY <1>8
  <2>2. PICK i \in 1 .. Len(ss) : \E j \in 1 .. Len(ss[i]) : shown[x] = s[i] + j
    BY <1>9b, <2>1
  <2>3. PICK j \in 1 .. Len(ss[i]) : shown[x] = s[i] + j
    BY <2>2
  <2>4. listed[x] = <<i, ss[i][j].addr>>
    BY <1>12, <2>3
  <2>5. text[s[i] + j] = ss[i][j]
    BY <1>9a
  <2>6. text[shown[x]].addr >= 0
    BY <1>8
  <2>7. Found(x, i, j)
    BY <2>3, <2>4, <2>5, <2>6
  <2> HIDE DEF Found
  <2> QED BY <2>7
<1>14. ASSUME NEW x \in 1 .. n, NEW y \in 1 .. n, x < y
       PROVE  ShownBefore(listed[x], listed[y], ss)
  <2> HIDE DEF Found
  <2>1. PICK i \in 1 .. Len(ss) : \E j \in 1 .. Len(ss[i]) : Found(x, i, j)
    BY <1>13
  <2>2. PICK j \in 1 .. Len(ss[i]) : Found(x, i, j)
    BY <2>1
  <2>3. PICK k \in 1 .. Len(ss) : \E l \in 1 .. Len(ss[k]) : Found(y, k, l)
    BY <1>13
  <2>4. PICK l \in 1 .. Len(ss[k]) : Found(y, k, l)
    BY <2>3
  <2>5. shown[x] = s[i] + j /\ shown[y] = s[k] + l /\ shown[x] < shown[y]
    BY <1>6, <1>14, <2>2, <2>4 DEF Found
  <2>6. /\ s[i] \in Nat /\ s[k] \in Nat /\ i \in Nat /\ k \in Nat
        /\ j \in Nat /\ l \in Nat /\ j > 0 /\ l > 0
    BY <1>9
  <2>7. ~ (k < i)
    <3> SUFFICES ASSUME k < i PROVE FALSE
      OBVIOUS
    <3>1. s[k] + l <= s[i]
      BY <1>9c
    <3>2. shown[y] <= s[i] /\ s[i] < shown[x] /\ shown[x] \in Int /\ shown[y] \in Int
      BY <2>5, <2>6, <3>1
    <3> QED BY <2>5, <2>6, <3>2
  <2>8. i < k \/ (i = k /\ j < l)
    <3>1. CASE i = k
      <4>1. s[i] = s[k]
        BY <3>1
      <4>2. j < l
        BY <2>5, <2>6, <4>1
      <4> QED BY <3>1, <4>2
    <3>2. CASE i # k
      BY <2>6, <2>7, <3>2
    <3> QED BY <3>1, <3>2
  <2>9. listed[x] = <<i, ss[i][j].addr>> /\ listed[y] = <<k, ss[k][l].addr>>
    BY <2>2, <2>4 DEF Found
  <2> QED BY <2>8, <2>9, Zenon DEF ShownBefore
<1>15. ASSUME NEW i \in 1 .. Len(ss), NEW j \in 1 .. Len(ss[i]), ss[i][j].addr >= 0
       PROVE  <<i, ss[i][j].addr>> \in ToSet(listed)
  <2> DEFINE k == s[i] + j
  <2>1. k \in d /\ text[k] = ss[i][j]
    BY <1>9a
  <2> HIDE DEF k
  <2>2. text[k].addr >= 0
    BY <1>15, <2>1
  <2>3. PICK x \in 1 .. n : shown[x] = k
    BY <1>7, <2>1, <2>2
  <2>4. listed[x] = <<i, ss[i][j].addr>>
    BY <1>12, <2>3 DEF k
  <2> QED BY <1>11, <2>4 DEF ToSet
<1>16. ASSUME NEW x \in 1 .. n PROVE IsShown(listed[x], ss)
  <2> HIDE DEF Found
  <2>1. PICK i \in 1 .. Len(ss) : \E j \in 1 .. Len(ss[i]) : Found(x, i, j)
    BY <1>13
  <2>2. PICK j \in 1 .. Len(ss[i]) : Found(x, i, j)
    BY <2>1
  <2>3. listed[x] = <<i, ss[i][j].addr>> /\ ss[i][j].addr >= 0
    BY <2>2 DEF Found
  <2> QED BY <2>3 DEF IsShown
<1>17. Len(listed) \in Nat /\ DOMAIN listed = 1 .. Len(listed) /\ 1 .. n = DOMAIN listed
  BY <1>4, <1>11
<1>18. \A x \in DOMAIN listed : IsShown(listed[x], ss)
  BY <1>16, <1>17
<1>19. \A x, y \in DOMAIN listed : x < y => ShownBefore(listed[x], listed[y], ss)
  BY <1>14, <1>17
<1>20. ShowsAll(listed, ss)
  BY <1>15, <1>17, <1>18, <1>19 DEF ShowsAll
<1> QED BY <1>20 DEF listed

\* A sequence without repetitions has as many elements as places.
LEMMA Distinct ==
  ASSUME NEW s, NEW n \in Nat, DOMAIN s = 1 .. n, \A x, y \in 1 .. n : x < y => s[x] # s[y]
  PROVE  Cardinality(ToSet(s)) = n
<1> DEFINE T == ToSet(s)
           b == [x \in 1 .. n |-> s[x]]
<1>1. T = {s[x] : x \in 1 .. n}
  BY DEF ToSet
<1> HIDE DEF T
<1>2. b \in [1 .. n -> T] /\ \A x \in 1 .. n : b[x] = s[x]
  BY <1>1
<1> HIDE DEF b
<1>3. ASSUME NEW x \in 1 .. n, NEW y \in 1 .. n, b[x] = b[y] PROVE x = y
  <2>1. x < y \/ y < x \/ x = y
    OBVIOUS
  <2> QED BY <1>2, <1>3, <2>1
<1>4. \A t \in T : \E x \in 1 .. n : b[x] = t
  BY <1>1, <1>2
<1>5. b \in Bijection(1 .. n, T)
  BY <1>2, <1>3, <1>4 DEF Bijection, Injection, Surjection, IsInjective
<1>6. ExistsBijection(1 .. n, T)
  BY <1>5 DEF ExistsBijection
<1>7. Cardinality(T) = n
  BY <1>6, FS_CountingElements
<1> QED BY <1>7 DEF T

\* The lines that the annotated listing prints of a file.
LinesOf(rec) == shape[FileOf(rec)].lines + (IF shape[FileOf(rec)].ended THEN 1 ELSE 0)
PrintedOf(rec) == [line \in 1 .. LinesOf(rec) |-> ListOf(rec, line)]

LEMMA ListFileShows ==
  ASSUME TypeInv, offset > 0, NEW rec \in 0 .. Len(sf) - 1
  PROVE  /\ LinesOf(rec) \in Nat /\ shape[FileOf(rec)].lines <= LinesOf(rec)
         /\ Len(PrintedOf(rec)) = LinesOf(rec)
         /\ ShowsAll(Listed(ListFile(rec)), PrintedOf(rec))
<1> DEFINE end == shape[FileOf(rec)]
           n == LinesOf(rec)
           ss == PrintedOf(rec)
<1>1. end.lines \in 1 .. MaxLines /\ end.ended \in BOOLEAN
  BY FileOfIs
<1>2. MaxLines \in Nat
  BY OutputAssumption
<1>3. n \in Nat /\ n >= end.lines /\ n > 0
  <2> HIDE DEF end
  <2>1. n = end.lines + (IF end.ended THEN 1 ELSE 0)
    BY DEF LinesOf, end
  <2> QED BY <1>1, <1>2, <2>1
<1>4. ss = [line \in 1 .. n |-> ListOf(rec, line)]
  BY DEF PrintedOf
<1>5. ListFile(rec) = FlattenSeq(ss)
  BY DEF ListFile, PrintedOf, LinesOf
<1> HIDE DEF n, ss
<1>6. \A line \in 1 .. n :
        /\ ss[line] \in Seq(PrintedLine) /\ ss[line] # <<>> /\ ss[line][1].line = line
        /\ \A j \in 2 .. Len(ss[line]) : ss[line][j].line = 0
  <2> TAKE line \in 1 .. n
  <2>1. line \in Nat \ {0} /\ ss[line] = ListOf(rec, line)
    BY <1>3, <1>4
  <2>2. /\ ListOf(rec, line) \in Seq(PrintedLine) /\ ListOf(rec, line) # <<>>
        /\ ListOf(rec, line)[1].line = line
        /\ \A j \in 2 .. Len(ListOf(rec, line)) : ListOf(rec, line)[j].line = 0
    BY <2>1, ListOfIs
  <2> QED BY <2>1, <2>2
<1>7. ss \in Seq(Seq(PrintedLine)) /\ Len(ss) = n /\ ss # <<>>
  <2>1. ss \in [1 .. n -> Seq(PrintedLine)]
    BY <1>4, <1>6
  <2> QED BY <1>3, <2>1
<1>8. Numbered(ss)
  <2> SUFFICES ASSUME NEW i \in 1 .. Len(ss)
               PROVE  /\ Len(ss[i]) >= 1 /\ ss[i][1].line = i
                      /\ \A j \in 2 .. Len(ss[i]) : ss[i][j].line = 0
    BY DEF Numbered
  <2> DEFINE t == ss[i]
  <2>1. i \in 1 .. n
    BY <1>7
  <2>2. t \in Seq(PrintedLine) /\ t # <<>> /\ t[1].line = i /\ \A j \in 2 .. Len(t) : t[j].line = 0
    BY <1>6, <2>1
  <2> HIDE DEF t
  <2>3. Len(t) >= 1
    <3>1. Len(t) \in Nat /\ Len(t) # 0
      BY <2>2
    <3> QED BY <3>1
  <2> QED BY <2>2, <2>3 DEF t
<1> DEFINE text == FlattenSeq(ss)
<1>9. text \in Seq(PrintedLine) /\ \E s : Laid(s, ss, text)
  BY <1>7, FlatLaid
<1> HIDE DEF text
<1>10. PICK s : Laid(s, ss, text)
  BY <1>9
<1>11. ss \in Seq(Seq(PrintedLine))
  BY <1>7
<1>12. ShowsAll(Listed(text), ss)
  BY <1>8, <1>9, <1>10, <1>11, ListedIs
<1> QED BY <1>3, <1>5, <1>7, <1>12 DEF text, n, ss

\* A word of the program is found at its address.
LEMMA FromIs ==
  ASSUME TypeInv, ImageInv, NEW rec, NEW a \in 0 .. offset - 1, NEW line \in Nat \ {0}
  PROVE  From(rec, a, line) <=>
           \E e \in ToSet(emitted) : e.file = rec /\ e.line = line /\ e.addr = a
<1>1. offset \in Int /\ offset <= MAX_PROGRAM /\ MAX_PROGRAM \in Nat
  BY ImageSize DEF TypeInv
<1>2. ASSUME From(rec, a, line)
      PROVE  \E e \in ToSet(emitted) : e.file = rec /\ e.line = line /\ e.addr = a
  <2>1. PICK b \in GetInfoFromAddr(a) : image[b].file = rec /\ image[b].line = line
    BY <1>2 DEF From
  <2>2. b \in 0 .. offset - 1 /\ image[b].addr = a
    BY DEF GetInfoFromAddr
  <2>3. b \in 0 .. MAX_PROGRAM - 1
    BY <1>1, <2>2
  <2>4. image[b] # Hole
    BY <2>1 DEF Hole, Entry
  <2>5. image[b] \in ToSet(emitted)
    BY <2>3, <2>4 DEF ImageInv
  <2> QED BY <2>1, <2>2, <2>5
<1>3. ASSUME NEW e \in ToSet(emitted), e.file = rec, e.line = line, e.addr = a
      PROVE  From(rec, a, line)
  <2>1. image[a] = e
    BY <1>3 DEF ImageInv
  <2>2. ASSUME NEW b \in 0 .. a - 1 PROVE image[b].addr # a
    <3>1. b \in 0 .. MAX_PROGRAM - 1 /\ b # a /\ a # 0
      BY <1>1, <2>2
    <3>2. CASE image[b] = Hole
      BY <3>1, <3>2 DEF Hole, Entry
    <3>3. CASE image[b] # Hole
      <4>1. image[b].addr = b
        BY <3>1, <3>3 DEF ImageInv
      <4> QED BY <3>1, <4>1
    <3> QED BY <3>2, <3>3
  <2>3. a \in GetInfoFromAddr(a)
    BY <1>3, <2>1, <2>2 DEF GetInfoFromAddr
  <2> QED BY <1>3, <2>1, <2>3 DEF From
<1> QED BY <1>2, <1>3

\* The words of a record, by the history.
Source(rec) == {<<e.line, e.addr>> : e \in {x \in ToSet(emitted) : x.file = rec}}

\* The listing of a record.
LEMMA RecordListed ==
  ASSUME TypeInv, ImageInv, offset > 0, NEW rec \in 0 .. Len(sf) - 1, NEW listed,
         listed = Listed(ListFile(rec))
  PROVE  /\ ToSet(listed) \subseteq Source(rec) /\ Len(listed) = Cardinality(ToSet(listed))
         /\ \A i, j \in DOMAIN listed : i < j => listed[i][1] <= listed[j][1]
         /\ \A w \in Source(rec) \ ToSet(listed) :
              CutShort(rec, w[1]) /\ \E v \in ToSet(listed) : v[1] = w[1]
<1> DEFINE ss == PrintedOf(rec)
           n == Len(ss)
<1>1. /\ n \in Nat /\ shape[FileOf(rec)].lines <= n /\ n = LinesOf(rec) /\ ShowsAll(listed, ss)
  BY ListFileShows
<1>2. \A i \in 1 .. n : ss[i] = ListOf(rec, i) /\ i \in Nat \ {0}
  <2> TAKE i \in 1 .. n
  <2>1. i \in 1 .. LinesOf(rec)
    BY <1>1
  <2> QED BY <2>1 DEF PrintedOf
<1> HIDE DEF ss
<1>3. /\ Len(listed) \in Nat /\ DOMAIN listed = 1 .. Len(listed)
      /\ \A x \in DOMAIN listed : IsShown(listed[x], ss)
      /\ \A x, y \in DOMAIN listed : x < y => ShownBefore(listed[x], listed[y], ss)
      /\ \A i \in 1 .. n : \A j \in 1 .. Len(ss[i]) :
           ss[i][j].addr >= 0 => <<i, ss[i][j].addr>> \in ToSet(listed)
  BY <1>1 DEF ShowsAll
<1> HIDE DEF n
<1>4. ASSUME NEW i \in 1 .. n
      PROVE  /\ ss[i] \in Seq(PrintedLine) /\ Len(ss[i]) \in Nat \ {0}
             /\ \A j \in 1 .. Len(ss[i]) :
                  ss[i][j].addr >= 0 =>
                    ss[i][j].addr \in 0 .. offset - 1 /\ From(rec, ss[i][j].addr, i)
             /\ \A j, l \in 1 .. Len(ss[i]) : j < l => ss[i][j].addr < ss[i][l].addr
             /\ \A a \in 0 .. offset - 1 :
                  From(rec, a, i) => \/ \E j \in 1 .. Len(ss[i]) : ss[i][j].addr = a
                                     \/ CutShort(rec, i) /\ ss[i][1].addr >= 0
  <2> DEFINE t == ListOf(rec, i)
  <2>1. ss[i] = t /\ i \in Nat \ {0}
    BY <1>2
  <2>2. /\ t \in Seq(PrintedLine) /\ t # <<>>
        /\ \A j \in 1 .. Len(t) :
             t[j].addr >= 0 => t[j].addr \in 0 .. offset - 1 /\ From(rec, t[j].addr, i)
        /\ \A j, l \in 1 .. Len(t) : j < l => t[j].addr < t[l].addr
        /\ \A a \in 0 .. offset - 1 :
             From(rec, a, i) => \/ \E j \in 1 .. Len(t) : t[j].addr = a
                                \/ CutShort(rec, i) /\ t[1].addr >= 0
    BY <2>1, ListOfIs
  <2> HIDE DEF t
  <2>3. Len(t) \in Nat \ {0}
    BY <2>2
  <2> QED BY <2>1, <2>2, <2>3
<1>5. ASSUME NEW w \in ToSet(listed) PROVE w \in Source(rec)
  <2>1. PICK x \in DOMAIN listed : w = listed[x]
    BY DEF ToSet
  <2>1a. IsShown(listed[x], ss)
    BY <1>3
  <2>2. PICK i \in 1 .. n : \E j \in 1 .. Len(ss[i]) :
               listed[x] = <<i, ss[i][j].addr>> /\ ss[i][j].addr >= 0
    BY <2>1a DEF IsShown, n
  <2>3. PICK j \in 1 .. Len(ss[i]) : listed[x] = <<i, ss[i][j].addr>> /\ ss[i][j].addr >= 0
    BY <2>2
  <2> DEFINE a == ss[i][j].addr
  <2>4. a \in 0 .. offset - 1 /\ From(rec, a, i)
    BY <1>4, <2>3
  <2> HIDE DEF a
  <2>5. i \in Nat \ {0}
    BY <1>2
  <2>6. PICK e \in ToSet(emitted) : e.file = rec /\ e.line = i /\ e.addr = a
    BY <2>4, <2>5, FromIs
  <2>7. w = <<i, a>>
    BY <2>1, <2>3 DEF a
  <2> QED BY <2>6, <2>7 DEF Source
<1>6. ASSUME NEW x \in DOMAIN listed, NEW y \in DOMAIN listed, x < y
      PROVE  listed[x] # listed[y] /\ listed[x][1] <= listed[y][1]
  <2>1. PICK i, k \in 1 .. n : \E j \in 1 .. Len(ss[i]), l \in 1 .. Len(ss[k]) :
               /\ listed[x] = <<i, ss[i][j].addr>> /\ listed[y] = <<k, ss[k][l].addr>>
               /\ i < k \/ (i = k /\ j < l)
    <3>1. ShownBefore(listed[x], listed[y], ss)
      BY <1>3, <1>6
    <3> QED BY <3>1 DEF ShownBefore, n
  <2>2. PICK j \in 1 .. Len(ss[i]), l \in 1 .. Len(ss[k]) :
               /\ listed[x] = <<i, ss[i][j].addr>> /\ listed[y] = <<k, ss[k][l].addr>>
               /\ i < k \/ (i = k /\ j < l)
    BY <2>1
  <2> DEFINE a == ss[i][j].addr
             b == ss[k][l].addr
  <2>3. i = k /\ j < l => a < b
    BY <1>4
  <2>4. a \in Int /\ b \in Int
    <3>1. ss[i] \in Seq(PrintedLine) /\ ss[k] \in Seq(PrintedLine)
      BY <1>4
    <3>2. ss[i][j] \in PrintedLine /\ ss[k][l] \in PrintedLine
      BY <3>1
    <3> QED BY <3>2 DEF PrintedLine
  <2> HIDE DEF a, b
  <2>5. listed[x] = <<i, a>> /\ listed[y] = <<k, b>> /\ (i < k \/ (i = k /\ a < b))
    BY <2>2, <2>3 DEF a, b
  <2>6. i \in Int /\ k \in Int
    OBVIOUS
  <2> QED BY <2>4, <2>5, <2>6
<1>7. Len(listed) = Cardinality(ToSet(listed))
  <2> DEFINE m == Len(listed)
  <2>1. m \in Nat /\ DOMAIN listed = 1 .. m
    BY <1>3
  <2>2. \A x, y \in 1 .. m : x < y => listed[x] # listed[y]
    BY <1>6, <2>1
  <2> HIDE DEF m
  <2>3. Cardinality(ToSet(listed)) = m
    BY <2>1, <2>2, Distinct
  <2> QED BY <2>3 DEF m
<1>8. ASSUME NEW w \in Source(rec) \ ToSet(listed)
      PROVE  CutShort(rec, w[1]) /\ \E v \in ToSet(listed) : v[1] = w[1]
  <2>1. PICK e \in ToSet(emitted) : e.file = rec /\ w = <<e.line, e.addr>>
    BY DEF Source
  <2> DEFINE i == e.line
             a == e.addr
  <2>2. i \in Nat \ {0} /\ a \in Nat
    BY EmittedIs
  <2>3. a < offset /\ i <= shape[FileOf(rec)].lines
    BY <2>1 DEF ImageInv
  <2>4. offset \in Int /\ shape[FileOf(rec)].lines \in Int
    <3>1. shape[FileOf(rec)].lines \in 1 .. MaxLines
      BY FileOfIs
    <3> QED BY <3>1 DEF TypeInv
  <2>5. w = <<i, a>>
    BY <2>1
  <2> HIDE DEF i, a
  <2>6. i \in 1 .. n /\ a \in 0 .. offset - 1
    BY <1>1, <2>2, <2>3, <2>4
  <2>7. From(rec, a, i)
    BY <2>1, <2>2, <2>6, FromIs DEF i, a
  <2>8. ~ \E j \in 1 .. Len(ss[i]) : ss[i][j].addr = a
    <3> SUFFICES ASSUME NEW j \in 1 .. Len(ss[i]), ss[i][j].addr = a PROVE FALSE
      OBVIOUS
    <3>0. ss[i][j].addr >= 0
      BY <2>2
    <3>1. <<i, ss[i][j].addr>> \in ToSet(listed)
      BY <1>3, <2>6, <3>0
    <3> QED BY <2>5, <3>1
  <2>9. CutShort(rec, i) /\ ss[i][1].addr >= 0 /\ 1 \in 1 .. Len(ss[i])
    BY <1>4, <2>6, <2>7, <2>8
  <2> DEFINE v == <<i, ss[i][1].addr>>
  <2>10. v \in ToSet(listed)
    BY <1>3, <2>6, <2>9
  <2>11. v[1] = i /\ w[1] = i
    BY <2>5
  <2> HIDE DEF v
  <2> QED BY <2>9, <2>10, <2>11
<1>9. \A i, j \in DOMAIN listed : i < j => listed[i][1] <= listed[j][1]
  BY <1>6
<1> QED BY <1>5, <1>7, <1>8, <1>9

\* The raw listing.
LEMMA RawListed ==
  ASSUME RawInv, New("l")
  PROVE  LET raw == disk["l"].data
             shown == Keep(raw, {x \in ToSet(raw) : x.kind = "word"})
         IN  [k \in DOMAIN shown |->
                Entry(shown[k].file, shown[k].line, shown[k].addr, shown[k].code)]
               = emitted
<1> DEFINE raw == disk["l"].data
           set == {x \in ToSet(raw) : x.kind = "word"}
<1>1. raw \in Seq(RawLine) /\ RawWords(raw) = emitted
  BY DEF RawInv
<1> HIDE DEF raw
<1>2. ASSUME NEW k \in 1 .. Len(raw) PROVE raw[k] \in RawWord <=> raw[k] \in set
  <2> DEFINE x == raw[k]
  <2>1. x \in RawLine /\ x \in ToSet(raw)
    BY <1>1 DEF ToSet
  <2> HIDE DEF x
  <2>2. x \in RawWord <=> x.kind = "word"
    BY <2>1 DEF RawWord, RawLine
  <2> QED BY <2>1, <2>2 DEF x
<1> HIDE DEF set
<1>3. Keep(raw, RawWord) = Keep(raw, set)
  BY <1>1, <1>2, KeepSame
<1> DEFINE shown == Keep(raw, set)
<1>4. RawWords(raw) = [k \in DOMAIN shown |-> Raw(shown[k])]
  BY <1>3 DEF RawWords
<1> HIDE DEF shown
<1>5. [k \in DOMAIN shown |-> Entry(shown[k].file, shown[k].line, shown[k].addr, shown[k].code)]
        = emitted
  BY <1>1, <1>4 DEF Raw
<1> QED BY <1>5 DEF shown, set, raw

LEMMA EveryWordListed == OutputInv => ListsEveryWord
<1> SUFFICES ASSUME OutputInv PROVE ListsEveryWord
  OBVIOUS
<1>1. TypeInv /\ ImageInv /\ RawInv
  BY DEF OutputInv
<1>2. ASSUME New("L"), NEW r \in DOMAIN disk["L"].data, disk["L"].data[r] # <<>>, NEW listed,
             listed = Listed(disk["L"].data[r])
      PROVE  LET from == {<<e.line, e.addr>> : e \in {x \in ToSet(emitted) : x.file = r - 1}}
             IN  /\ ToSet(listed) \subseteq from /\ Len(listed) = Cardinality(ToSet(listed))
                 /\ \A i, j \in DOMAIN listed : i < j => listed[i][1] <= listed[j][1]
                 /\ \A w \in from \ ToSet(listed) :
                      CutShort(r - 1, w[1]) /\ \E v \in ToSet(listed) : v[1] = w[1]
  <2>1. "L" \in ToSet(Images)
    BY OutputNames
  <2>2. offset > 0 /\ \E lost \in SUBSET Files : disk["L"].data = Data("L", lost)
    BY <1>2, <2>1 DEF OutputInv, StageInv
  <2>3. PICK lost \in SUBSET Files : disk["L"].data = Data("L", lost)
    BY <2>2
  <2>4. disk["L"].data = [k \in DOMAIN sf |-> IF sf[k] \in lost THEN <<>> ELSE ListFile(k - 1)]
    BY <2>3 DEF Data, Listing
  <2>5. r \in DOMAIN sf /\ disk["L"].data[r] = ListFile(r - 1)
    BY <1>2, <2>4
  <2>6. sf \in Seq(Files)
    BY <1>1 DEF TypeInv
  <2> DEFINE rec == r - 1
  <2>7. rec \in 0 .. Len(sf) - 1
    BY <2>5, <2>6
  <2>8. listed = Listed(ListFile(rec))
    BY <1>2, <2>5
  <2> HIDE DEF rec
  <2>9. /\ ToSet(listed) \subseteq Source(rec) /\ Len(listed) = Cardinality(ToSet(listed))
        /\ \A i, j \in DOMAIN listed : i < j => listed[i][1] <= listed[j][1]
        /\ \A w \in Source(rec) \ ToSet(listed) :
             CutShort(rec, w[1]) /\ \E v \in ToSet(listed) : v[1] = w[1]
    BY <1>1, <2>2, <2>7, <2>8, RecordListed
  <2> QED BY <2>9 DEF Source, rec
<1>3. New("l") =>
        LET raw == disk["l"].data
            shown == Keep(raw, {x \in ToSet(raw) : x.kind = "word"})
        IN  [k \in DOMAIN shown |->
               Entry(shown[k].file, shown[k].line, shown[k].addr, shown[k].code)]
              = emitted
  BY <1>1, RawListed
<1> QED BY <1>2, <1>3 DEF ListsEveryWord

\* The listings show every word once, at the line it was generated from
\* (pasm.c:551-584, 917-934, 1226-1297).
THEOREM ListingsShowEveryWord == OutputSpec => []ListsEveryWord
BY AlwaysOutput, EveryWordListed, PTL

=============================================================================
