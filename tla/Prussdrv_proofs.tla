---------------------------- MODULE Prussdrv_proofs ----------------------------
(***************************************************************************)
(* What is in use stays mapped, and exit closes what open has opened, for  *)
(* any number of interrupts and of opens, whichever of them fail; and the  *)
(* interrupts main sees are bounded by the answers of PRU0.                *)
(***************************************************************************)
EXTENDS Prussdrv, PruEvents, PruIntc_proofs, FiniteSetTheorems, WellFoundedInduction, TLAPS

\* The mappings that exist have been named by an open, so the next open's are new;
\* a thread exists only for an interrupt that was opened.
MapInv ==
  /\ opens \in Nat
  /\ base \in -1 .. 2 * opens /\ extram \in 0 .. 2 * opens
  /\ thread \in [Irqs -> {"none", "start", "read", "woken", "ended"}]
  /\ held \in [Irqs -> Int]
  /\ app = "up" => \A i \in Irqs : thread[i] # "none" => reported # {}
  /\ StaysMapped

LEMMA MapInit == Init => MapInv
BY DEF Init, MapInv, StaysMapped, NULL

\* Each open maps the memory once more, forgets what it had mapped before, and
\* leaves that mapped.
LEMMA OpenMaps ==
  ASSUME MapInv, NEW i \in Irqs, NEW found \in BOOLEAN, NEW sysfs \in Sysfs,
         PrussdrvOpen(i, found, sysfs)
  PROVE  MapInv'
<1>1. /\ app = "up" /\ opens' = opens + 1
      /\ UNCHANGED <<thread, held, pointers>>
  BY DEF PrussdrvOpen, threads
<1>2. CASE fd[i] # 0
  <2>1. UNCHANGED <<app, base, extram, reported, maps>>
    BY <1>2 DEF PrussdrvOpen, driver
  <2> QED BY <1>1, <2>1 DEF MapInv, StaysMapped
<1>3. CASE fd[i] = 0
  <2>1. PICK mapped \in BOOLEAN, good \in BOOLEAN :
          /\ app' = IF mapped /\ ~good THEN "dead" ELSE app
          /\ good => mapped
          /\ base' = CASE good -> 2 * opens + 1
                       [] mapped /\ ~good -> MAP_FAILED
                       [] OTHER -> base
          /\ extram' = IF good /\ sysfs = "ok" THEN 2 * opens + 2 ELSE extram
          /\ maps' = maps \union ({base', extram'} \ {base, extram, MAP_FAILED})
          /\ reported' = IF good /\ sysfs = "ok" THEN reported \union {i} ELSE reported
    <3> DEFINE fds == [fd EXCEPT ![i] = IF found THEN FreeFd ELSE -1]
               mfd == MmapFd(fds)
               mapped == mfd # 0 /\ sysfs # "fails early"
               good == mapped /\ mfd \in files'
    <3>1. /\ app' = IF mapped /\ ~good THEN "dead" ELSE app
          /\ base' = CASE good -> 2 * opens + 1
                       [] mapped /\ ~good -> MAP_FAILED
                       [] OTHER -> base
          /\ extram' = IF good /\ sysfs = "ok" THEN 2 * opens + 2 ELSE extram
          /\ maps' = maps \union ({base', extram'} \ {base, extram, MAP_FAILED})
          /\ reported' = IF good /\ sysfs = "ok" THEN reported \union {i} ELSE reported
      BY <1>3 DEF PrussdrvOpen
    <3>2. good => mapped
      OBVIOUS
    <3>3. mapped \in BOOLEAN /\ good \in BOOLEAN
      OBVIOUS
    <3> HIDE DEF mapped, good
    <3> QED BY <3>1, <3>2, <3>3
  <2>2. CASE good
    <3>1. base' = 2 * opens + 1 /\ app' = "up"
      BY <2>1, <2>2, <1>1
    <3>2. extram' \in {extram, 2 * opens + 2} /\ (sysfs # "ok" => extram' = extram)
      BY <2>1
    <3>3. base' # base /\ base' # extram /\ base' # MAP_FAILED
      BY <3>1 DEF MapInv, MAP_FAILED
    <3>4. {base', extram'} \subseteq maps' \/ reported' = {}
      <4>1. CASE sysfs = "ok"
        BY <2>1, <2>2, <3>1, <3>3, <4>1 DEF MapInv, MAP_FAILED
      <4>2. CASE sysfs # "ok"
        BY <2>1, <3>2, <3>3, <4>2, <1>1 DEF MapInv, StaysMapped
      <4> QED BY <4>1, <4>2
    <3>5. reported \subseteq reported' /\ maps \subseteq maps'
      BY <2>1
    <3> QED BY <1>1, <3>1, <3>2, <3>4, <3>5 DEF MapInv, StaysMapped
  <2>3. CASE ~good /\ mapped
    <3>1. app' = "dead" /\ base' = -1 /\ extram' = extram
      BY <2>1, <2>3 DEF MAP_FAILED
    <3> QED BY <1>1, <3>1 DEF MapInv, StaysMapped
  <2>4. CASE ~good /\ ~mapped
    <3>1. app' = "up" /\ UNCHANGED <<base, extram, reported>> /\ maps \subseteq maps'
      BY <2>1, <2>4, <1>1
    <3> QED BY <1>1, <3>1 DEF MapInv, StaysMapped
  <2> QED BY <2>1, <2>2, <2>3, <2>4
<1> QED BY <1>2, <1>3

LEMMA MapNext == MapInv /\ [Next]_vars => MapInv'
<1> SUFFICES ASSUME MapInv, [Next]_vars PROVE MapInv'
  OBVIOUS
<1>1. CASE PrussdrvInit
  BY <1>1 DEF PrussdrvInit, Memset, MapInv, StaysMapped, NULL
<1>2. CASE Exit \/ Close \/ Join
  <2>1. app' # "up" /\ UNCHANGED <<opens, base, extram, thread, held>>
    BY <1>2 DEF Exit, Close, Join, driver, process, threads
  <2> QED BY <2>1 DEF MapInv, StaysMapped
<1>3. CASE MapMem
  BY <1>3 DEF MapMem, driver, threads, loop, MapInv, StaysMapped
<1>4. CASE OwnOpen \/ OwnClose
  <2>1. UNCHANGED <<app, driver, maps, opens, pointers, threads>>
    BY <1>4 DEF OwnOpen, OwnClose
  <2> QED BY <2>1 DEF MapInv, StaysMapped, driver, threads
<1>5. CASE \E i \in Irqs, found \in BOOLEAN, sysfs \in Sysfs : PrussdrvOpen(i, found, sysfs)
  BY <1>5, OpenMaps
<1>6. CASE \E i \in Irqs : StartIrqthread(i) \/ WaitEvent(i) \/ Event(i) \/ Reenable(i)
  <2>1. PICK i \in Irqs : StartIrqthread(i) \/ WaitEvent(i) \/ Event(i) \/ Reenable(i)
    BY <1>6
  <2>2. UNCHANGED <<base, extram, reported, maps, opens, pointers>> /\ app' \in {app, "killed"}
    BY <2>1 DEF StartIrqthread, WaitEvent, Event, Reenable, driver, process
  <2>3. CASE StartIrqthread(i)
    BY <2>2, <2>3 DEF StartIrqthread, MapInv, StaysMapped
  <2>4. CASE WaitEvent(i)
    BY <2>2, <2>4 DEF WaitEvent, MapInv, StaysMapped
  <2>5. CASE Event(i)
    BY <2>2, <2>5 DEF Event, MapInv, StaysMapped
  <2>6. CASE Reenable(i)
    BY <2>2, <2>6 DEF Reenable, threads, MapInv, StaysMapped
  <2> QED BY <2>1, <2>3, <2>4, <2>5, <2>6
<1>7. CASE UNCHANGED vars
  BY <1>7 DEF vars, driver, process, threads, MapInv, StaysMapped
<1> QED BY <1>1, <1>2, <1>3, <1>4, <1>5, <1>6, <1>7 DEF Next

\* Between an open that returned 0 and exit, what the driver, its threads and the
\* application work with stays mapped (prussdrv.c:60-237, 424-426, 457-482).
THEOREM UsedIsMapped == Spec => []StaysMapped
<1>1. MapInv => StaysMapped
  BY DEF MapInv
<1> QED BY MapInit, MapNext, <1>1, PTL DEF Spec

-----------------------------------------------------------------------------
(* Descriptors.                                                            *)

\* The least element of a finite set of numbers: the sets of smaller elements are
\* ordered by inclusion, and a least one of those belongs to a least element.
LEMMA MinIs ==
  ASSUME NEW S \in SUBSET Nat, IsFiniteSet(S), S # {}
  PROVE  Min(S) \in S /\ \A x \in S : Min(S) <= x
<1> DEFINE Below(x) == {y \in S : y < x}
           T == {Below(x) : x \in S}
<1>1. T \subseteq FiniteSubsetsOf(S) /\ T # {}
  <2>1. \A x \in S : Below(x) \in SUBSET S
    OBVIOUS
  <2>2. \A x \in S : IsFiniteSet(Below(x))
    BY <2>1, FS_Subset, Zenon
  <2>3. \A x \in S : Below(x) \in FiniteSubsetsOf(S)
    BY <2>1, <2>2, Zenon DEF FiniteSubsetsOf
  <2>4. T # {}
    OBVIOUS
  <2> HIDE DEF Below
  <2> QED BY <2>3, <2>4
<1>2. PICK t \in T : \A u \in T : <<u, t>> \notin StrictSubsetOrdering(S)
  BY <1>1, FS_StrictSubsetOrderingWellFounded, WFMin, Zenon
<1>3. PICK x \in S : t = Below(x)
  OBVIOUS
<1>4. ASSUME NEW y \in S, y < x PROVE FALSE
  <2>1. Below(y) \subseteq Below(x) /\ y \in Below(x) /\ y \notin Below(y)
    <3>1. x \in Nat /\ y \in Nat
      OBVIOUS
    <3>2. \A z \in S : z < y => z < x
      BY <3>1, <1>4
    <3>3. Below(y) \subseteq Below(x)
      BY <3>2
    <3>4. y \in Below(x) /\ y \notin Below(y)
      BY <3>1, <1>4
    <3> QED BY <3>3, <3>4
  <2>2. <<Below(y), Below(x)>> \in StrictSubsetOrdering(S)
    <3>1. Below(y) \in SUBSET S /\ Below(x) \in SUBSET S
      OBVIOUS
    <3> HIDE DEF Below
    <3> QED BY <2>1, <3>1 DEF StrictSubsetOrdering
  <2>3. Below(y) \in T
    OBVIOUS
  <2> HIDE DEF T, Below
  <2> QED BY <2>2, <2>3, <1>2, <1>3
<1>5. \A y \in S : x <= y
  BY <1>4
<1>6. \E z \in S : \A y \in S : z <= y
  BY <1>5
<1> QED BY <1>6 DEF Min

\* What the driver's fields hold.
Fds == {fd[i] : i \in Irqs}

\* The descriptors that are the driver's: open has opened them and exit has not yet
\* closed them.
Pending == {i \in Irqs : fd[i] > 0 /\ (app = "exiting" => i > next \/ (i = next /\ ~closed))}

\* The open descriptors are the application's and the pending ones, none of them twice.
FilesInv ==
  /\ app \in {"new", "up", "exiting", "exited", "dead", "killed"}
  /\ fd \in [Irqs -> Nat \union {-1}]
  /\ own \subseteq Nat /\ IsFiniteSet(own) /\ Cardinality(own) <= MaxOwn
  /\ app = "exiting" => next \in Irqs /\ closed \in BOOLEAN
  /\ app \in {"new", "exited"} => files = own
  /\ app \in {"up", "exiting"} =>
       /\ files = own \union {fd[i] : i \in Pending}
       /\ \A i \in Pending : fd[i] \notin own
       /\ \A i, j \in Pending : fd[i] = fd[j] => i = j

\* The interrupts are the indices of an array of NUM_PRU_HOSTIRQS.
LEMMA Indices == \E n \in Nat \ {0} : Irqs = 0 .. n - 1
<1>1. Cardinality(Irqs) \in Nat /\ Cardinality(Irqs) # 0
  BY PrussdrvAssumption, FS_CardinalityType, FS_EmptySet
<1> QED BY <1>1, PrussdrvAssumption

LEMMA IrqsFinite == IsFiniteSet(Irqs) /\ Cardinality(Irqs) \in Nat /\ Irqs \subseteq Nat
<1>1. PICK n \in Nat \ {0} : Irqs = 0 .. n - 1
  BY Indices
<1> QED BY <1>1, FS_Interval, FS_CardinalityType

LEMMA FewFds ==
  IsFiniteSet(Fds) /\ Cardinality(Fds) \in Nat /\ Cardinality(Fds) <= Cardinality(Irqs)
<1> DEFINE f == [i \in Irqs |-> fd[i]]
<1>1. f \in Surjection(Irqs, Fds)
  BY DEF Surjection, Fds
<1> QED BY <1>1, IrqsFinite, FS_Surjection, FS_CardinalityType

LEMMA FilesInit == Init => FilesInv
BY FS_EmptySet, PrussdrvAssumption DEF Init, FilesInv

\* The kernel has a number to give: no more are in use than the application may open
\* and the driver has fields for.
LEMMA FreeIsFree ==
  ASSUME FilesInv, app \notin {"dead", "killed"}
  PROVE  FreeFd \in Nat \ files /\ FreeFd >= FirstFd
<1> DEFINE N == Cardinality(Irqs) + MaxOwn
           Range0 == FirstFd .. FirstFd + Cardinality(Irqs) + MaxOwn
           Free == Range0 \ files
<1>1. N \in Nat /\ FirstFd \in Nat
  BY IrqsFinite, PrussdrvAssumption
<1>2. IsFiniteSet(Range0) /\ Cardinality(Range0) = N + 1
  <2>1. Range0 = FirstFd .. FirstFd + N
    BY IrqsFinite, PrussdrvAssumption
  <2> QED BY <2>1, <1>1, FS_Interval
<1>3. IsFiniteSet(own \union Fds) /\ Cardinality(own \union Fds) <= N
  <2>1. /\ IsFiniteSet(own \union Fds)
        /\ Cardinality(own \union Fds) =
             Cardinality(own) + Cardinality(Fds) - Cardinality(own \intersect Fds)
    BY FS_Union, FewFds DEF FilesInv
  <2>2. IsFiniteSet(own \intersect Fds)
    BY FS_Subset, FewFds
  <2>3. Cardinality(own \intersect Fds) \in Nat /\ Cardinality(own) \in Nat
    BY <2>2, FS_CardinalityType DEF FilesInv
  <2> QED BY <2>1, <2>3, FewFds, IrqsFinite, PrussdrvAssumption DEF FilesInv
<1>4. files \subseteq own \union Fds
  BY DEF FilesInv, Fds, Pending
<1>5. Free # {}
  <2> HIDE DEF Range0, N
  <2>1. SUFFICES ASSUME Range0 \subseteq own \union Fds PROVE FALSE
    BY <1>4
  <2>2. Cardinality(Range0) <= Cardinality(own \union Fds)
    BY <2>1, <1>3, FS_Subset, Zenon
  <2>3. Cardinality(own \union Fds) \in Nat
    BY <1>3, FS_CardinalityType
  <2> QED BY <2>2, <2>3, <1>1, <1>2, <1>3
<1>6. Free \subseteq Nat /\ IsFiniteSet(Free)
  <2>1. Range0 \subseteq Nat
    BY <1>1, IrqsFinite, PrussdrvAssumption
  <2>2. Free \in SUBSET Range0
    OBVIOUS
  <2> HIDE DEF Free, Range0
  <2> QED BY <1>2, <2>1, <2>2, FS_Subset
<1>7. FreeFd = Min(Free)
  BY Zenon DEF FreeFd
<1>8. Min(Free) \in Free
  BY <1>5, <1>6, MinIs, Zenon
<1> QED BY <1>1, <1>7, <1>8


\* A descriptor that open() returned joins the pending ones; -1 does not.  The number 0
\* would not either: the driver takes it for "not open".
LEMMA OpenFiles ==
  ASSUME FilesInv, FirstFd > 0, NEW i \in Irqs, NEW found \in BOOLEAN, NEW sysfs \in Sysfs,
         PrussdrvOpen(i, found, sysfs)
  PROVE  FilesInv'
<1>1. app = "up" /\ app' \in {"up", "dead"} /\ UNCHANGED <<own, next, closed>>
  BY DEF PrussdrvOpen, loop
<1>2. CASE fd[i] # 0
  <2>1. UNCHANGED <<app, fd, files>>
    BY <1>2 DEF PrussdrvOpen, driver
  <2> QED BY <1>1, <2>1 DEF FilesInv, Pending
<1>3. CASE fd[i] = 0
  <2>1. /\ fd' = [fd EXCEPT ![i] = IF found THEN FreeFd ELSE -1]
        /\ files' = IF found THEN files \union {FreeFd} ELSE files
    BY <1>3 DEF PrussdrvOpen
  <2>2. FreeFd \in Nat \ files /\ FreeFd > 0
    BY <1>1, FreeIsFree, PrussdrvAssumption
  <2>3. i \notin Pending /\ \A j \in Irqs : fd[j] \in Int
    BY <1>3 DEF Pending, FilesInv
  <2>4. fd' \in [Irqs -> Nat \union {-1}] /\ \A j \in Irqs \ {i} : fd'[j] = fd[j]
    BY <2>1, <2>2 DEF FilesInv
  <2>5. CASE found
    <3>1. fd'[i] = FreeFd /\ Pending' = Pending \union {i}
      BY <1>1, <2>1, <2>2, <2>3, <2>4, <2>5 DEF Pending, FilesInv
    <3>2. \A j \in Pending : fd'[j] = fd[j] /\ fd[j] \in files /\ fd[j] # FreeFd
      BY <2>2, <2>3, <2>4, <1>1 DEF FilesInv, Pending
    <3>3. files' = own \union {fd'[j] : j \in Pending'}
      BY <1>1, <2>1, <2>5, <3>1, <3>2 DEF FilesInv
    <3> QED BY <1>1, <2>2, <2>3, <2>4, <3>1, <3>2, <3>3 DEF FilesInv
  <2>6. CASE ~found
    <3>1. fd'[i] = -1 /\ Pending' = Pending
      BY <1>1, <2>1, <2>2, <2>3, <2>4, <2>6 DEF Pending, FilesInv
    <3>2. \A j \in Pending : fd'[j] = fd[j]
      BY <2>3, <2>4 DEF Pending
    <3> QED BY <1>1, <2>1, <2>4, <2>6, <3>1, <3>2 DEF FilesInv
  <2> QED BY <2>5, <2>6
<1> QED BY <1>2, <1>3

LEMMA OwnFiles == ASSUME FilesInv, FirstFd > 0, OwnOpen PROVE FilesInv'
<1>1. /\ app \notin {"dead", "killed"} /\ Cardinality(own) < MaxOwn
      /\ own' = own \union {FreeFd} /\ files' = files \union {FreeFd}
      /\ UNCHANGED <<app, fd, next, closed>>
  BY DEF OwnOpen, driver, loop
<1>2. FreeFd \in Nat \ files
  BY <1>1, FreeIsFree
<1>3. /\ own' \subseteq Nat /\ IsFiniteSet(own') /\ Cardinality(own') <= MaxOwn
  <2>1. own \subseteq Nat /\ IsFiniteSet(own)
    BY DEF FilesInv
  <2>2. /\ IsFiniteSet(own')
        /\ Cardinality(own') = IF FreeFd \in own THEN Cardinality(own) ELSE Cardinality(own) + 1
    BY <1>1, <2>1, FS_AddElement
  <2>3. Cardinality(own) \in Nat
    BY <2>1, FS_CardinalityType
  <2> HIDE DEF FreeFd
  <2> QED BY <1>1, <1>2, <2>1, <2>2, <2>3, PrussdrvAssumption
<1>4. Pending' = Pending
  BY <1>1 DEF Pending
<1>5. app \in {"up", "exiting"} => \A i \in Pending : fd[i] \in files
  BY DEF FilesInv
<1> QED BY <1>1, <1>2, <1>3, <1>4, <1>5 DEF FilesInv

\* prussdrv_exit goes up through the interrupts.
LEMMA Loops ==
  /\ Min(Irqs) \in Irqs /\ \A i \in Irqs : Min(Irqs) <= i
  /\ Max(Irqs) \in Irqs /\ \A i \in Irqs : i <= Max(Irqs)
  /\ \A n \in Irqs : n # Max(Irqs) =>
       LET m == Min({i \in Irqs : i > n})
       IN m \in Irqs /\ \A i \in Irqs : i > n <=> i >= m
<1>1. PICK n \in Nat \ {0} : Irqs = 0 .. n - 1
  BY Indices
<1>2. Irqs \subseteq Nat /\ IsFiniteSet(Irqs)
  BY IrqsFinite
<1>3. Min(Irqs) \in Irqs /\ \A i \in Irqs : Min(Irqs) <= i
  <2>1. Irqs # {}
    BY <1>1
  <2> QED BY <1>2, <2>1, MinIs, Zenon
<1>4. \E x \in Irqs : \A y \in Irqs : x >= y
  <2>1. n - 1 \in Irqs /\ \A y \in Irqs : n - 1 >= y
    BY <1>1
  <2> QED BY <2>1
<1>5. Max(Irqs) \in Irqs /\ \A i \in Irqs : Max(Irqs) >= i
  BY <1>4 DEF Max
<1>6. ASSUME NEW k \in Irqs, k # Max(Irqs)
      PROVE  LET m == Min({i \in Irqs : i > k})
             IN m \in Irqs /\ \A i \in Irqs : i > k <=> i >= m
  <2> DEFINE S == {i \in Irqs : i > k}
  <2>1. S \in SUBSET Nat /\ IsFiniteSet(S)
    BY <1>2, FS_Subset
  <2>2. Max(Irqs) \in S
    <3>1. Max(Irqs) \in Nat /\ k \in Nat /\ Max(Irqs) >= k
      BY <1>2, <1>5
    <3>2. Max(Irqs) > k
      BY <3>1, <1>6
    <3> QED BY <1>5, <3>2
  <2>3. Min(S) \in S /\ \A x \in S : Min(S) <= x
    BY <2>1, <2>2, MinIs
  <2>4. \A i \in S : i \in Irqs /\ i > k
    OBVIOUS
  <2>5. \A i \in Irqs : i > k => i \in S
    OBVIOUS
  <2> HIDE DEF S
  <2>6. Min(S) \in Irqs /\ \A i \in Irqs : i > k <=> i >= Min(S)
    <3>1. Min(S) \in Irqs /\ Min(S) > k
      BY <2>3, <2>4
    <3>2. Min(S) \in Nat /\ k \in Nat
      BY <3>1, <1>2
    <3>3. \A i \in Irqs : i > k => i >= Min(S)
      BY <2>3, <2>5, <3>2, <1>2
    <3>4. \A i \in Irqs : i >= Min(S) => i > k
      BY <3>1, <3>2, <1>2
    <3> QED BY <3>1, <3>3, <3>4
  <2> QED BY <2>6 DEF S
<1> QED BY <1>2, <1>3, <1>5, <1>6

LEMMA FilesNext ==
  ASSUME FilesInv, FirstFd > 0, [Next]_vars PROVE FilesInv'
<1>1. CASE PrussdrvInit
  <2>1. /\ app' = "up" /\ files = own /\ fd' = [i \in Irqs |-> 0]
        /\ UNCHANGED <<files, own, next, closed>>
    BY <1>1 DEF PrussdrvInit, Memset, FilesInv, loop
  <2>2. Pending' = {}
    BY <2>1 DEF Pending
  <2> QED BY <2>1, <2>2 DEF FilesInv
<1>2. CASE Exit
  <2>1. /\ app = "up" /\ app' = "exiting" /\ next' = Min(Irqs) /\ closed' = FALSE
        /\ UNCHANGED <<fd, files, own>>
    BY <1>2 DEF Exit, driver
  <2>2. next' \in Irqs /\ \A i \in Irqs : i > next' \/ i = next'
    <3>1. next' \in Irqs /\ \A i \in Irqs : next' <= i
      BY <2>1, Loops, Zenon
    <3> QED BY <3>1, IrqsFinite
  <2>3. Pending' = Pending
    BY <2>1, <2>2 DEF Pending
  <2> QED BY <2>1, <2>2, <2>3 DEF FilesInv
<1>3. CASE Close
  <2>1. /\ app = "exiting" /\ ~closed /\ closed' = TRUE
        /\ files' = IF fd[next] = 0 THEN files ELSE files \ {fd[next]}
        /\ own' = own \intersect files'
        /\ UNCHANGED <<app, fd, next>>
    BY <1>3 DEF Close, driver
  <2>2. next \in Irqs /\ fd[next] \in Nat \union {-1} /\ next \in Nat
    BY <2>1, IrqsFinite DEF FilesInv
  <2>3. Pending' = Pending \ {next} /\ (fd[next] > 0 <=> next \in Pending)
    BY <2>1, <2>2, IrqsFinite DEF Pending
  <2>4. files' = own \union {fd[i] : i \in Pending \ {next}}
    <3>1. CASE fd[next] > 0
      BY <2>1, <2>2, <2>3, <3>1 DEF FilesInv
    <3>2. CASE ~(fd[next] > 0)
      <4>1. fd[next] \notin files \/ fd[next] = 0
        BY <2>1, <2>2, <3>2 DEF FilesInv, Pending
      <4> QED BY <2>1, <2>2, <2>3, <3>2, <4>1 DEF FilesInv
    <3> QED BY <3>1, <3>2
  <2>5. own' = own
    BY <2>1, <2>4
  <2>6. /\ files' = own' \union {fd'[i] : i \in Pending'}
        /\ \A i \in Pending' : fd'[i] \notin own'
        /\ \A i, j \in Pending' : fd'[i] = fd'[j] => i = j
    BY <2>1, <2>3, <2>4, <2>5 DEF FilesInv
  <2>7. app' = "exiting" /\ fd' = fd /\ next' \in Irqs /\ closed' \in BOOLEAN
    BY <2>1, <2>2
  <2> QED BY <2>5, <2>6, <2>7 DEF FilesInv
<1>4. CASE Join
  <2>1. /\ app = "exiting" /\ closed /\ closed' = FALSE
        /\ UNCHANGED <<fd, files, own>>
        /\ IF next = Max(Irqs) THEN app' = "exited"
           ELSE app' = app /\ next' = Min({i \in Irqs : i > next})
    BY <1>4 DEF Join, driver, process
  <2>2. next \in Irqs
    BY <2>1 DEF FilesInv
  <2>3. CASE next = Max(Irqs)
    <3>1. \A i \in Irqs : ~(i > next) /\ ~(i = next /\ ~closed)
      BY <2>1, <2>2, <2>3, Loops, IrqsFinite
    <3>2. Pending = {}
      BY <2>1, <3>1 DEF Pending
    <3> QED BY <2>1, <2>3, <3>2 DEF FilesInv
  <2>4. CASE next # Max(Irqs)
    <3>1. next' \in Irqs /\ \A i \in Irqs : i > next <=> i >= next'
      BY <2>1, <2>2, <2>4, Loops
    <3>2. \A i \in Irqs : (i > next' \/ i = next') <=> i > next
      BY <2>2, <3>1, IrqsFinite
    <3>3. \A i \in Irqs :
            (i > next' \/ (i = next' /\ ~closed')) <=> (i > next \/ (i = next /\ ~closed))
      BY <2>1, <3>2
    <3>4. app' = app /\ fd' = fd
      BY <2>1, <2>4
    <3>5. Pending' = Pending
      BY <3>3, <3>4 DEF Pending
    <3>6. closed' \in BOOLEAN /\ files' = files /\ own' = own
      BY <2>1
    <3> QED BY <3>1, <3>4, <3>5, <3>6 DEF FilesInv
  <2> QED BY <2>3, <2>4
<1>5. CASE OwnOpen
  BY <1>5, OwnFiles
<1>6. CASE OwnClose
  <2>1. PICK f \in own : own' = own \ {f} /\ files' = files \ {f}
    BY <1>6 DEF OwnClose
  <2>2. UNCHANGED <<app, fd, next, closed>> /\ Pending' = Pending
    BY <1>6 DEF OwnClose, driver, loop, Pending
  <2>3. own' \subseteq Nat /\ IsFiniteSet(own') /\ Cardinality(own') <= MaxOwn
    <3>1. own \subseteq Nat /\ IsFiniteSet(own) /\ Cardinality(own) <= MaxOwn
      BY DEF FilesInv
    <3>2. IsFiniteSet(own') /\ Cardinality(own') = Cardinality(own) - 1
      BY <2>1, <3>1, FS_RemoveElement
    <3>3. Cardinality(own) \in Nat
      BY <3>1, FS_CardinalityType
    <3> QED BY <2>1, <3>1, <3>2, <3>3, PrussdrvAssumption
  <2> QED BY <2>1, <2>2, <2>3 DEF FilesInv
<1>7. CASE \E i \in Irqs, found \in BOOLEAN, sysfs \in Sysfs : PrussdrvOpen(i, found, sysfs)
  BY <1>7, OpenFiles
<1>8. CASE \/ MapMem \/ UNCHANGED vars
           \/ \E i \in Irqs : StartIrqthread(i) \/ WaitEvent(i) \/ Event(i) \/ Reenable(i)
  <2>1. app' \in {app, "killed"} /\ UNCHANGED <<fd, files, own, next, closed>>
    BY <1>8 DEF MapMem, StartIrqthread, WaitEvent, Event, Reenable, driver, process, loop, vars
  <2>2. app' = app => Pending' = Pending
    BY <2>1 DEF Pending
  <2> QED BY <2>1, <2>2 DEF FilesInv
<1> QED BY <1>1, <1>2, <1>3, <1>4, <1>5, <1>6, <1>7, <1>8 DEF Next

\* exit closes every descriptor that open has opened (prussdrv.c:581-583) and none that
\* the application has, in a process whose standard input is open: a descriptor 0 the
\* driver would take for "not open" and never close.
THEOREM ExitKeepsFiles == ASSUME FirstFd > 0 PROVE Spec => ExitClosesItsOwn
<1> DEFINE Tidy == /\ own \subseteq own' \/ OwnClose
                   /\ app' = "exited" => files = own
<1>1. ASSUME FilesInv, [Next]_vars
      PROVE  [app = "exiting" => Tidy]_vars
  <2>1. SUFFICES ASSUME app = "exiting", Next PROVE Tidy
    BY <1>1
  <2>2. CASE Close
    <3>1. /\ app' = "exiting" /\ ~closed /\ own' = own \intersect files'
          /\ files' = IF fd[next] = 0 THEN files ELSE files \ {fd[next]}
      BY <2>1, <2>2 DEF Close
    <3>2. own \subseteq files /\ next \in Irqs /\ fd[next] \in Nat \union {-1}
      BY <1>1, <2>1 DEF FilesInv
    <3>3. fd[next] > 0 => next \in Pending
      BY <2>1, <3>1, <3>2 DEF Pending
    <3>4. fd[next] # 0 => fd[next] \notin own
      BY <1>1, <2>1, <3>2, <3>3 DEF FilesInv
    <3> QED BY <3>1, <3>2, <3>4
  <2>3. CASE Join
    <3>1. own' = own /\ closed /\ (app' = "exited" => next = Max(Irqs))
      BY <2>1, <2>3 DEF Join, process
    <3>2. next \in Irqs
      BY <1>1, <2>1 DEF FilesInv
    <3>3. ASSUME next = Max(Irqs) PROVE files = own
      <4>1. \A i \in Irqs : ~(i > next) /\ ~(i = next /\ ~closed)
        BY <3>1, <3>2, <3>3, Loops, IrqsFinite
      <4>2. Pending = {}
        BY <2>1, <4>1 DEF Pending
      <4> QED BY <1>1, <2>1, <4>2 DEF FilesInv
    <3> QED BY <3>1, <3>3
  <2>4. CASE OwnOpen \/ OwnClose
    <3>1. app' = "exiting"
      BY <2>1, <2>4 DEF OwnOpen, OwnClose
    <3> QED BY <2>4, <3>1 DEF OwnOpen
  <2>5. CASE \E i \in Irqs : StartIrqthread(i) \/ WaitEvent(i) \/ Event(i) \/ Reenable(i)
    <3>1. own' = own /\ app' # "exited"
      BY <2>1, <2>5 DEF StartIrqthread, WaitEvent, Event, Reenable, process
    <3> QED BY <3>1
  <2> QED BY <2>1, <2>2, <2>3, <2>4, <2>5 DEF Next, PrussdrvInit, Exit, MapMem, PrussdrvOpen
<1>2. FilesInv /\ [Next]_vars => FilesInv'
  BY FilesNext
<1> QED BY FilesInit, <1>1, <1>2, PTL DEF Spec, ExitClosesItsOwn

-----------------------------------------------------------------------------
(* The event calls: PruEvents.  An interrupt is counted ahead of its time: *)
(* Room is what the pending answer may still cost, one for the host that   *)
(* is on and one for the enable that main has yet to write before it       *)
(* clears.                                                                 *)
USE RoundsAssumption

\* Interrupts of EVTOUT0 that the events pending now may still raise.
Room ==
  IF "pru0_arm" \in raw
  THEN (IF EVTOUT0 \in hostOn THEN 1 ELSE 0) + (IF main = "clear" THEN 0 ELSE 1)
  ELSE 0

Starting == main \in {"open", "init", "exec"}

EventsType ==
  /\ Routing
  /\ raw \subseteq Events /\ irqs \in [ArmHosts -> Nat]
  /\ main \in {"open", "init", "exec", "send", "wait", "enable", "clear", "done"}
  /\ seen \in Nat /\ answers \in Nat /\ wakes \in Nat

\* Until the program starts PRU0, nothing has been counted: an answer left over
\* does not reach a host that is on before the write that clears it.
BeforeExec ==
  /\ main = "open" => step = 1
  /\ main = "init" => step \in 1 .. 19
  /\ main = "exec" => step = 20
  /\ Starting => irqs[EVTOUT0] = 0 /\ seen = 0 /\ answers = 0 /\ wakes = 0 /\ pru = "off"
  /\ Starting /\ step <= Clearing /\ EVTOUT0 \in hostOn => "pru0_arm" \notin raw
  /\ Starting /\ step > Clearing => raw = {}

Counted ==
  /\ ~Starting => irqs[EVTOUT0] + Room <= 2 * answers
  /\ wakes <= seen /\ seen <= irqs[EVTOUT0]

EventsInv == EventsType /\ BeforeExec /\ Counted

-----------------------------------------------------------------------------
LEMMA HostFacts == EVTOUT0 \in ArmHosts /\ EVTOUT0 # EVTOUT1 /\ ArmHosts = {EVTOUT0, EVTOUT1}
<1>1. 0 \notin Two /\ 0 \in Three
  BY DEF Two, Three
<1> QED BY <1>1 DEF ArmHosts, EVTOUT0, EVTOUT1

LEMMA RoomType == Room \in {0, 1, 2}
BY DEF Room

LEMMA EventsInit == RoundsInit => EventsInv
<1> SUFFICES ASSUME RoundsInit PROVE EventsInv
  OBVIOUS
<1>1. Routing
  BY RoutingInit DEF RoundsInit, IntcInit
<1>2. irqs = [h \in ArmHosts |-> 0] /\ irqs[EVTOUT0] = 0
  BY HostFacts DEF RoundsInit, IntcInit
<1>3. raw \subseteq Events
  BY DEF RoundsInit, IntcInit, Events
<1>4. EVTOUT0 \in hostOn => "pru0_arm" \notin raw
  <2>1. CASE AfterReset
    BY <2>1 DEF AfterReset
  <2>2. CASE LeftOver
    <3>1. "pru0_arm" \in Events /\ Routed("pru0_arm", EVTOUT0)
      <4>1. SysevtMap[3] = <<"pru0_arm", Two>> /\ 3 \in DOMAIN SysevtMap
        BY DEF SysevtMap
      <4> QED BY <4>1 DEF Events, Routed, EVTOUT0
    <3>2. MappedTo("pru0_arm") = EVTOUT0 /\ EVTOUT0 \in Numbers
      <4>1. \A n \in Numbers : Routed("pru0_arm", n) <=> n = EVTOUT0
        BY <3>1, RoutedType
      <4>2. EVTOUT0 \in Numbers
        BY <3>1, RoutedType
      <4> QED BY <4>1, <4>2 DEF MappedTo, Routed
    <3>3. hmr[cmr["pru0_arm"]] = EVTOUT0
      BY <2>2, <3>1, <3>2 DEF LeftOver
    <3>4. ~Raised(EVTOUT0)
      BY <2>2, HostFacts DEF LeftOver
    <3> QED BY <2>2, <3>1, <3>3, <3>4 DEF LeftOver, Raised
  <2> QED BY <2>1, <2>2 DEF RoundsInit, IntcInit
<1> QED BY <1>1, <1>2, <1>3, <1>4
        DEF RoundsInit, EventsInv, EventsType, BeforeExec, Counted, Starting, Clearing

\* The controller's registers are written before anything counts.
LEMMA WriteStep == EventsInv /\ IntcWrite => EventsInv'
<1> SUFFICES ASSUME EventsInv, IntcWrite PROVE EventsInv'
  OBVIOUS
<1> USE DEF EventsInv
<1>1. main = "init" /\ step \in 1 .. 19 /\ step' = step + 1 /\ Write(Writes[step])
  BY DEF IntcWrite, BeforeExec
<1>2. Len(Writes) = 19
  BY WritesType
<1>3. IF step = 19 THEN main' = "exec" ELSE main' = "init"
  BY <1>2 DEF IntcWrite
<1>4. irqs' = irqs /\ seen' = seen /\ answers' = answers /\ wakes' = wakes /\ pru' = pru
  BY <1>1 DEF IntcWrite, Write
<1>5. Routing'
  BY <1>1, RoutingKept DEF EventsType
<1>6. /\ Writes[step].reg = "secr" <=> step = Clearing
      /\ Writes[step].reg = "hieisr" => step > Clearing
  BY <1>1, WritesType
<1>7. /\ step = Clearing => raw' = {}
      /\ step # Clearing => raw' = raw
      /\ step <= Clearing => hostOn' = hostOn
  <2>1. raw \ Events = {}
    BY DEF EventsType
  <2>2. Clearing \in Nat
    BY DEF Clearing
  <2> QED BY <1>1, <1>6, <2>1, <2>2 DEF Write
<1>8. EventsType'
  BY <1>3, <1>4, <1>5, <1>7 DEF EventsType
<1>9. Starting /\ Starting'
  BY <1>1, <1>3 DEF Starting
<1>10. BeforeExec'
  <2>1. main' = "open" => step' = 1
    BY <1>3
  <2>2. main' = "init" => step' \in 1 .. 19
    BY <1>1, <1>3
  <2>3. main' = "exec" => step' = 20
    BY <1>1, <1>3
  <2>4. irqs'[EVTOUT0] = 0 /\ seen' = 0 /\ answers' = 0 /\ wakes' = 0 /\ pru' = "off"
    BY <1>4, <1>9 DEF BeforeExec
  <2>5. step' <= Clearing /\ EVTOUT0 \in hostOn' => "pru0_arm" \notin raw'
    BY <1>1, <1>7, <1>9 DEF BeforeExec, Clearing
  <2>6. step' > Clearing => raw' = {}
    BY <1>1, <1>7, <1>9 DEF BeforeExec, Clearing
  <2> QED BY <2>1, <2>2, <2>3, <2>4, <2>5, <2>6 DEF BeforeExec, Starting
<1>11. Counted'
  BY <1>4, <1>9 DEF Counted
<1> QED BY <1>8, <1>10, <1>11

\* An interrupt is spent from the room its event had.
LEMMA KernelStep == EventsInv /\ Kernel => EventsInv'
<1> SUFFICES ASSUME EventsInv, Kernel PROVE EventsInv'
  OBVIOUS
<1> USE DEF EventsInv
<1>1. PICK h \in ArmHosts : Interrupt(h)
  BY DEF Kernel
<1>2. /\ hostOn' = hostOn \ {h} /\ irqs' = [irqs EXCEPT ![h] = irqs[h] + 1]
      /\ raw' = raw /\ cmr' = cmr /\ hmr' = hmr
      /\ main' = main /\ step' = step /\ seen' = seen /\ pru' = pru
      /\ answers' = answers /\ wakes' = wakes
  BY <1>1 DEF Interrupt, Kernel, mapping
<1>3. irqs \in [ArmHosts -> Nat] /\ irqs[EVTOUT0] \in Nat
  BY HostFacts DEF EventsType
<1>4. irqs' \in [ArmHosts -> Nat]
  BY <1>2, <1>3
<1>5. EventsType'
  <2>1. Routing'
    BY <1>2 DEF Routing, EventsType
  <2> QED BY <1>2, <1>4, <2>1 DEF EventsType
<1>6. CASE h = EVTOUT0
  <2>1. EVTOUT0 \in hostOn /\ "pru0_arm" \in raw
    BY <1>1, <1>6, RaisedBy DEF Interrupt, EventsType
  <2>2. ~Starting
    <3>1. ~(step <= Clearing) => ~Starting
      <4>1. CASE Starting
        <5>1. step \in Nat
          BY <4>1 DEF BeforeExec, Starting
        <5> QED BY <2>1, <5>1 DEF BeforeExec, Clearing
      <4> QED BY <4>1
    <3> QED BY <2>1, <3>1 DEF BeforeExec
  <2>3. irqs'[EVTOUT0] = irqs[EVTOUT0] + 1
    BY <1>2, <1>3, <1>6, HostFacts
  <2>4. EVTOUT0 \notin hostOn'
    BY <1>2, <1>6
  <2>5. Room = Room' + 1
    BY <1>2, <2>1, <2>4 DEF Room
  <2>6. Counted'
    <3>1. Room' \in Nat /\ answers \in Nat /\ seen \in Nat /\ wakes \in Nat
      BY RoomType, <2>5 DEF EventsType, Room
    <3>2. irqs[EVTOUT0] + Room <= 2 * answers
      BY <2>2 DEF Counted
    <3>3. irqs'[EVTOUT0] + Room' <= 2 * answers
      BY <1>3, <2>3, <2>5, <3>1, <3>2
    <3>4. seen <= irqs'[EVTOUT0]
      BY <1>3, <2>3, <3>1 DEF Counted
    <3> QED BY <1>2, <3>3, <3>4 DEF Counted
  <2>7. BeforeExec'
    <3>1. main' \notin {"open", "init", "exec"}
      BY <1>2, <2>2 DEF Starting
    <3> QED BY <3>1 DEF BeforeExec, Starting
  <2> QED BY <1>5, <2>6, <2>7
<1>7. CASE h # EVTOUT0
  <2>1. irqs'[EVTOUT0] = irqs[EVTOUT0]
    BY <1>2, <1>3, <1>7, HostFacts
  <2>2. EVTOUT0 \in hostOn' <=> EVTOUT0 \in hostOn
    BY <1>2, <1>7
  <2>3. Room' = Room /\ (Starting <=> Starting')
    BY <1>2, <2>2 DEF Room, Starting
  <2>4. BeforeExec'
    BY <1>2, <2>1, <2>2, <2>3 DEF BeforeExec
  <2>5. Counted'
    BY <1>2, <2>1, <2>3 DEF Counted
  <2> QED BY <1>5, <2>4, <2>5
<1> QED BY <1>6, <1>7

\* The steps of main after the controller is written, and those of PRU0.
LEMMA RoundStep ==
  ASSUME EventsInv,
         Open \/ Exec \/ SendEvent \/ Wake \/ EnableAgain \/ ClearEvent \/ PruStep
  PROVE  EventsInv'
<1> USE DEF EventsInv
<1>1. irqs' = irqs /\ cmr' = cmr /\ hmr' = hmr /\ step' = step
  BY DEF Open, Exec, SendEvent, Wake, EnableAgain, ClearEvent, PruStep, Poll, Ack, Reply,
         Raise, Clear, EnableHost, intc, mapping
<1>2. irqs[EVTOUT0] \in Nat /\ irqs \in [ArmHosts -> Nat]
  BY HostFacts DEF EventsType
<1>3. Routing'
  BY <1>1 DEF Routing, EventsType
<1>4. seen \in Nat /\ answers \in Nat /\ wakes \in Nat /\ Room \in 0 .. 2
  BY RoomType DEF EventsType
<1>5. CASE Open
  <2>1. /\ main = "open" /\ main' = "init" /\ seen' = irqs[EVTOUT0]
        /\ raw' = raw /\ hostOn' = hostOn /\ pru' = pru /\ answers' = answers /\ wakes' = wakes
    BY <1>5 DEF Open, Main, intc
  <2>2. EventsType'
    BY <1>1, <1>2, <1>3, <2>1 DEF EventsType
  <2>3. Starting /\ Starting'
    BY <2>1 DEF Starting
  <2>4. BeforeExec'
    BY <1>1, <2>1, <2>3 DEF BeforeExec, Clearing
  <2>5. Counted'
    BY <1>1, <1>2, <2>1, <2>3 DEF Counted, BeforeExec
  <2> QED BY <2>2, <2>4, <2>5
<1>6. CASE Exec
  <2>1. /\ main = "exec" /\ main' = "send" /\ seen' = seen
        /\ raw' = raw /\ answers' = answers /\ wakes' = wakes
    BY <1>6 DEF Exec, Main, intc
  <2>2. EventsType'
    BY <1>1, <1>2, <1>3, <2>1 DEF EventsType
  <2>3. Starting /\ ~Starting' /\ step = 20
    BY <2>1 DEF Starting, BeforeExec
  <2>4. BeforeExec'
    BY <2>1, <2>3 DEF BeforeExec
  <2>5. raw = {} /\ irqs[EVTOUT0] = 0
    BY <2>3 DEF BeforeExec, Clearing
  <2>6. Room' = 0
    BY <2>1, <2>5 DEF Room
  <2>7. Counted'
    BY <1>1, <1>4, <2>1, <2>5, <2>6 DEF Counted
  <2> QED BY <2>2, <2>4, <2>7
<1>7. CASE ~Starting /\ ~Starting' /\ EventsType' /\ wakes' <= seen' /\ seen' <= irqs[EVTOUT0]
           /\ Room' <= Room + 2 * (answers' - answers)
  <2>1. BeforeExec'
    BY <1>7 DEF BeforeExec, Starting
  <2>2. irqs[EVTOUT0] + Room <= 2 * answers
    BY <1>7 DEF Counted
  <2>3. Room' \in 0 .. 2 /\ answers' \in Nat
    BY <1>7, RoomType DEF EventsType, Room
  <2>4. irqs[EVTOUT0] + Room' <= 2 * answers'
    <3>1. \A i, r, s, a, b \in Nat : i + r <= 2 * a /\ s <= r + 2 * (b - a) => i + s <= 2 * b
      OBVIOUS
    <3>2. Room \in Nat /\ Room' \in Nat
      BY <1>4, <2>3
    <3> QED BY <1>2, <1>4, <1>7, <2>2, <2>3, <3>1, <3>2
  <2> QED BY <1>1, <1>7, <2>1, <2>4 DEF Counted
<1>8. CASE SendEvent
  <2>1. /\ main = "send" /\ main' = "wait" /\ raw' = raw \union {"arm_pru0"}
        /\ hostOn' = hostOn /\ seen' = seen /\ answers' = answers /\ wakes' = wakes
    BY <1>8 DEF SendEvent, Main, Raise
  <2>2. Room' = Room
    BY <2>1 DEF Room
  <2>3. EventsType'
    BY <1>1, <1>2, <1>3, <2>1 DEF EventsType, Events
  <2> QED BY <1>4, <1>7, <2>1, <2>2, <2>3 DEF Starting, Counted
<1>9. CASE Wake
  <2>1. /\ main = "wait" /\ main' = "enable" /\ irqs[EVTOUT0] # seen
        /\ seen' = irqs[EVTOUT0] /\ wakes' = wakes + 1
        /\ raw' = raw /\ hostOn' = hostOn /\ answers' = answers
    BY <1>9 DEF Wake, Main, intc
  <2>2. Room' = Room
    BY <2>1 DEF Room
  <2>3. EventsType'
    BY <1>1, <1>2, <1>3, <1>4, <2>1 DEF EventsType
  <2>4. wakes' <= seen' /\ seen' <= irqs[EVTOUT0]
    BY <1>2, <1>4, <2>1 DEF Counted
  <2> QED BY <1>4, <1>7, <2>1, <2>2, <2>3, <2>4 DEF Starting
<1>10. CASE EnableAgain
  <2>1. /\ main = "enable" /\ main' = "clear" /\ hostOn' = hostOn \union {EVTOUT0}
        /\ raw' = raw /\ seen' = seen /\ answers' = answers /\ wakes' = wakes
    BY <1>10 DEF EnableAgain, Main, EnableHost, mapping
  <2>2. Room' <= Room
    BY <2>1 DEF Room
  <2>3. EventsType'
    BY <1>1, <1>2, <1>3, <2>1 DEF EventsType
  <2>4. Room' \in 0 .. 2
    BY RoomType DEF Room
  <2> QED BY <1>4, <1>7, <2>1, <2>2, <2>3, <2>4 DEF Starting, Counted
<1>11. CASE ClearEvent
  <2>1. /\ main = "clear" /\ main' \in {"done", "send"} /\ raw' = raw \ {"pru0_arm"}
        /\ hostOn' = hostOn /\ seen' = seen /\ answers' = answers /\ wakes' = wakes
    BY <1>11 DEF ClearEvent, Clear
  <2>2. Room' = 0
    BY <2>1 DEF Room
  <2>3. EventsType'
    BY <1>1, <1>2, <1>3, <2>1 DEF EventsType
  <2> QED BY <1>4, <1>7, <2>1, <2>2, <2>3 DEF Starting, Counted
<1>12. CASE PruStep
  <2>1. /\ pru # "off" /\ main' = main /\ hostOn' = hostOn /\ seen' = seen /\ wakes' = wakes
        /\ \/ answers' = answers /\ raw' \subseteq raw
           \/ answers' = answers + 1 /\ raw' = raw \union {"pru0_arm"}
    BY <1>12 DEF PruStep, Poll, Ack, Reply, Pru, Raise, Clear, intc
  <2>2. ~Starting /\ ~Starting'
    BY <2>1 DEF BeforeExec, Starting
  <2>3. EventsType'
    <3>1. answers' \in Nat
      BY <1>4, <2>1
    <3>2. raw \subseteq Events /\ "pru0_arm" \in Events
      BY DEF EventsType, Events
    <3>3. raw' \subseteq Events
      BY <2>1, <3>2
    <3> QED BY <1>1, <1>2, <1>3, <2>1, <3>1, <3>3 DEF EventsType
  <2>4. Room' \in 0 .. 2
    BY RoomType DEF Room
  <2>5. CASE answers' = answers /\ raw' \subseteq raw
    <3>1. Room' <= Room
      BY <2>1, <2>5 DEF Room
    <3> QED BY <1>4, <1>7, <2>1, <2>2, <2>3, <2>4, <2>5, <3>1 DEF Counted
  <2>6. CASE answers' = answers + 1
    BY <1>4, <1>7, <2>1, <2>2, <2>3, <2>4, <2>6 DEF Counted
  <2> QED BY <2>1, <2>5, <2>6
<1> QED BY <1>5, <1>6, <1>8, <1>9, <1>10, <1>11, <1>12

LEMMA EventsStep == EventsInv /\ [RoundsNext]_roundsVars => EventsInv'
<1> SUFFICES ASSUME EventsInv, [RoundsNext]_roundsVars PROVE EventsInv'
  OBVIOUS
<1>1. CASE UNCHANGED roundsVars
  BY <1>1 DEF roundsVars, intc, EventsInv, EventsType, Routing, BeforeExec, Counted, Room, Starting
<1>2. CASE IntcWrite
  BY <1>2, WriteStep
<1>3. CASE Kernel
  BY <1>3, KernelStep
<1>4. CASE Open \/ Exec \/ SendEvent \/ Wake \/ EnableAgain \/ ClearEvent \/ PruStep
  BY <1>4, RoundStep
<1> QED BY <1>1, <1>2, <1>3, <1>4 DEF RoundsNext, MainStep

LEMMA EventsBounded == EventsInv => AtMostTwoWakes /\ FirstWakeIsReal
<1> SUFFICES ASSUME EventsInv PROVE AtMostTwoWakes /\ FirstWakeIsReal
  OBVIOUS
<1>1. irqs[EVTOUT0] \in Nat /\ answers \in Nat /\ wakes \in Nat /\ seen \in Nat /\ Room \in 0 .. 2
  BY HostFacts, RoomType DEF EventsInv, EventsType
<1>2. irqs[EVTOUT0] <= 2 * answers
  BY <1>1 DEF EventsInv, Counted, BeforeExec
<1> QED BY <1>1, <1>2 DEF EventsInv, Counted, AtMostTwoWakes, FirstWakeIsReal

\* However the interrupts, the waits and the answers fall, EVTOUT0 has been
\* interrupted at most twice per answer of PRU0, and so has main
\* (prussdrv_pru_wait_event and _clear_event, prussdrv.c:420-438).
THEOREM WakesBounded == RoundsSpec => []AtMostTwoWakes
<1>1. RoundsSpec => []EventsInv
  BY EventsInit, EventsStep, PTL DEF RoundsSpec
<1> QED BY <1>1, EventsBounded, PTL

\* Whatever the program before left pending, no wait returns before PRU0 has
\* answered once (prussdrv_pruintc_init, prussdrv.c:395-405).
THEOREM NoStaleWake == RoundsSpec => []FirstWakeIsReal
<1>1. RoundsSpec => []EventsInv
  BY EventsInit, EventsStep, PTL DEF RoundsSpec
<1> QED BY <1>1, EventsBounded, PTL
=============================================================================
