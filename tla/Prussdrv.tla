------------------------------- MODULE Prussdrv -------------------------------
(***************************************************************************)
(* The life of the driver's one structure `prussdrv`: init, open, irq      *)
(* threads, exit, and what they do to the descriptors and mappings of the  *)
(* process.  The calls come in the order the examples use: init first,     *)
(* exit last, threads only for interrupts whose open has returned 0.       *)
(***************************************************************************)
EXTENDS Integers, FiniteSets, FiniteSetsExt

CONSTANTS
  Irqs,        \* host interrupts, indices of fd[] and irq_thread[]
  FirstFd,     \* lowest descriptor the process has not in use
  MaxOpens,    \* bound: calls of prussdrv_open
  MaxOwn       \* bound: descriptors the application itself has open

ASSUME PrussdrvAssumption ==
  /\ IsFiniteSet(Irqs) /\ Irqs # {} /\ Irqs = 0 .. Cardinality(Irqs) - 1
  /\ FirstFd \in Nat /\ MaxOpens \in Nat /\ MaxOwn \in Nat

VARIABLES
  app,           \* "new", "up", "exiting", "exited"; "dead" and "killed": a fault
  fd, mmapFd,    \* 0 is "not open"; open may have stored -1
  base, extram,  \* ids of the mappings in use, NULL or MAP_FAILED
  files, maps,   \* the process: open descriptors, live mappings
  own,           \* the open descriptors that the application opened itself
  opens,         \* calls of open so far; names the mappings
  pointers,      \* mappings the application holds an address in
  reported,      \* interrupts whose open returned 0 since init
  thread, held,  \* per interrupt: the irq thread, the intc_base it works with
  next, closed   \* the interrupt prussdrv_exit is at; its descriptor is closed

driver == <<fd, mmapFd, base, extram, reported>>
process == <<files, maps, own, opens, pointers>>
threads == <<thread, held>>
loop == <<next, closed>>
vars == <<app, driver, process, threads, loop>>

NULL == 0
MAP_FAILED == -1
Ids == 1 .. 2 * MaxOpens

TypeOK ==
  /\ app \in {"new", "up", "exiting", "exited", "dead", "killed"}
  /\ fd \in [Irqs -> Int] /\ mmapFd \in Int
  /\ base \in Ids \union {NULL, MAP_FAILED} /\ extram \in Ids \union {NULL}
  /\ files \subseteq Nat /\ own \subseteq files /\ maps \subseteq Ids /\ opens \in 0 .. MaxOpens
  /\ pointers \subseteq Ids
  /\ reported \subseteq Irqs
  /\ thread \in [Irqs -> {"none", "start", "read", "woken", "ended"}]
  /\ held \in [Irqs -> Ids \union {NULL}]
  /\ next \in Irqs \union {-1} /\ closed \in BOOLEAN

Memset ==
  /\ fd' = [i \in Irqs |-> 0] /\ mmapFd' = 0
  /\ base' = NULL /\ extram' = NULL /\ reported' = {}
  /\ thread' = [i \in Irqs |-> "none"] /\ held' = [i \in Irqs |-> NULL]

Init ==
  /\ app = "new" /\ next = -1 /\ closed = FALSE
  /\ fd = [i \in Irqs |-> 0] /\ mmapFd = 0
  /\ base = NULL /\ extram = NULL /\ reported = {}
  /\ files = {} /\ maps = {} /\ own = {} /\ opens = 0 /\ pointers = {}
  /\ thread = [i \in Irqs |-> "none"] /\ held = [i \in Irqs |-> NULL]

PrussdrvInit ==
  /\ app \in {"new", "exited"} /\ app' = "up"
  /\ Memset /\ pointers' = {}
  /\ UNCHANGED <<files, maps, own, opens, loop>>

-----------------------------------------------------------------------------
\* The kernel gives out the lowest free descriptor.
FreeFd == Min((FirstFd .. FirstFd + Cardinality(Irqs) + MaxOwn) \ files)

\* __prussdrv_memmap_init maps through the first descriptor that is not 0.
MmapFd(fds) ==
  LET used == {i \in Irqs : fds[i] # 0}
  IN IF mmapFd # 0 THEN mmapFd ELSE IF used = {} THEN 0 ELSE fds[Min(used)]

\* The files under /sys are opened one by one: before the memory is mapped,
\* and between the two mappings.
Sysfs == {"ok", "fails early", "fails late"}

\* Mutant: open unmaps the memory of the open before it.
OpenUnmaps(i, found, sysfs) ==
  /\ app = "up" /\ opens < MaxOpens /\ opens' = opens + 1 /\ fd[i] = 0
  /\ LET fds  == [fd EXCEPT ![i] = IF found THEN FreeFd ELSE -1]
         mfd  == MmapFd(fds)
         mapped == mfd # 0 /\ sysfs # "fails early"
     IN /\ fd' = fds /\ mmapFd' = mfd
        /\ files' = IF found THEN files \union {FreeFd} ELSE files
        /\ app' = IF mapped /\ mfd \notin files' THEN "dead" ELSE app
        /\ base' = IF ~mapped THEN base ELSE IF mfd \in files' THEN 2 * opens + 1 ELSE MAP_FAILED
        /\ extram' = IF mapped /\ mfd \in files' /\ sysfs = "ok" THEN 2 * opens + 2 ELSE extram
        /\ maps' = (maps \ {base, extram}) \union ({base', extram'} \ {NULL, MAP_FAILED, base, extram})
        /\ reported' = IF extram' # extram THEN reported \union {i} ELSE reported
  /\ UNCHANGED <<own, pointers, threads, loop>>

\* prussdrv_open: what open() returned is stored and not looked at, and each
\* open maps the memory again.  Reading the version through a mapping that
\* failed ends the program.
PrussdrvOpen(i, found, sysfs) ==
  /\ app = "up" /\ opens < MaxOpens /\ opens' = opens + 1
  /\ IF fd[i] # 0
     THEN UNCHANGED <<app, driver, files, maps>>          \* returns -1
     ELSE LET fds == [fd EXCEPT ![i] = IF found THEN FreeFd ELSE -1]
              mfd == MmapFd(fds)
              mapped == mfd # 0 /\ sysfs # "fails early"
              good == mapped /\ mfd \in files'
          IN /\ fd' = fds /\ mmapFd' = mfd
             /\ files' = IF found THEN files \union {FreeFd} ELSE files
             /\ app' = IF mapped /\ ~good THEN "dead" ELSE app
             /\ base' = CASE good -> 2 * opens + 1
                          [] mapped /\ ~good -> MAP_FAILED
                          [] OTHER -> base
             /\ extram' = IF good /\ sysfs = "ok" THEN 2 * opens + 2 ELSE extram
             /\ maps' = maps \union ({base', extram'} \ {base, extram, MAP_FAILED})
             /\ reported' = IF good /\ sysfs = "ok" THEN reported \union {i} ELSE reported
  /\ UNCHANGED <<own, pointers, threads, loop>>

-----------------------------------------------------------------------------
(* Irq threads: the handler calls prussdrv_pru_wait_event once.            *)

StartIrqthread(i) ==
  /\ app = "up" /\ i \in reported /\ thread[i] = "none"
  /\ thread' = [thread EXCEPT ![i] = "start"]
  /\ UNCHANGED <<app, driver, process, held, loop>>

\* wait_event fetches intc_base, then reads: at once on a bad descriptor.
WaitEvent(i) ==
  /\ thread[i] = "start"
  /\ thread' = [thread EXCEPT ![i] = IF fd[i] \in files THEN "read" ELSE "woken"]
  /\ held' = [held EXCEPT ![i] = base]
  /\ UNCHANGED <<app, driver, process, loop>>

\* The host interrupt arrives; closing the descriptor does not end the read.
Event(i) ==
  /\ thread[i] = "read" /\ thread' = [thread EXCEPT ![i] = "woken"]
  /\ UNCHANGED <<app, driver, process, held, loop>>

\* The HIEISR write through the address fetched before the read.
Reenable(i) ==
  /\ thread[i] = "woken" /\ app \notin {"dead", "killed"}
  /\ thread' = [thread EXCEPT ![i] = "ended"]
  /\ app' = IF held[i] \in maps THEN app ELSE "killed"
  /\ UNCHANGED <<driver, process, held, loop>>

-----------------------------------------------------------------------------
\* prussdrv_exit: unmap, then close and join interrupt by interrupt.
Exit ==
  /\ app = "up" /\ app' = "exiting"
  /\ maps' = maps \ {base, extram}
  /\ next' = Min(Irqs)
  /\ closed' = FALSE
  /\ UNCHANGED <<driver, files, own, opens, pointers, threads>>

\* Mutant: the descriptor used for the mapping is closed as well, after the loop.
CloseMmapFdToo ==
  /\ app = "exiting" /\ ~closed /\ closed' = TRUE
  /\ files' = (IF fd[next] = 0 THEN files ELSE files \ {fd[next]})
                \ (IF next = Max(Irqs) THEN {mmapFd} ELSE {})
  /\ own' = own \intersect files'
  /\ UNCHANGED <<app, driver, maps, opens, pointers, threads, next>>

Close ==
  /\ app = "exiting" /\ ~closed /\ closed' = TRUE
  /\ files' = IF fd[next] = 0 THEN files ELSE files \ {fd[next]}
  /\ own' = own \intersect files'
  /\ UNCHANGED <<app, driver, maps, opens, pointers, threads, next>>

\* Mutant: exit joins threads that were never started.
JoinAll ==
  /\ app = "exiting" /\ closed /\ closed' = FALSE
  /\ thread[next] = "ended"
  /\ IF next = Max(Irqs)
     THEN next' = -1 /\ app' = "exited"
     ELSE next' = Min({i \in Irqs : i > next}) /\ UNCHANGED app
  /\ UNCHANGED <<driver, process, threads>>

\* pthread_join waits for the thread; nothing in prussdrv is reset.
Join ==
  /\ app = "exiting" /\ closed /\ closed' = FALSE
  /\ thread[next] \in {"none", "ended"}
  /\ IF next = Max(Irqs)
     THEN next' = -1 /\ app' = "exited"
     ELSE next' = Min({i \in Irqs : i > next}) /\ UNCHANGED app
  /\ UNCHANGED <<driver, process, threads>>

-----------------------------------------------------------------------------
(* The application: addresses it asks for, descriptors of its own.         *)

\* prussdrv_map_prumem, map_peripheral_io and map_extmem hand out an address in
\* the mapping of the latest open.
MapMem ==
  /\ app = "up" /\ reported # {}
  /\ \E m \in {base, extram} : pointers' = pointers \union {m}
  /\ UNCHANGED <<app, driver, files, maps, own, opens, threads, loop>>

OwnOpen ==
  /\ app \notin {"dead", "killed"} /\ Cardinality(own) < MaxOwn
  /\ own' = own \union {FreeFd} /\ files' = files \union {FreeFd}
  /\ UNCHANGED <<app, driver, maps, opens, pointers, threads, loop>>

OwnClose ==
  /\ app \notin {"dead", "killed"}
  /\ \E f \in own : own' = own \ {f} /\ files' = files \ {f}
  /\ UNCHANGED <<app, driver, maps, opens, pointers, threads, loop>>

Next ==
  \/ PrussdrvInit \/ Exit \/ Close \/ Join \/ MapMem \/ OwnOpen \/ OwnClose
  \/ \E i \in Irqs :
       \/ \E found \in BOOLEAN, sysfs \in Sysfs : PrussdrvOpen(i, found, sysfs)
       \/ StartIrqthread(i) \/ WaitEvent(i) \/ Event(i) \/ Reenable(i)

Spec == Init /\ [][Next]_vars

\* Threads are scheduled; nothing is assumed of the interrupts.
FairSpec == /\ Spec /\ WF_vars(Close) /\ WF_vars(Join)
            /\ \A i \in Irqs : WF_vars(WaitEvent(i)) /\ WF_vars(Reenable(i))

-----------------------------------------------------------------------------
\* Once an open has returned 0, the addresses the driver computes its register
\* accesses from stay mapped until exit; so do the intc_base a thread has fetched
\* before its read and every address the application has been given, whatever
\* later opens do (prussdrv.c:60-237, 424-426, 457-482).
StaysMapped ==
  app = "up" =>
    /\ reported # {} => {base, extram} \subseteq maps
    /\ \A i \in Irqs : thread[i] \in {"read", "woken"} => held[i] \in maps
    /\ pointers \subseteq maps

\* exit closes every descriptor that open has opened (prussdrv.c:581-583), and no
\* descriptor that was opened by others, also while it runs.
ExitClosesItsOwn ==
  [][app = "exiting" =>
       /\ own \subseteq own' \/ OwnClose
       /\ app' = "exited" => files = own]_vars

\* The only thing prussdrv_exit may wait for without end is an interrupt that
\* one of the threads it joins still waits for (prussdrv.c:581-586).
ExitWaitsForInterrupts ==
  app = "exiting" ~> (app \in {"exited", "killed"} \/ \E i \in Irqs : thread[i] = "read")

\* "prussdrv_open open failed" (PRU_PRUtoPRU_Interrupt.c:151-153): an open
\* that returns 0 has opened its interrupt.
OpenReports == app = "up" => \A i \in reported : fd[i] \in files

\* The same message, line 145: an open that fails returns, so that main can
\* report it.
OpenReturns == app # "dead"

\* "Disable PRU and close memory mapping" (PRU_PRUtoPRU_Interrupt.c:193).
ExitUnmaps == app = "exited" => maps = {}
=============================================================================
