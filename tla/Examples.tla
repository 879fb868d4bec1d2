------------------------------- MODULE Examples -------------------------------
(***************************************************************************)
(* The example applications, run one after another on one board: the main  *)
(* of each on the ARM, the programs it loads into the PRUs, the interrupt  *)
(* controller and the kernel, all at once.  A main may be killed at any    *)
(* step; the PRUs, their memories and the controller then stay as they are *)
(* and the next example starts on top of them.                             *)
(***************************************************************************)
EXTENDS PruIntc

CONSTANTS
  MaxRuns,     \* bound: examples run one after another
  ImageWords   \* words of a program image, all programs alike

ASSUME ExamplesAssumption == MaxRuns \in Nat /\ ImageWords \in Nat \ {0}

VARIABLES
  run, runs,       \* the example that runs or ran last; how many have
  main, step,      \* where its main is, and at which of its opens, loads, waits
  word,            \* the word exec_program writes next
  seen,            \* interrupts read, per descriptor
  ddr,             \* the DDR memory is mapped into the process
  iram, pc,        \* per PRU: the program each word is of; what it executes
  memory,          \* cells of DDR and data RAM that hold what their reader expects
  verdict,         \* what main prints
  asked, clean     \* history: PRU0 has asked; the run started on an idle board

process == <<run, runs, main, step, word, seen, ddr, verdict, clean>>
board == <<iram, pc, memory, asked>>
vars == <<intc, process, board>>

PRUs == {PRU0, PRU1}
Words == 1 .. ImageWords

-----------------------------------------------------------------------------
(* The PRU programs, by their effect on events and memory.                 *)

I(do, what) == [do |-> do, what |-> what]

\* Mutant: the last event goes to the other host.
ToPru1Swapped ==
  << I("ask", "pru0_pru1"), I("wbs", ""), I("set", "flag0"), I("clear", "pru1_pru0"),
     I("raise", "pru1_arm"), I("halt", "") >>

\* PRU_PRU0toPRU1_Interrupt.p.
ToPru1 ==
  << I("ask", "pru0_pru1"), I("wbs", ""), I("set", "flag0"), I("clear", "pru1_pru0"),
     I("raise", "pru0_arm"), I("halt", "") >>

\* Mutant: PRU1 answers before it has set its flag.
ToPru0Early ==
  << I("wbs", ""), I("clear", "pru0_pru1"), I("raise", "pru1_pru0"), I("set", "flag1"),
     I("raise", "pru1_arm"), I("halt", "") >>

\* PRU_PRU1toPRU0_Interrupt.p.
ToPru0 ==
  << I("wbs", ""), I("clear", "pru0_pru1"), I("set", "flag1"), I("raise", "pru1_pru0"),
     I("raise", "pru1_arm"), I("halt", "") >>

\* PRU_memAccessPRUDataRam.p: word 2 is computed from word 1.
DataRam == << I("set", "word1"), I("sum", "word2"), I("raise", "pru0_arm"), I("halt", "") >>

\* PRU_memAccess_DDR_PRUsharedRAM.p.
SharedRam == << I("copy", "copy"), I("raise", "pru0_arm"), I("halt", "") >>

\* blink.p and SPItest.p touch pins and the SPI only.
Blink == << I("raise", "pru0_arm"), I("halt", "") >>

\* blinkslave.p: the loop ends when its exit flag is cleared.
BlinkSlave == << I("while", "run"), I("raise", "pru0_arm"), I("halt", "") >>

Program == [to_pru1 |-> ToPru1, to_pru0 |-> ToPru0, data_ram |-> DataRam,
            shared_ram |-> SharedRam, blink |-> Blink, slave |-> BlinkSlave]

Off == [program |-> "none", at |-> 0]
Halted(p) == pc[p].program # "none" /\ pc[p].at = Len(Program[pc[p].program])
Running(p) == pc[p].program # "none" /\ ~Halted(p)

Needs(cell) == CASE cell = "word2" -> "word1" [] cell = "copy" -> "addends"

\* One step of PRU p; WBS waits until the host of the PRU itself is raised.
Execute(p) ==
  /\ Running(p)
  /\ pc' = [pc EXCEPT ![p].at = @ + 1]
  /\ LET i == Program[pc[p].program][pc[p].at]
     IN /\ i.do = "wbs" => Raised(p)
        /\ i.do = "while" => i.what \notin memory
        /\ memory' = CASE i.do = "set" -> memory \union {i.what}
                       [] i.do \in {"sum", "copy"} ->
                            IF Needs(i.what) \in memory THEN memory \union {i.what}
                                                        ELSE memory \ {i.what}
                       [] OTHER -> memory
        /\ asked' = (asked \/ i.do = "ask")
        /\ CASE i.do \in {"ask", "raise"} -> Raise(i.what)
             [] i.do = "clear" -> Clear(i.what)
             [] OTHER -> UNCHANGED intc
  /\ UNCHANGED <<process, iram>>

-----------------------------------------------------------------------------
(* The examples: what each main opens, prepares, loads and waits for.      *)

Wait0 == [host |-> EVTOUT0, event |-> "pru0_arm"]
Wait1 == [host |-> EVTOUT1, event |-> "pru1_arm"]
Load(p, program) == [pru |-> p, program |-> program]

\* What most of them do.
OnPru0(program) ==
  [opens |-> <<EVTOUT0>>, ddr |-> FALSE, clears |-> {}, sets |-> {}, loads |-> <<Load(PRU0, program)>>,
   ends |-> {}, waits |-> <<Wait0>>, checks |-> {}]

Example ==
  [PRU_PRUtoPRU_Interrupt |->
     [opens |-> <<EVTOUT0, EVTOUT1>>, ddr |-> TRUE, clears |-> {"flag0", "flag1"}, sets |-> {},
      loads |-> <<Load(PRU0, "to_pru1"), Load(PRU1, "to_pru0")>>, ends |-> {},
      waits |-> <<Wait0, Wait1>>, checks |-> {"flag0", "flag1"}],
   PRU_memAccessPRUDataRam |->
     [OnPru0("data_ram") EXCEPT !.clears = {"word1", "word2"}, !.checks = {"word1", "word2"}],
   PRU_memAccess_DDR_PRUsharedRAM |->
     [OnPru0("shared_ram") EXCEPT !.ddr = TRUE, !.sets = {"addends"}, !.checks = {"copy"}],
   blink |-> OnPru0("blink"),
   blinkslave |-> [OnPru0("slave") EXCEPT !.sets = {"run"}, !.ends = {"run"}]]

App == Example[run]

Init ==
  /\ AfterReset /\ raw = {} /\ irqs = [h \in ArmHosts |-> 0]
  /\ run = "blink" /\ runs = 0 /\ main = "idle" /\ step = 1 /\ word = 1
  /\ seen = irqs /\ ddr = FALSE
  /\ iram = [p \in PRUs |-> [w \in Words |-> "none"]] /\ pc = [p \in PRUs |-> Off]
  /\ memory = {} /\ verdict = "none" /\ asked = FALSE /\ clean = FALSE

-----------------------------------------------------------------------------
(* main, call by call.  step counts through the opens, the writes of the   *)
(* controller, the loads and the waits of the example.                     *)

At(stage, after) == main = stage /\ main' = after
\* Go through 1 .. n at one stage, then on to the next.
Each(stage, n, after) ==
  /\ main = stage /\ step <= n
  /\ IF step = n THEN main' = after /\ step' = 1 ELSE main' = stage /\ step' = step + 1

Idle(p) == ~Running(p)
\* ~Raised is not enough: a main killed while it writes the controller leaves
\* answers pending that are raised only when the next main has routed them.
IdleBoard == /\ \A p \in PRUs : Idle(p)
             /\ \A w \in {Wait0, Wait1} : w.host \in hostOn => w.event \notin raw

Start ==
  /\ main \in {"idle", "ended"} /\ main' = "open" /\ runs < MaxRuns /\ runs' = runs + 1
  /\ run' \in DOMAIN Example
  /\ step' = 1 /\ word' = 1 /\ ddr' = FALSE /\ verdict' = "none"
  /\ clean' = IdleBoard /\ asked' = FALSE
  /\ UNCHANGED <<intc, seen, iram, pc, memory>>

Open ==
  /\ Each("open", Len(App.opens), "intc")
  /\ seen' = [seen EXCEPT ![App.opens[step]] = irqs[App.opens[step]]]
  /\ UNCHANGED <<intc, run, runs, word, ddr, verdict, clean, board>>

IntcWrite ==
  /\ Each("intc", Len(Writes), "prepare") /\ Write(Writes[step])
  /\ UNCHANGED <<run, runs, word, seen, ddr, verdict, clean, board>>

\* LOCAL_exampleInit; main does not look at its result when /dev/mem cannot be
\* opened.
ExampleInit ==
  /\ At("prepare", "load")
  /\ \E opened \in IF App.ddr THEN BOOLEAN ELSE {TRUE} :
       /\ ddr' = (App.ddr /\ opened) /\ clean' = (clean /\ opened)
       /\ memory' = IF opened THEN (memory \ App.clears) \union App.sets ELSE memory
  /\ UNCHANGED <<intc, run, runs, step, word, seen, verdict, iram, pc, asked>>

\* Mutant: exec_program writes without disabling the PRU first.
ReadFileOnly ==
  /\ main = "load"
  /\ \/ main' = "write" /\ UNCHANGED <<step, clean, pc>>
     \/ Each("load", Len(App.loads), "end") /\ clean' = FALSE /\ UNCHANGED pc
  /\ UNCHANGED <<intc, run, runs, word, seen, ddr, verdict, iram, memory, asked>>

\* prussdrv_exec_program: an empty file is an error that main ignores, any
\* other is read and the PRU disabled.
ReadFile ==
  /\ main = "load"
  /\ \/ /\ main' = "write" /\ UNCHANGED <<step, clean>>
        /\ pc' = [pc EXCEPT ![App.loads[step].pru] = Off]
     \/ Each("load", Len(App.loads), "end") /\ clean' = FALSE /\ UNCHANGED pc
  /\ UNCHANGED <<intc, run, runs, word, seen, ddr, verdict, iram, memory, asked>>

WriteMemory ==
  /\ main = "write"
  /\ IF word = ImageWords THEN main' = "enable" /\ word' = 1
                          ELSE main' = "write" /\ word' = word + 1
  /\ iram' = [iram EXCEPT ![App.loads[step].pru][word] = App.loads[step].program]
  /\ UNCHANGED <<intc, run, runs, step, seen, ddr, verdict, clean, pc, memory, asked>>

\* The PRU is reset, and executes what is in its memory from the first word on.
Enable ==
  /\ main = "enable"
  /\ main' = IF step = Len(App.loads) THEN "end" ELSE "load"
  /\ step' = IF step = Len(App.loads) THEN 1 ELSE step + 1
  /\ pc' = [pc EXCEPT ![App.loads[step].pru] = [program |-> iram[App.loads[step].pru][1], at |-> 1]]
  /\ UNCHANGED <<intc, run, runs, word, seen, ddr, verdict, clean, iram, memory, asked>>

\* blinkslave clears the exit flag of its program.
EndProgram ==
  /\ At("end", "wait") /\ memory' = memory \ App.ends
  /\ UNCHANGED <<intc, run, runs, step, word, seen, ddr, verdict, clean, iram, pc, asked>>

\* Mutant: wait_event does not block.
WaitNot ==
  /\ At("wait", "reenable")
  /\ LET h == App.waits[step].host IN seen' = [seen EXCEPT ![h] = irqs[h]]
  /\ UNCHANGED <<intc, run, runs, step, word, ddr, verdict, clean, board>>

Wait ==
  /\ At("wait", "reenable")
  /\ LET h == App.waits[step].host IN irqs[h] # seen[h] /\ seen' = [seen EXCEPT ![h] = irqs[h]]
  /\ UNCHANGED <<intc, run, runs, step, word, ddr, verdict, clean, board>>

Reenable ==
  /\ At("reenable", "clear") /\ EnableHost(App.waits[step].host)
  /\ UNCHANGED <<run, runs, step, word, seen, ddr, verdict, clean, board>>

ClearEvent ==
  /\ main = "clear" /\ Clear(App.waits[step].event)
  /\ IF step = Len(App.waits)
     THEN main' = "check" /\ step' = 1
     ELSE main' = "wait" /\ step' = step + 1
  /\ UNCHANGED <<run, runs, word, seen, ddr, verdict, clean, board>>

\* LOCAL_examplePassed, where the example has one.  The PRU-to-PRU example reads
\* its flags through a mapping that may not be there, which ends it.
ExamplePassed ==
  /\ main = "check"
  /\ IF run = "PRU_PRUtoPRU_Interrupt" /\ ~ddr
     THEN main' = "idle" /\ UNCHANGED verdict
     ELSE /\ main' = "stop"
          /\ verdict' = CASE App.checks = {} -> "none"
                          [] App.checks # {} /\ App.checks \subseteq memory -> "passed"
                          [] OTHER -> "failed"
  /\ UNCHANGED <<intc, run, runs, step, word, seen, ddr, clean, board>>

Disable ==
  /\ Each("stop", Len(App.loads), "ended") /\ pc' = [pc EXCEPT ![App.loads[step].pru] = Off]
  /\ UNCHANGED <<intc, run, runs, word, seen, ddr, verdict, clean, iram, memory, asked>>

\* The process ends at any point: killed, or a call that ends it (a missing
\* program file, DDR memory that cannot be mapped, a device that does not open).
Kill ==
  /\ main \notin {"idle", "ended"} /\ main' = "idle"
  /\ UNCHANGED <<intc, run, runs, step, word, seen, ddr, verdict, clean, board>>

Kernel ==
  /\ \E h \in ArmHosts : Interrupt(h)
  /\ UNCHANGED <<process, board>>

MainStep ==
  \/ Open \/ IntcWrite \/ ExampleInit \/ ReadFile \/ WriteMemory \/ Enable \/ EndProgram
  \/ Wait \/ Reenable \/ ClearEvent \/ ExamplePassed \/ Disable

Next == Start \/ MainStep \/ Kill \/ Kernel \/ \E p \in PRUs : Execute(p)

Spec == Init /\ [][Next]_vars

\* Three processors run on their own; the kernel takes pending interrupts.
FairSpec == /\ Spec /\ WF_vars(MainStep) /\ WF_vars(Kernel)
            /\ \A p \in PRUs : WF_vars(Execute(p))

-----------------------------------------------------------------------------
\* When main disables its PRUs their programs are done, so that its waits cover
\* all they do; the example never reports a failure, and leaves no event
\* pending for the next one (PRU_PRUtoPRU_Interrupt.c:171-200 and its siblings).
\* Only for a run that found the board idle: after a kill an old program may
\* still answer, or its answer may still be pending.
EndsClean ==
  clean =>
    /\ main = "stop" => \A i \in step .. Len(App.loads) : Halted(App.loads[i].pru)
    /\ verdict # "failed"
    /\ main = "ended" => raw = {}

\* Whatever was killed before, a PRU executes only from a memory that holds the
\* whole of its program (prussdrv_exec_program, prussdrv.c:629-634).
RunsWholeImage ==
  \A p \in PRUs : Running(p) => \A w \in Words : iram[p][w] = pc[p].program

\* The PRU-to-PRU example is a rendezvous: no flag of it is set before it was
\* asked for, PRU0 follows PRU1, and only then main reports success.
InStep == run = "PRU_PRUtoPRU_Interrupt" /\ clean
Flag(cell) == InStep /\ asked /\ cell \in memory
Abstract == INSTANCE Rendezvous WITH
              asked <- InStep /\ asked, first <- Flag("flag1"), second <- Flag("flag0"),
              verdict <- IF InStep THEN verdict ELSE "none"
ImplementsRendezvous == Abstract!Spec

\* An example that found the board idle ends, unless it is killed first or
\* fails to load its program.
RunsEnd == clean ~> (main \in {"idle", "ended"} \/ ~clean)
=============================================================================
