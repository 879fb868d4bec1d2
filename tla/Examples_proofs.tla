---------------------------- MODULE Examples_proofs ----------------------------
(***************************************************************************)
(* For every number of runs and every length of a program, whichever runs  *)
(* are killed: a PRU executes whole programs only; a run that found the    *)
(* board idle ends clean; and the PRU-to-PRU example is a rendezvous.      *)
(***************************************************************************)
EXTENDS Examples, PruIntc_proofs

Names == {"none", "to_pru1", "to_pru0", "data_ram", "shared_ram", "blink", "slave"}

\* A PRU that is not off has a memory full of its program, also when the program
\* has halted: this is what Execute keeps.
Full(p, program) == \A w \in Words : iram[p][w] = program
NotOff(p) == pc[p].program = "none" \/ Full(p, pc[p].program)

\* The load main is at: the PRU is off while its memory is written, up to word.
Loading ==
  LET load == App.loads[step]
  IN  /\ main \in {"load", "write", "enable"} => step \in 1 .. Len(App.loads)
      /\ main \in {"prepare", "load"} => word = 1
      /\ main = "prepare" => step = 1
      /\ main = "write" => /\ pc[load.pru] = Off
                           /\ \A w \in Words : w < word => iram[load.pru][w] = load.program
      /\ main = "enable" => word = 1 /\ Full(load.pru, load.program)
      /\ main \in {"open", "intc"} => word = 1

LoadInv ==
  /\ run \in DOMAIN Example /\ word \in Nat \ {0} /\ step \in Nat
  /\ iram \in [PRUs -> [Words -> Names]]
  /\ pc \in [PRUs -> [program : Names, at : Nat]]
  /\ Loading
  /\ \A p \in PRUs : NotOff(p)

\* Every example loads at least one program, each into one of the PRUs.
LEMMA LoadsType ==
  ASSUME NEW r \in DOMAIN Example
  PROVE  /\ Len(Example[r].loads) \in Nat \ {0}
         /\ \A s \in 1 .. Len(Example[r].loads) :
              /\ Example[r].loads[s].pru \in PRUs
              /\ Example[r].loads[s].program \in Names
<1>1. /\ Example["PRU_PRUtoPRU_Interrupt"].loads = <<Load(PRU0, "to_pru1"), Load(PRU1, "to_pru0")>>
      /\ Example["blink"].loads = <<Load(PRU0, "blink")>>
  BY DEF Example, OnPru0
<1>2. Example["blinkslave"].loads = <<Load(PRU0, "slave")>>
  BY DEF Example, OnPru0
<1>3. Example["PRU_memAccessPRUDataRam"].loads = <<Load(PRU0, "data_ram")>>
  BY DEF Example, OnPru0
<1>4. Example["PRU_memAccess_DDR_PRUsharedRAM"].loads = <<Load(PRU0, "shared_ram")>>
  BY DEF Example, OnPru0
<1>5. r \in {"PRU_PRUtoPRU_Interrupt", "blink", "blinkslave", "PRU_memAccessPRUDataRam",
            "PRU_memAccess_DDR_PRUsharedRAM"}
  BY DEF Example
<1>6. \E p \in Names, q \in Names :
        Example[r].loads \in {<<Load(PRU0, p)>>, <<Load(PRU0, p), Load(PRU1, q)>>}
  BY <1>1, <1>2, <1>3, <1>4, <1>5 DEF Names
<1> QED BY <1>6 DEF Load, PRUs

LEMMA LoadInit == Init => LoadInv
BY DEF Init, LoadInv, Loading, NotOff, Off, Names, Words, Example

\* A step that leaves memories and PRUs alone and does not enter the loading of a
\* program anew.
LEMMA QuietStep ==
  ASSUME LoadInv, run' \in DOMAIN Example, step' \in Nat, word' \in Nat \ {0},
         UNCHANGED <<iram, pc>>, Loading'
  PROVE  LoadInv'
BY DEF LoadInv, NotOff, Full, Words

LEMMA LoadNext == LoadInv /\ [Next]_vars => LoadInv'
<1> SUFFICES ASSUME LoadInv, [Next]_vars PROVE LoadInv'
  OBVIOUS
<1> DEFINE n == Len(App.loads)
<1>a. /\ n \in Nat \ {0}
      /\ \A s \in 1 .. n : App.loads[s].pru \in PRUs /\ App.loads[s].program \in Names
  BY LoadsType DEF App, LoadInv
<1>b. ImageWords \in Nat \ {0}
  BY ExamplesAssumption
<1> HIDE DEF n
<1> USE DEF LoadInv, At, Each
<1>1. CASE Start
  <2>1. /\ run' \in DOMAIN Example /\ step' = 1 /\ word' = 1 /\ main' = "open"
        /\ UNCHANGED <<iram, pc>>
    BY <1>1 DEF Start
  <2>2. Loading'
    BY <2>1 DEF Loading
  <2> QED BY <2>1, <2>2, QuietStep
<1>2. CASE Open \/ IntcWrite
  <2>1. /\ main' \in {"open", "intc", "prepare"} /\ main \in {"open", "intc"}
        /\ main' = "prepare" => step' = 1
        /\ step' \in Nat /\ UNCHANGED <<run, word, iram, pc>>
    BY <1>2 DEF Open, IntcWrite, board
  <2>2. Loading'
    BY <2>1 DEF Loading
  <2> QED BY <2>1, <2>2, QuietStep
<1>3. CASE ExampleInit
  <2>1. main = "prepare" /\ main' = "load" /\ UNCHANGED <<run, step, word, iram, pc>>
    BY <1>3 DEF ExampleInit
  <2>2. App' = App
    BY <2>1 DEF App
  <2>3. Loading'
    BY <2>1, <2>2, <1>a DEF Loading, n
  <2> QED BY <2>1, <2>3, QuietStep
<1>4. CASE ReadFile
  <2> DEFINE load == App.loads[step]
  <2>0. App' = App
    BY <1>4 DEF ReadFile, App
  <2>1. /\ main = "load" /\ word = 1 /\ step \in 1 .. n /\ load.pru \in PRUs
        /\ UNCHANGED <<run, word, iram>>
    BY <1>4, <1>a DEF ReadFile, Loading, n
  <2>2. CASE main' = "write" /\ UNCHANGED step /\ pc' = [pc EXCEPT ![load.pru] = Off]
    <3>1. pc' \in [PRUs -> [program : Names, at : Nat]] /\ pc'[load.pru] = Off
      BY <2>1, <2>2 DEF Off, Names
    <3>2. Loading'
      BY <2>0, <2>1, <2>2, <3>1 DEF Loading, Words, n
    <3>3. \A p \in PRUs : NotOff(p)'
      BY <2>1, <2>2 DEF NotOff, Full, Off
    <3> QED BY <2>0, <2>1, <2>2, <3>1, <3>2, <3>3
  <2>3. CASE Each("load", n, "end") /\ UNCHANGED pc
    <3>0. \/ main' = "end" /\ step' = 1
          \/ step # n /\ step <= n /\ main' = "load" /\ step' = step + 1
      BY <2>3
    <3>1. main' \in {"load", "end"} /\ step' \in Nat /\ (main' = "load" => step' \in 1 .. n)
      BY <2>1, <3>0, <1>a
    <3>2. Loading'
      BY <2>0, <2>1, <3>1 DEF Loading, n
    <3> QED BY <2>1, <2>3, <3>1, <3>2, QuietStep
  <2> QED BY <1>4, <2>2, <2>3 DEF ReadFile, n
<1>5. CASE WriteMemory
  <2> DEFINE load == App.loads[step]
  <2>0. App' = App
    BY <1>5 DEF WriteMemory, App
  <2>1. /\ main = "write" /\ step \in 1 .. n /\ load.pru \in PRUs /\ load.program \in Names
        /\ pc[load.pru] = Off /\ UNCHANGED <<run, step, pc>>
        /\ iram' = [iram EXCEPT ![load.pru][word] = load.program]
    BY <1>5, <1>a DEF WriteMemory, Loading, n
  <2>2. iram' \in [PRUs -> [Words -> Names]]
    BY <2>1
  <2>3. \A p \in PRUs : p # load.pru => iram'[p] = iram[p]
    BY <2>1
  <2>4. \A w \in Words : iram'[load.pru][w] = IF w = word THEN load.program ELSE iram[load.pru][w]
    BY <2>1
  <2>5. \A p \in PRUs : NotOff(p)'
    BY <2>1, <2>3 DEF NotOff, Full, Off
  <2>6. \A w \in Words : w <= word => iram'[load.pru][w] = load.program
    BY <2>1, <2>4 DEF Loading, Words
  <2>7. CASE word = ImageWords
    <3>1. main' = "enable" /\ word' = 1
      BY <1>5, <2>7 DEF WriteMemory
    <3>2. \A w \in Words : iram'[load.pru][w] = load.program
      BY <2>6, <2>7, <1>b DEF Words
    <3>3. Loading'
      BY <2>0, <2>1, <3>1, <3>2 DEF Loading, Full, n
    <3> QED BY <2>0, <2>1, <2>2, <2>5, <3>1, <3>3
  <2>8. CASE word # ImageWords
    <3>1. main' = "write" /\ word' = word + 1
      BY <1>5, <2>8 DEF WriteMemory
    <3>2. \A w \in Words : w < word' => iram'[load.pru][w] = load.program
      BY <2>6, <3>1 DEF Words
    <3>3. Loading'
      BY <2>0, <2>1, <3>1, <3>2 DEF Loading, n
    <3> QED BY <2>0, <2>1, <2>2, <2>5, <3>1, <3>3
  <2> QED BY <2>7, <2>8
<1>6. CASE Enable
  <2> DEFINE load == App.loads[step]
  <2>0. App' = App
    BY <1>6 DEF Enable, App
  <2>1. /\ main = "enable" /\ step \in 1 .. n /\ load.pru \in PRUs /\ load.program \in Names
        /\ word = 1 /\ Full(load.pru, load.program) /\ UNCHANGED <<run, word, iram>>
        /\ pc' = [pc EXCEPT ![load.pru] = [program |-> iram[load.pru][1], at |-> 1]]
    BY <1>6, <1>a DEF Enable, Loading, n
  <2>2. iram[load.pru][1] = load.program
    BY <2>1, <1>b DEF Full, Words
  <2>3. pc' \in [PRUs -> [program : Names, at : Nat]]
    BY <2>1, <2>2
  <2>4. \A p \in PRUs : NotOff(p)'
    BY <2>1, <2>2 DEF NotOff, Full
  <2>5. main' \in {"load", "end"} /\ step' \in Nat /\ (main' = "load" => step' \in 1 .. n)
    BY <1>6, <2>1, <1>a DEF Enable, n
  <2>6. Loading'
    BY <2>0, <2>1, <2>5 DEF Loading, n
  <2> QED BY <2>0, <2>1, <2>3, <2>4, <2>5, <2>6
<1>7. CASE EndProgram \/ Wait \/ Reenable \/ ClearEvent \/ ExamplePassed \/ Kill
  <2>1. /\ main' \in {"wait", "reenable", "clear", "check", "stop", "idle"}
        /\ step' \in Nat /\ UNCHANGED <<run, word, iram, pc>>
    BY <1>7 DEF EndProgram, Wait, Reenable, ClearEvent, ExamplePassed, Kill, board
  <2>2. Loading'
    BY <2>1 DEF Loading
  <2> QED BY <2>1, <2>2, QuietStep
<1>8. CASE Disable
  <2>1. main' \in {"stop", "ended"} /\ step' \in Nat /\ UNCHANGED <<run, word, iram>>
    BY <1>8 DEF Disable
  <2>2. Loading'
    BY <2>1 DEF Loading
  <2>3. pc' = [pc EXCEPT ![App.loads[step].pru] = Off]
    BY <1>8 DEF Disable
  <2>4. pc' \in [PRUs -> [program : Names, at : Nat]]
    BY <2>3 DEF Off, Names
  <2>5. \A p \in PRUs : NotOff(p)'
    BY <2>1, <2>3 DEF NotOff, Full, Off
  <2> QED BY <2>1, <2>2, <2>4, <2>5
<1>9. CASE Kernel \/ UNCHANGED vars
  <2>1. UNCHANGED <<run, main, step, word, iram, pc>>
    BY <1>9 DEF Kernel, vars, process, board
  <2>2. App' = App
    BY <2>1 DEF App
  <2>3. Loading'
    BY <2>1, <2>2 DEF Loading, Full
  <2> QED BY <2>1, <2>3, QuietStep
<1>10. CASE \E p \in PRUs : Execute(p)
  <2>1. PICK p \in PRUs : Execute(p)
    BY <1>10
  <2>2. /\ UNCHANGED <<run, main, step, word, iram>> /\ pc[p].program # "none"
        /\ pc' = [pc EXCEPT ![p].at = @ + 1]
    BY <2>1 DEF Execute, Running, process
  <2>3. App' = App
    BY <2>2 DEF App
  <2>4. /\ pc' \in [PRUs -> [program : Names, at : Nat]]
        /\ \A q \in PRUs : pc'[q].program = pc[q].program /\ (q # p => pc'[q] = pc[q])
    BY <2>2
  <2>5. \A q \in PRUs : NotOff(q)'
    BY <2>2, <2>4 DEF NotOff, Full
  <2>6. main = "write" => App.loads[step].pru # p
    BY <2>2 DEF Loading, Off
  <2>7. Loading'
    BY <2>2, <2>3, <2>4, <2>6, <1>a DEF Loading, Full, n
  <2> QED BY <2>2, <2>4, <2>5, <2>7
<1> QED
  BY <1>1, <1>2, <1>3, <1>4, <1>5, <1>6, <1>7, <1>8, <1>9, <1>10 DEF Next, MainStep

\* Whatever was killed before, a PRU executes only from a memory that holds the
\* whole of its program: prussdrv_exec_program disables it first and enables it
\* last (prussdrv.c:629-634).
THEOREM WholePrograms == Spec => []RunsWholeImage
<1>1. LoadInv => RunsWholeImage
  BY DEF LoadInv, RunsWholeImage, NotOff, Full, Running
<1> QED BY LoadInit, LoadNext, <1>1, PTL DEF Spec

-----------------------------------------------------------------------------
PtoP == "PRU_PRUtoPRU_Interrupt"

\* The tables of the examples, as the proofs use them.
LEMMA PtoPIs ==
  /\ PtoP \in DOMAIN Example
  /\ Example[PtoP].opens = <<EVTOUT0, EVTOUT1>>
  /\ Example[PtoP].loads = <<Load(PRU0, "to_pru1"), Load(PRU1, "to_pru0")>>
  /\ Example[PtoP].waits = <<Wait0, Wait1>>
  /\ Example[PtoP].clears = {"flag0", "flag1"} /\ Example[PtoP].sets = {}
  /\ Example[PtoP].ends = {} /\ Example[PtoP].checks = {"flag0", "flag1"}
BY DEF Example, PtoP

Singles == {"data_ram", "shared_ram", "blink", "slave"}

LEMMA SinglesAre ==
  ASSUME NEW r \in DOMAIN Example, r # PtoP
  PROVE  \E q \in Singles :
           /\ Example[r].opens = <<EVTOUT0>> /\ Example[r].loads = <<Load(PRU0, q)>>
           /\ Example[r].waits = <<Wait0>>
           /\ Example[r].clears = {} \/ Example[r].sets = {}
           /\ q = "data_ram" => Example[r].checks = {"word1", "word2"}
           /\ q = "shared_ram" => Example[r].sets = {"addends"} /\ Example[r].checks = {"copy"}
           /\ q \in {"blink", "slave"} => Example[r].checks = {}
           /\ q \in {"data_ram", "shared_ram"} => Example[r].ends = {}
<1>1. r \in {"blink", "blinkslave", "PRU_memAccessPRUDataRam", "PRU_memAccess_DDR_PRUsharedRAM"}
  BY DEF Example, PtoP
<1>2. CASE r = "blink"
  BY <1>2 DEF Example, OnPru0, Singles
<1>3. CASE r = "blinkslave"
  BY <1>3 DEF Example, OnPru0, Singles
<1>4. CASE r = "PRU_memAccessPRUDataRam"
  BY <1>4 DEF Example, OnPru0, Singles
<1>5. CASE r = "PRU_memAccess_DDR_PRUsharedRAM"
  BY <1>5 DEF Example, OnPru0, Singles
<1> QED BY <1>1, <1>2, <1>3, <1>4, <1>5

Programs == {"to_pru1", "to_pru0", "data_ram", "shared_ram", "blink", "slave"}

LEMMA ProgramsAre ==
  /\ Program["to_pru1"] = ToPru1 /\ Program["to_pru0"] = ToPru0
  /\ Program["data_ram"] = DataRam /\ Program["shared_ram"] = SharedRam
  /\ Program["blink"] = Blink /\ Program["slave"] = BlinkSlave
BY DEF Program

\* The instructions of each program.
LEMMA ToPru1Is ==
  /\ Len(ToPru1) = 6
  /\ ToPru1[1].do = "ask" /\ ToPru1[1].what = "pru0_pru1"
  /\ ToPru1[2].do = "wbs"
  /\ ToPru1[3].do = "set" /\ ToPru1[3].what = "flag0"
  /\ ToPru1[4].do = "clear" /\ ToPru1[4].what = "pru1_pru0"
  /\ ToPru1[5].do = "raise" /\ ToPru1[5].what = "pru0_arm"
  /\ ToPru1[6].do = "halt"
BY DEF ToPru1, I

LEMMA ToPru0Is ==
  /\ Len(ToPru0) = 6
  /\ ToPru0[1].do = "wbs"
  /\ ToPru0[2].do = "clear" /\ ToPru0[2].what = "pru0_pru1"
  /\ ToPru0[3].do = "set" /\ ToPru0[3].what = "flag1"
  /\ ToPru0[4].do = "raise" /\ ToPru0[4].what = "pru1_pru0"
  /\ ToPru0[5].do = "raise" /\ ToPru0[5].what = "pru1_arm"
  /\ ToPru0[6].do = "halt"
BY DEF ToPru0, I

LEMMA DataRamIs ==
  /\ Len(DataRam) = 4
  /\ DataRam[1].do = "set" /\ DataRam[1].what = "word1"
  /\ DataRam[2].do = "sum" /\ DataRam[2].what = "word2"
  /\ DataRam[3].do = "raise" /\ DataRam[3].what = "pru0_arm"
  /\ DataRam[4].do = "halt"
BY DEF DataRam, I

LEMMA SharedRamIs ==
  /\ Len(SharedRam) = 3
  /\ SharedRam[1].do = "copy" /\ SharedRam[1].what = "copy"
  /\ SharedRam[2].do = "raise" /\ SharedRam[2].what = "pru0_arm"
  /\ SharedRam[3].do = "halt"
BY DEF SharedRam, I

LEMMA BlinkIs ==
  /\ Len(Blink) = 2
  /\ Blink[1].do = "raise" /\ Blink[1].what = "pru0_arm"
  /\ Blink[2].do = "halt"
BY DEF Blink, I

LEMMA BlinkSlaveIs ==
  /\ Len(BlinkSlave) = 3
  /\ BlinkSlave[1].do = "while" /\ BlinkSlave[1].what = "run"
  /\ BlinkSlave[2].do = "raise" /\ BlinkSlave[2].what = "pru0_arm"
  /\ BlinkSlave[3].do = "halt"
BY DEF BlinkSlave, I

\* What an instruction may be.
Instruction(i) ==
  /\ i.do \in {"ask", "raise", "clear"} => i.what \in Events
  /\ i.do \in {"ask", "raise", "clear", "wbs", "set", "sum", "copy", "while", "halt"}

LEMMA ProgramsType ==
  ASSUME NEW q \in Programs
  PROVE  /\ Len(Program[q]) \in {2, 3, 4, 6}
         /\ \A k \in 1 .. Len(Program[q]) : Instruction(Program[q][k])
<1>0. /\ "pru0_pru1" \in Events /\ "pru1_pru0" \in Events
      /\ "pru0_arm" \in Events /\ "pru1_arm" \in Events
  BY DEF Events
<1>1. CASE q = "to_pru1"
  <2>1. /\ Instruction(ToPru1[1]) /\ Instruction(ToPru1[2]) /\ Instruction(ToPru1[3])
        /\ Instruction(ToPru1[4]) /\ Instruction(ToPru1[5]) /\ Instruction(ToPru1[6])
    BY <1>0, ToPru1Is DEF Instruction
  <2>2. \A k \in 1 .. 6 : k = 1 \/ k = 2 \/ k = 3 \/ k = 4 \/ k = 5 \/ k = 6
    OBVIOUS
  <2>3. \A k \in 1 .. 6 : Instruction(ToPru1[k])
    BY <2>1, <2>2
  <2> QED BY <1>1, <2>3, ProgramsAre, ToPru1Is
<1>2. CASE q = "to_pru0"
  <2>1. /\ Instruction(ToPru0[1]) /\ Instruction(ToPru0[2]) /\ Instruction(ToPru0[3])
        /\ Instruction(ToPru0[4]) /\ Instruction(ToPru0[5]) /\ Instruction(ToPru0[6])
    BY <1>0, ToPru0Is DEF Instruction
  <2>2. \A k \in 1 .. 6 : k = 1 \/ k = 2 \/ k = 3 \/ k = 4 \/ k = 5 \/ k = 6
    OBVIOUS
  <2>3. \A k \in 1 .. 6 : Instruction(ToPru0[k])
    BY <2>1, <2>2
  <2> QED BY <1>2, <2>3, ProgramsAre, ToPru0Is
<1>3. CASE q = "data_ram"
  <2>1. /\ Instruction(DataRam[1]) /\ Instruction(DataRam[2]) /\ Instruction(DataRam[3])
        /\ Instruction(DataRam[4])
    BY <1>0, DataRamIs DEF Instruction
  <2>2. \A k \in 1 .. 4 : k = 1 \/ k = 2 \/ k = 3 \/ k = 4
    OBVIOUS
  <2>3. \A k \in 1 .. 4 : Instruction(DataRam[k])
    BY <2>1, <2>2
  <2> QED BY <1>3, <2>3, ProgramsAre, DataRamIs
<1>4. CASE q = "shared_ram"
  <2>1. Instruction(SharedRam[1]) /\ Instruction(SharedRam[2]) /\ Instruction(SharedRam[3])
    BY <1>0, SharedRamIs DEF Instruction
  <2>2. \A k \in 1 .. 3 : k = 1 \/ k = 2 \/ k = 3
    OBVIOUS
  <2>3. \A k \in 1 .. 3 : Instruction(SharedRam[k])
    BY <2>1, <2>2
  <2> QED BY <1>4, <2>3, ProgramsAre, SharedRamIs
<1>5. CASE q = "blink"
  <2>1. Instruction(Blink[1]) /\ Instruction(Blink[2])
    BY <1>0, BlinkIs DEF Instruction
  <2>2. \A k \in 1 .. 2 : k = 1 \/ k = 2
    OBVIOUS
  <2>3. \A k \in 1 .. 2 : Instruction(Blink[k])
    BY <2>1, <2>2
  <2> QED BY <1>5, <2>3, ProgramsAre, BlinkIs
<1>6. CASE q = "slave"
  <2>1. Instruction(BlinkSlave[1]) /\ Instruction(BlinkSlave[2]) /\ Instruction(BlinkSlave[3])
    BY <1>0, BlinkSlaveIs DEF Instruction
  <2>2. \A k \in 1 .. 3 : k = 1 \/ k = 2 \/ k = 3
    OBVIOUS
  <2>3. \A k \in 1 .. 3 : Instruction(BlinkSlave[k])
    BY <2>1, <2>2
  <2> QED BY <1>6, <2>3, ProgramsAre, BlinkSlaveIs
<1> QED BY <1>1, <1>2, <1>3, <1>4, <1>5, <1>6 DEF Programs

\* A program of one PRU alone touches memory, answers as its last act and halts.
LEMMA SinglesType ==
  ASSUME NEW q \in Singles
  PROVE  LET n == Len(Program[q])
         IN  /\ n \in {2, 3, 4}
             /\ Program[q][n - 1].do = "raise" /\ Program[q][n - 1].what = "pru0_arm"
             /\ \A k \in 1 .. n - 2 : Program[q][k].do \in {"set", "sum", "copy", "while"}
<1>1. CASE q = "data_ram"
  <2>1. \A k \in 1 .. 2 : k = 1 \/ k = 2
    OBVIOUS
  <2>2. \A k \in 1 .. 2 : DataRam[k].do \in {"set", "sum", "copy", "while"}
    BY <2>1, DataRamIs
  <2>3. 4 - 1 = 3 /\ 4 - 2 = 2
    OBVIOUS
  <2> QED BY <1>1, <2>2, <2>3, ProgramsAre, DataRamIs
<1>2. CASE q = "shared_ram"
  <2>1. \A k \in 1 .. 1 : k = 1
    OBVIOUS
  <2>2. \A k \in 1 .. 1 : SharedRam[k].do \in {"set", "sum", "copy", "while"}
    BY <2>1, SharedRamIs
  <2>3. 3 - 1 = 2 /\ 3 - 2 = 1
    OBVIOUS
  <2> QED BY <1>2, <2>2, <2>3, ProgramsAre, SharedRamIs
<1>3. CASE q = "blink"
  <2>1. \A k \in 1 .. 0 : FALSE
    OBVIOUS
  <2>2. \A k \in 1 .. 0 : Blink[k].do \in {"set", "sum", "copy", "while"}
    BY <2>1, BlinkIs
  <2>3. 2 - 1 = 1 /\ 2 - 2 = 0
    OBVIOUS
  <2> QED BY <1>3, <2>2, <2>3, ProgramsAre, BlinkIs
<1>4. CASE q = "slave"
  <2>1. \A k \in 1 .. 1 : k = 1
    OBVIOUS
  <2>2. \A k \in 1 .. 1 : BlinkSlave[k].do \in {"set", "sum", "copy", "while"}
    BY <2>1, BlinkSlaveIs
  <2>3. 3 - 1 = 2 /\ 3 - 2 = 1
    OBVIOUS
  <2> QED BY <1>4, <2>2, <2>3, ProgramsAre, BlinkSlaveIs
<1> QED BY <1>1, <1>2, <1>3, <1>4 DEF Singles

\* One instruction, by what it does to the events, the memory and asked.
Does(p, i) ==
  /\ i.do = "wbs" => Raised(p)
  /\ raw' = (IF i.do \in {"ask", "raise"} THEN raw \union {i.what}
             ELSE IF i.do = "clear" THEN raw \ {i.what} ELSE raw)
  /\ memory' = (IF i.do = "set" THEN memory \union {i.what}
                ELSE IF i.do \in {"sum", "copy"}
                THEN IF Needs(i.what) \in memory THEN memory \union {i.what}
                     ELSE memory \ {i.what}
                ELSE memory)
  /\ asked' = (asked \/ i.do = "ask")

LEMMA Executed ==
  ASSUME NEW p \in PRUs, Execute(p), pc[p].program \in Programs,
         pc[p].at \in 1 .. Len(Program[pc[p].program])
  PROVE  /\ Does(p, Program[pc[p].program][pc[p].at])
         /\ pc[p].at < Len(Program[pc[p].program])
         /\ pc' = [pc EXCEPT ![p].at = pc[p].at + 1]
         /\ UNCHANGED <<enabled, cmr, hmr, ger, hostOn, irqs, process, iram>>
<1> DEFINE i == Program[pc[p].program][pc[p].at]
<1>1. pc[p].at < Len(Program[pc[p].program])
  <2>1. pc[p].at # Len(Program[pc[p].program])
    BY DEF Execute, Running, Halted
  <2> QED BY <2>1, ProgramsType
<1>2. pc' = [pc EXCEPT ![p].at = pc[p].at + 1]
  BY DEF Execute
<1>3. /\ i.do = "wbs" => Raised(p)
      /\ asked' = (asked \/ i.do = "ask")
      /\ UNCHANGED <<process, iram>>
  BY DEF Execute
<1>4. memory' = (IF i.do = "set" THEN memory \union {i.what}
                 ELSE IF i.do \in {"sum", "copy"}
                 THEN IF Needs(i.what) \in memory THEN memory \union {i.what}
                      ELSE memory \ {i.what}
                 ELSE memory)
  BY DEF Execute
<1>5. /\ raw' = (IF i.do \in {"ask", "raise"} THEN raw \union {i.what}
                 ELSE IF i.do = "clear" THEN raw \ {i.what} ELSE raw)
      /\ UNCHANGED <<enabled, cmr, hmr, ger, hostOn, irqs>>
  <2>1. CASE i.do \in {"ask", "raise"}
    <3>1. Raise(i.what)
      BY <2>1 DEF Execute
    <3> QED BY <2>1, <3>1 DEF Raise, mapping
  <2>2. CASE i.do = "clear"
    <3>1. Clear(i.what)
      BY <2>2 DEF Execute
    <3> QED BY <2>2, <3>1 DEF Clear, mapping
  <2>3. CASE i.do \notin {"ask", "raise", "clear"}
    <3>1. UNCHANGED intc
      BY <2>3 DEF Execute
    <3> QED BY <2>3, <3>1 DEF intc
  <2> QED BY <2>1, <2>2, <2>3
<1> HIDE DEF i
<1>6. Does(p, i)
  BY <1>3, <1>4, <1>5 DEF Does
<1> QED BY <1>1, <1>2, <1>3, <1>5, <1>6 DEF i

-----------------------------------------------------------------------------
\* The stages of main: before a program is started, while one is loaded, while
\* main waits, and from the last start to the end of the waits.
Starting == {"open", "intc", "prepare"}
Loads == {"load", "write", "enable"}
Waits == {"wait", "reenable", "clear"}
After == {"end", "check"} \union Waits

Size(p) == Len(Program[pc[p].program])

\* The controller routes events as its tables say, and interrupts are counted.
IntcType ==
  /\ raw \subseteq Events /\ Routing
  /\ irqs \in [ArmHosts -> Nat] /\ seen \in [ArmHosts -> Nat]

\* A PRU that is not off is at an instruction of its program.
PcType ==
  \A p \in PRUs : pc[p].program # "none" => pc[p].at \in 1 .. Size(p)

\* The stages of main follow each other, and step stays in its range.
StepType ==
  /\ main \in {"idle", "stop", "ended"} \union Starting \union Loads \union After
  /\ main = "open" => step \in 1 .. Len(App.opens)
  /\ main = "intc" => step \in 1 .. 19
  /\ main \in Waits => step \in 1 .. Len(App.waits)
  /\ main = "stop" => step \in 1 .. Len(App.loads)
  /\ main \in {"end", "check"} => step = 1

BoardType == IntcType /\ PcType /\ StepType

\* No PRU of the run has been started.
Waiting == main \in Starting \/ (main \in Loads /\ step = 1)
Quiet == \A p \in PRUs : Idle(p)

\* What a clean run finds and keeps until then: no answer pending for a host that
\* is on, so no interrupt that a descriptor has not read.
BeforePrus ==
  /\ Quiet /\ ~asked /\ verdict = "none"
  /\ \A w \in {Wait0, Wait1} : w.host \in hostOn => w.event \notin raw
  /\ \A i \in 1 .. Len(App.opens) :
       main = "open" /\ i < step => irqs[App.opens[i]] = seen[App.opens[i]]
  /\ main # "open" => \A i \in 1 .. Len(App.opens) : irqs[App.opens[i]] = seen[App.opens[i]]
  /\ main = "intc" => Mapped(step - 1) /\ (step > Clearing => raw = {})
  /\ main \in {"prepare"} \union Loads => Mapped(19) /\ raw = {}
  /\ main \in Loads => App.clears \intersect memory = {} /\ App.sets \subseteq memory

\* What the program of an example on PRU0 has done.
Alone ==
  /\ run # PtoP /\ Idle(PRU1) /\ ~asked
  /\ pc[PRU0].program = App.loads[1].program
  /\ raw \subseteq {"pru0_arm"}
  /\ "pru0_arm" \in raw => Halted(PRU0)
  /\ pc[PRU0].program = "data_ram" => /\ pc[PRU0].at >= 2 => "word1" \in memory
                                      /\ pc[PRU0].at >= 3 => "word2" \in memory
  /\ pc[PRU0].program = "shared_ram" => /\ "addends" \in memory
                                        /\ pc[PRU0].at >= 2 => "copy" \in memory

\* What the programs of the PRU-to-PRU example have done, l of them started: where
\* each is, against the other, the flags and the events.
Pace0 == pc[PRU0].at
Pace1(l) == IF l = 2 THEN pc[PRU1].at ELSE 0
Together(l) ==
  /\ run = PtoP /\ Mapped(19)
  /\ pc[PRU0].program = "to_pru1"
  /\ l = 1 => Idle(PRU1)
  /\ l = 2 => pc[PRU1].program = "to_pru0"
  /\ raw \subseteq {"pru0_pru1", "pru1_pru0", "pru0_arm", "pru1_arm"}
  /\ asked <=> Pace0 >= 2
  /\ "flag1" \in memory <=> Pace1(l) >= 4
  /\ "flag0" \in memory <=> Pace0 >= 4
  /\ Pace1(l) >= 2 => Pace0 >= 2
  /\ Pace0 >= 3 => Pace1(l) >= 5
  /\ "pru0_pru1" \in raw => Pace0 >= 2 /\ Pace1(l) <= 2
  /\ "pru1_pru0" \in raw => Pace1(l) >= 5 /\ Pace0 <= 4
  /\ "pru0_arm" \in raw => Pace0 = 6
  /\ "pru1_arm" \in raw => Pace1(l) = 6

\* A program of the run has been started, and what main has heard of it: the
\* i-th wait ends after the i-th program, and its event stays cleared.
Started == main \in After \/ (main \in Loads /\ step # 1)
Answered(i) ==
  \/ main \in {"reenable", "clear"} /\ i <= step
  \/ main = "wait" /\ i < step
  \/ main = "check"
Acknowledged(i) == (main \in Waits /\ i < step) \/ main = "check"
Heard ==
  /\ verdict = "none"
  /\ \A i \in 1 .. Len(App.waits) :
       /\ irqs[App.waits[i].host] # seen[App.waits[i].host]
            => (main \in After \/ i < step) /\ Halted(App.loads[i].pru)
       /\ Answered(i) => Halted(App.loads[i].pru)
       /\ Acknowledged(i) => App.waits[i].event \notin raw

CleanInv == clean =>
  /\ Waiting => BeforePrus
  /\ Started => Heard
  /\ main \in Loads /\ step # 1 => Together(1)
  /\ main \in After => Alone \/ Together(2)
  /\ main = "stop" => \A i \in step .. Len(App.loads) : Halted(App.loads[i].pru)
  /\ main \in {"stop", "ended"} => Quiet /\ raw = {}
  /\ main = "idle" => Alone \/ Together(1) \/ Together(2) \/ Quiet
  /\ verdict # "failed"

-----------------------------------------------------------------------------
LEMMA TwoPrus == PRU0 # PRU1 /\ PRU0 \in PRUs /\ PRU1 \in PRUs /\ PRUs = {PRU0, PRU1}
<1>1. 0 \notin Zero /\ 0 \in One
  BY DEF Zero, One
<1> QED BY <1>1 DEF PRUs, PRU0, PRU1

LEMMA TogetherType ==
  ASSUME LoadInv, BoardType, NEW l \in {1, 2}, Together(l)
  PROVE  /\ Pace0 \in 1 .. 6 /\ Pace1(l) \in 0 .. 6
         /\ l = 2 => Pace1(l) \in 1 .. 6 /\ Pace1(l) = pc[PRU1].at
         /\ Halted(PRU0) <=> Pace0 = 6
         /\ l = 2 => (Halted(PRU1) <=> Pace1(l) = 6)
<1>1. Len(Program["to_pru1"]) = 6 /\ Len(Program["to_pru0"]) = 6
  BY ProgramsAre, ToPru1Is, ToPru0Is
<1>2. pc[PRU0].program = "to_pru1" /\ (l = 2 => pc[PRU1].program = "to_pru0")
  BY DEF Together
<1>3. pc[PRU0].at \in 1 .. 6 /\ (l = 2 => pc[PRU1].at \in 1 .. 6)
  BY <1>1, <1>2, TwoPrus DEF BoardType, PcType, Size
<1>4. Pace0 = pc[PRU0].at /\ (l = 1 => Pace1(l) = 0) /\ (l = 2 => Pace1(l) = pc[PRU1].at)
  BY DEF Pace0, Pace1
<1>5. /\ Halted(PRU0) <=> pc[PRU0].at = 6
      /\ l = 2 => (Halted(PRU1) <=> pc[PRU1].at = 6)
  BY <1>1, <1>2 DEF Halted
<1> QED BY <1>3, <1>4, <1>5

\* PRU0 takes one step of its program.
LEMMA Together0 ==
  ASSUME LoadInv, BoardType, NEW l \in {1, 2}, Together(l), Execute(PRU0)
  PROVE  /\ Together(l)' /\ ~Halted(PRU0)
         /\ "pru1_arm" \in raw' => "pru1_arm" \in raw
<1> DEFINE a == pc[PRU0].at
<1>1. a \in 1 .. 6 /\ pc[PRU0].program = "to_pru1" /\ Pace0 = a
  BY TogetherType DEF Pace0, Together
<1>2. Program["to_pru1"] = ToPru1 /\ Len(ToPru1) = 6
  BY ProgramsAre, ToPru1Is
<1>3. /\ a < 6 /\ pc' = [pc EXCEPT ![PRU0].at = a + 1]
      /\ ToPru1[a].do = "wbs" => Raised(PRU0)
      /\ raw' = (IF ToPru1[a].do \in {"ask", "raise"} THEN raw \union {ToPru1[a].what}
                 ELSE IF ToPru1[a].do = "clear" THEN raw \ {ToPru1[a].what} ELSE raw)
      /\ ToPru1[a].do = "set" => memory' = memory \union {ToPru1[a].what}
      /\ ToPru1[a].do \notin {"set", "sum", "copy"} => memory' = memory
      /\ asked' = (asked \/ ToPru1[a].do = "ask")
      /\ UNCHANGED <<cmr, hmr, run>>
  <2>1. Program[pc[PRU0].program][pc[PRU0].at] = ToPru1[a] /\ Len(Program[pc[PRU0].program]) = 6
    BY <1>1, <1>2
  <2>2. pc[PRU0].program \in Programs /\ pc[PRU0].at \in 1 .. 6
    BY <1>1 DEF Programs
  <2>3. /\ Does(PRU0, ToPru1[a]) /\ pc[PRU0].at < 6
        /\ pc' = [pc EXCEPT ![PRU0].at = pc[PRU0].at + 1]
        /\ UNCHANGED <<enabled, cmr, hmr, ger, hostOn, irqs, process, iram>>
    BY <2>1, <2>2, TwoPrus, Executed
  <2> QED BY <2>3 DEF Does, process
<1>4. pc \in [PRUs -> [program : Names, at : Nat]]
  BY DEF LoadInv
<1>5. /\ pc'[PRU0].program = "to_pru1" /\ Pace0' = a + 1 /\ pc'[PRU1] = pc[PRU1]
  BY <1>1, <1>3, <1>4, TwoPrus DEF Pace0
<1>6. Pace1(l)' = Pace1(l) /\ Pace1(l) \in 0 .. 6
  BY <1>5, TogetherType DEF Pace1
<1>7. Mapped(19)' /\ run' = PtoP
  BY <1>3 DEF Mapped, Together
<1>8. Raised(PRU0) => "pru1_pru0" \in raw
  BY PrusWake DEF Together, BoardType, IntcType
<1>9. /\ l = 1 => Idle(PRU1)'
      /\ l = 2 => pc'[PRU1].program = "to_pru0"
  BY <1>5 DEF Together, Idle, Running, Halted
<1>10. /\ asked <=> a >= 2
       /\ "flag1" \in memory <=> Pace1(l) >= 4
       /\ "flag0" \in memory <=> a >= 4
       /\ Pace1(l) >= 2 => a >= 2
       /\ a >= 3 => Pace1(l) >= 5
       /\ "pru0_pru1" \in raw => a >= 2 /\ Pace1(l) <= 2
       /\ "pru1_pru0" \in raw => Pace1(l) >= 5 /\ a <= 4
       /\ "pru0_arm" \in raw => a = 6
       /\ "pru1_arm" \in raw => Pace1(l) = 6
       /\ raw \subseteq {"pru0_pru1", "pru1_pru0", "pru0_arm", "pru1_arm"}
  BY <1>1 DEF Together
<1>11. ~Halted(PRU0)
  BY <1>3, TogetherType, <1>1
<1> HIDE DEF a
<1>12. a = 1 \/ a = 2 \/ a = 3 \/ a = 4 \/ a = 5
  BY <1>1, <1>3
<1>13. /\ a = 1 => asked' /\ raw' = raw \union {"pru0_pru1"} /\ memory' = memory
       /\ a = 2 => "pru1_pru0" \in raw /\ (asked' <=> asked) /\ raw' = raw /\ memory' = memory
       /\ a = 3 => (asked' <=> asked) /\ raw' = raw /\ memory' = memory \union {"flag0"}
       /\ a = 4 => (asked' <=> asked) /\ raw' = raw \ {"pru1_pru0"} /\ memory' = memory
       /\ a = 5 => (asked' <=> asked) /\ raw' = raw \union {"pru0_arm"} /\ memory' = memory
  BY <1>3, <1>8, ToPru1Is
<1>14. /\ raw' \subseteq {"pru0_pru1", "pru1_pru0", "pru0_arm", "pru1_arm"}
       /\ "pru1_arm" \in raw' => "pru1_arm" \in raw
       /\ "pru0_pru1" \in raw' => a = 1 \/ "pru0_pru1" \in raw
       /\ "pru1_pru0" \in raw' => a # 4 /\ "pru1_pru0" \in raw
       /\ "pru0_arm" \in raw' => a = 5 \/ "pru0_arm" \in raw
       /\ "flag1" \in memory' <=> "flag1" \in memory
       /\ "flag0" \in memory' <=> a = 3 \/ "flag0" \in memory
       /\ asked' <=> a = 1 \/ asked
       /\ a = 2 => "pru1_pru0" \in raw
  BY <1>10, <1>12, <1>13
<1>15. /\ asked' <=> a + 1 >= 2
       /\ "flag1" \in memory' <=> Pace1(l) >= 4
       /\ "flag0" \in memory' <=> a + 1 >= 4
       /\ Pace1(l) >= 2 => a + 1 >= 2
       /\ a + 1 >= 3 => Pace1(l) >= 5
       /\ "pru0_pru1" \in raw' => a + 1 >= 2 /\ Pace1(l) <= 2
       /\ "pru1_pru0" \in raw' => Pace1(l) >= 5 /\ a + 1 <= 4
       /\ "pru0_arm" \in raw' => a + 1 = 6
       /\ "pru1_arm" \in raw' => Pace1(l) = 6
  BY <1>6, <1>10, <1>12, <1>14
<1> QED BY <1>5, <1>6, <1>7, <1>9, <1>11, <1>14, <1>15 DEF Together

\* PRU1 takes one step of its program.
LEMMA Together1 ==
  ASSUME LoadInv, BoardType, NEW l \in {1, 2}, Together(l), Execute(PRU1)
  PROVE  /\ l = 2 /\ Together(l)' /\ ~Halted(PRU1)
         /\ "pru0_arm" \in raw' => "pru0_arm" \in raw
<1> DEFINE b == pc[PRU1].at
<1>0. l = 2
  BY DEF Together, Idle, Execute
<1>1. b \in 1 .. 6 /\ pc[PRU1].program = "to_pru0" /\ Pace1(l) = b
  BY <1>0, TogetherType DEF Pace1, Together
<1>2. Program["to_pru0"] = ToPru0 /\ Len(ToPru0) = 6
  BY ProgramsAre, ToPru0Is
<1>3. /\ b < 6 /\ pc' = [pc EXCEPT ![PRU1].at = b + 1]
      /\ ToPru0[b].do = "wbs" => Raised(PRU1)
      /\ raw' = (IF ToPru0[b].do \in {"ask", "raise"} THEN raw \union {ToPru0[b].what}
                 ELSE IF ToPru0[b].do = "clear" THEN raw \ {ToPru0[b].what} ELSE raw)
      /\ ToPru0[b].do = "set" => memory' = memory \union {ToPru0[b].what}
      /\ ToPru0[b].do \notin {"set", "sum", "copy"} => memory' = memory
      /\ asked' = (asked \/ ToPru0[b].do = "ask")
      /\ UNCHANGED <<cmr, hmr, run>>
  <2>1. Program[pc[PRU1].program][pc[PRU1].at] = ToPru0[b] /\ Len(Program[pc[PRU1].program]) = 6
    BY <1>1, <1>2
  <2>2. pc[PRU1].program \in Programs /\ pc[PRU1].at \in 1 .. 6
    BY <1>1 DEF Programs
  <2>3. /\ Does(PRU1, ToPru0[b]) /\ pc[PRU1].at < 6
        /\ pc' = [pc EXCEPT ![PRU1].at = pc[PRU1].at + 1]
        /\ UNCHANGED <<enabled, cmr, hmr, ger, hostOn, irqs, process, iram>>
    BY <2>1, <2>2, TwoPrus, Executed
  <2> QED BY <2>3 DEF Does, process
<1>4. pc \in [PRUs -> [program : Names, at : Nat]]
  BY DEF LoadInv
<1>5. /\ pc'[PRU1].program = "to_pru0" /\ pc'[PRU1].at = b + 1 /\ pc'[PRU0] = pc[PRU0]
  BY <1>1, <1>3, <1>4, TwoPrus
<1>6. Pace1(l)' = b + 1 /\ Pace0' = Pace0 /\ Pace0 \in 1 .. 6
  BY <1>0, <1>5, TogetherType DEF Pace1, Pace0
<1>7. Mapped(19)' /\ run' = PtoP
  BY <1>3 DEF Mapped, Together
<1>8. Raised(PRU1) => "pru0_pru1" \in raw
  BY PrusWake DEF Together, BoardType, IntcType
<1>9. pc'[PRU0].program = "to_pru1"
  BY <1>5 DEF Together
<1>10. /\ asked <=> Pace0 >= 2
       /\ "flag1" \in memory <=> b >= 4
       /\ "flag0" \in memory <=> Pace0 >= 4
       /\ b >= 2 => Pace0 >= 2
       /\ Pace0 >= 3 => b >= 5
       /\ "pru0_pru1" \in raw => Pace0 >= 2 /\ b <= 2
       /\ "pru1_pru0" \in raw => b >= 5 /\ Pace0 <= 4
       /\ "pru0_arm" \in raw => Pace0 = 6
       /\ "pru1_arm" \in raw => b = 6
       /\ raw \subseteq {"pru0_pru1", "pru1_pru0", "pru0_arm", "pru1_arm"}
  BY <1>1 DEF Together
<1>11. ~Halted(PRU1)
  BY <1>0, <1>3, TogetherType, <1>1
<1> HIDE DEF b
<1>12. b = 1 \/ b = 2 \/ b = 3 \/ b = 4 \/ b = 5
  BY <1>1, <1>3
<1>13. /\ b = 1 => "pru0_pru1" \in raw /\ (asked' <=> asked) /\ raw' = raw /\ memory' = memory
       /\ b = 2 => (asked' <=> asked) /\ raw' = raw \ {"pru0_pru1"} /\ memory' = memory
       /\ b = 3 => (asked' <=> asked) /\ raw' = raw /\ memory' = memory \union {"flag1"}
       /\ b = 4 => (asked' <=> asked) /\ raw' = raw \union {"pru1_pru0"} /\ memory' = memory
       /\ b = 5 => (asked' <=> asked) /\ raw' = raw \union {"pru1_arm"} /\ memory' = memory
  BY <1>3, <1>8, ToPru0Is
<1>14. /\ raw' \subseteq {"pru0_pru1", "pru1_pru0", "pru0_arm", "pru1_arm"}
       /\ "pru0_arm" \in raw' => "pru0_arm" \in raw
       /\ "pru0_pru1" \in raw' => b # 2 /\ "pru0_pru1" \in raw
       /\ "pru1_pru0" \in raw' => b = 4 \/ "pru1_pru0" \in raw
       /\ "pru1_arm" \in raw' => b = 5 \/ "pru1_arm" \in raw
       /\ "flag0" \in memory' <=> "flag0" \in memory
       /\ "flag1" \in memory' <=> b = 3 \/ "flag1" \in memory
       /\ asked' <=> asked
       /\ b = 1 => "pru0_pru1" \in raw
  BY <1>10, <1>12, <1>13
<1>15. /\ asked' <=> Pace0 >= 2
       /\ "flag1" \in memory' <=> b + 1 >= 4
       /\ "flag0" \in memory' <=> Pace0 >= 4
       /\ b + 1 >= 2 => Pace0 >= 2
       /\ Pace0 >= 3 => b + 1 >= 5
       /\ "pru0_pru1" \in raw' => Pace0 >= 2 /\ b + 1 <= 2
       /\ "pru1_pru0" \in raw' => b + 1 >= 5 /\ Pace0 <= 4
       /\ "pru0_arm" \in raw' => Pace0 = 6
       /\ "pru1_arm" \in raw' => b + 1 = 6
  BY <1>6, <1>10, <1>12, <1>14
<1> QED BY <1>0, <1>5, <1>6, <1>7, <1>9, <1>11, <1>14, <1>15 DEF Together

\* The program of an example on PRU0 takes one step.
LEMMA AloneType ==
  ASSUME LoadInv, BoardType, Alone
  PROVE  LET q == pc[PRU0].program
         IN  /\ q \in Singles /\ q \in Programs
             /\ App.opens = <<EVTOUT0>> /\ App.loads = <<Load(PRU0, q)>> /\ App.waits = <<Wait0>>
             /\ q = "data_ram" => App.checks = {"word1", "word2"}
             /\ q = "shared_ram" => App.sets = {"addends"} /\ App.checks = {"copy"}
             /\ q \in {"blink", "slave"} => App.checks = {}
             /\ q \in {"data_ram", "shared_ram"} => App.ends = {}
             /\ pc[PRU0].at \in 1 .. Len(Program[q])
             /\ Halted(PRU0) <=> pc[PRU0].at = Len(Program[q])
<1>1. run \in DOMAIN Example /\ run # PtoP
  BY DEF LoadInv, Alone
<1>2. PICK q \in Singles :
           /\ App.opens = <<EVTOUT0>> /\ App.loads = <<Load(PRU0, q)>> /\ App.waits = <<Wait0>>
           /\ q = "data_ram" => App.checks = {"word1", "word2"}
           /\ q = "shared_ram" => App.sets = {"addends"} /\ App.checks = {"copy"}
           /\ q \in {"blink", "slave"} => App.checks = {}
           /\ q \in {"data_ram", "shared_ram"} => App.ends = {}
  BY <1>1, SinglesAre DEF App
<1>3. pc[PRU0].program = q
  <2>1. App.loads[1].program = q
    BY <1>2 DEF Load
  <2> QED BY <2>1 DEF Alone
<1>4. q \in Programs /\ q # "none"
  BY DEF Singles, Programs
<1>5. pc[PRU0].at \in 1 .. Len(Program[q])
  BY <1>3, <1>4, TwoPrus DEF BoardType, PcType, Size
<1>6. Halted(PRU0) <=> pc[PRU0].at = Len(Program[q])
  BY <1>3, <1>4 DEF Halted
<1> QED BY <1>2, <1>3, <1>4, <1>5, <1>6

LEMMA AloneStep ==
  ASSUME LoadInv, BoardType, Alone, NEW p \in PRUs, Execute(p)
  PROVE  Alone' /\ p = PRU0 /\ ~Halted(PRU0)
<1> DEFINE q == pc[PRU0].program
           a == pc[PRU0].at
           n == Len(Program[q])
           i == Program[q][a]
<1>1. p = PRU0
  BY TwoPrus DEF Alone, Idle, Execute
<1>2. q \in Singles /\ q \in Programs /\ a \in 1 .. n /\ (Halted(PRU0) <=> a = n)
  BY AloneType
<1>3. /\ Does(PRU0, i) /\ a < n /\ pc' = [pc EXCEPT ![PRU0].at = a + 1]
      /\ UNCHANGED process
  BY <1>1, <1>2, Executed
<1>5. pc'[PRU0].program = q /\ pc'[PRU0].at = a + 1 /\ pc'[PRU1] = pc[PRU1]
  <2>1. pc \in [PRUs -> [program : Names, at : Nat]]
    BY DEF LoadInv
  <2> QED BY <1>3, <2>1, TwoPrus
<1>6. n \in {2, 3, 4} /\ Program[q][n - 1].do = "raise" /\ Program[q][n - 1].what = "pru0_arm"
      /\ \A k \in 1 .. n - 2 : Program[q][k].do \in {"set", "sum", "copy", "while"}
  BY <1>2, SinglesType
<1>7. /\ run' = run /\ App' = App /\ ~Halted(PRU0)
      /\ raw \subseteq {"pru0_arm"} /\ ~asked /\ "pru0_arm" \notin raw
      /\ run # PtoP /\ q = App.loads[1].program
  BY <1>2, <1>3 DEF process, App, Alone
<1>8. Idle(PRU1)'
  BY <1>5 DEF Alone, Idle, Running, Halted
<1>9. Halted(PRU0)' <=> a + 1 = n
  <2>1. q # "none"
    BY <1>2 DEF Programs
  <2> QED BY <1>5, <2>1 DEF Halted
<1>10. CASE a = n - 1
  <2>1. raw' = {"pru0_arm"} /\ ~asked' /\ memory' = memory
    BY <1>3, <1>6, <1>7, <1>10 DEF Does
  <2>2. Halted(PRU0)'
    BY <1>6, <1>9, <1>10
  <2>3. q = "data_ram" => n = 4 /\ "word1" \in memory /\ "word2" \in memory
    <3>1. q = "data_ram" => n = 4
      BY ProgramsAre, DataRamIs
    <3>2. n = 4 => a = 3
      BY <1>10
    <3> QED BY <3>1, <3>2 DEF Alone
  <2>4. q = "shared_ram" => "addends" \in memory /\ "copy" \in memory
    <3>1. q = "shared_ram" => n = 3
      BY ProgramsAre, SharedRamIs
    <3>2. n = 3 => a = 2
      BY <1>10
    <3> QED BY <3>1, <3>2 DEF Alone
  <2> QED BY <1>1, <1>5, <1>7, <1>8, <2>1, <2>2, <2>3, <2>4 DEF Alone
<1>11. CASE a # n - 1
  <2>1. a \in 1 .. n - 2
    BY <1>2, <1>3, <1>6, <1>11
  <2>2. i.do \in {"set", "sum", "copy", "while"}
    BY <1>6, <2>1
  <2>3. raw' = raw /\ ~asked'
    BY <1>3, <1>7, <2>2 DEF Does
  <2>4. CASE q = "data_ram"
    <3>1. n = 4 /\ Program[q] = DataRam
      BY <2>4, ProgramsAre, DataRamIs
    <3>2. a = 1 \/ a = 2
      BY <2>1, <3>1
    <3>3. a = 1 => memory' = memory \union {"word1"}
      BY <1>3, <3>1, DataRamIs DEF Does
    <3>4. a = 2 => memory' = memory \union {"word2"} /\ "word1" \in memory
      <4>1. a = 2 => "word1" \in memory
        BY <2>4 DEF Alone
      <4>2. Needs("word2") = "word1"
        BY DEF Needs
      <4> QED BY <1>3, <3>1, <4>1, <4>2, DataRamIs DEF Does
    <3>5. /\ a + 1 >= 2 => "word1" \in memory'
          /\ a + 1 >= 3 => "word2" \in memory'
      BY <3>2, <3>3, <3>4
    <3> QED BY <1>1, <1>5, <1>7, <1>8, <2>3, <2>4, <3>5 DEF Alone
  <2>5. CASE q = "shared_ram"
    <3>1. n = 3 /\ Program[q] = SharedRam
      BY <2>5, ProgramsAre, SharedRamIs
    <3>2. a = 1
      BY <2>1, <3>1
    <3>3. memory' = memory \union {"copy"} /\ "addends" \in memory
      <4>1. "addends" \in memory
        BY <2>5 DEF Alone
      <4>2. Needs("copy") = "addends"
        BY DEF Needs
      <4> QED BY <1>3, <3>1, <3>2, <4>1, <4>2, SharedRamIs DEF Does
    <3> QED BY <1>1, <1>5, <1>7, <1>8, <2>3, <2>5, <3>3 DEF Alone
  <2>6. CASE q \notin {"data_ram", "shared_ram"}
    BY <1>1, <1>5, <1>7, <1>8, <2>3, <2>6 DEF Alone
  <2> QED BY <2>4, <2>5, <2>6
<1> QED BY <1>10, <1>11

-----------------------------------------------------------------------------
\* The i-th wait is for the i-th program.
LEMMA WaitsType ==
  ASSUME LoadInv
  PROVE  /\ Len(App.waits) = Len(App.loads) /\ Len(App.opens) = Len(App.loads)
         /\ Len(App.loads) \in {1, 2} /\ (Len(App.loads) = 2 <=> run = PtoP)
         /\ \A i \in 1 .. Len(App.loads) :
              /\ App.opens[i] = App.waits[i].host
              /\ \/ i = 1 /\ App.waits[i] = Wait0 /\ App.loads[i].pru = PRU0
                 \/ i = 2 /\ App.waits[i] = Wait1 /\ App.loads[i].pru = PRU1
<1>1. run \in DOMAIN Example
  BY DEF LoadInv
<1>2. Wait0.host = EVTOUT0 /\ Wait1.host = EVTOUT1
  BY DEF Wait0, Wait1
<1>3. CASE run = PtoP
  <2>1. /\ App.opens = <<EVTOUT0, EVTOUT1>> /\ App.waits = <<Wait0, Wait1>>
        /\ App.loads = <<Load(PRU0, "to_pru1"), Load(PRU1, "to_pru0")>>
    BY <1>3, PtoPIs DEF App
  <2>2. App.loads[1].pru = PRU0 /\ App.loads[2].pru = PRU1
    BY <2>1 DEF Load
  <2>3. \A i \in 1 .. 2 : i = 1 \/ i = 2
    OBVIOUS
  <2> QED BY <1>2, <1>3, <2>1, <2>2, <2>3
<1>4. CASE run # PtoP
  <2>1. PICK q \in Singles :
          App.opens = <<EVTOUT0>> /\ App.waits = <<Wait0>> /\ App.loads = <<Load(PRU0, q)>>
    BY <1>1, <1>4, SinglesAre DEF App
  <2>2. App.loads[1].pru = PRU0
    BY <2>1 DEF Load
  <2>3. \A i \in 1 .. 1 : i = 1
    OBVIOUS
  <2> QED BY <1>2, <1>4, <2>1, <2>2, <2>3
<1> QED BY <1>3, <1>4

LEMMA WaitFields ==
  /\ Wait0.host = EVTOUT0 /\ Wait0.event = "pru0_arm"
  /\ Wait1.host = EVTOUT1 /\ Wait1.event = "pru1_arm"
  /\ EVTOUT0 # EVTOUT1 /\ ArmHosts = {EVTOUT0, EVTOUT1}
<1>1. 0 \notin Two /\ 0 \in Three
  BY DEF Two, Three
<1> QED BY <1>1 DEF Wait0, Wait1, ArmHosts, EVTOUT0, EVTOUT1

\* A halted PRU stays as it is while the other one executes.
LEMMA StaysHalted ==
  ASSUME LoadInv, NEW p \in PRUs, Execute(p), NEW x \in PRUs, Halted(x)
  PROVE  Halted(x)' /\ x # p
<1>1. pc' = [pc EXCEPT ![p].at = @ + 1] /\ ~Halted(p)
  BY DEF Execute, Running
<1>2. pc'[x] = pc[x]
  BY <1>1 DEF LoadInv
<1> QED BY <1>1, <1>2 DEF Halted

\* While programs of the run execute, an answer is not sent twice.
Works(l) == IF l = 0 THEN Alone ELSE Together(l)

LEMMA WorksStep ==
  ASSUME LoadInv, BoardType, NEW l \in {0, 1, 2}, Works(l), NEW p \in PRUs, Execute(p)
  PROVE  /\ Works(l)'
         /\ "pru0_arm" \in raw' => "pru0_arm" \in raw \/ ~Halted(PRU0)
         /\ "pru1_arm" \in raw' => "pru1_arm" \in raw \/ ~Halted(PRU1)
<1>1. CASE l = 0
  <2>1. Alone' /\ ~Halted(PRU0)
    BY <1>1, AloneStep DEF Works
  <2>2. "pru1_arm" \notin raw'
    BY <2>1 DEF Alone
  <2> QED BY <1>1, <2>1, <2>2 DEF Works
<1>2. CASE l # 0
  <2>1. l \in {1, 2} /\ Together(l)
    BY <1>2 DEF Works
  <2>2. CASE p = PRU0
    BY <1>2, <2>1, <2>2, Together0 DEF Works
  <2>3. CASE p = PRU1
    BY <1>2, <2>1, <2>3, Together1 DEF Works
  <2> QED BY <2>2, <2>3, TwoPrus
<1> QED BY <1>1, <1>2

\* An answer is there when its program has halted.
LEMMA WorksAnswers ==
  ASSUME LoadInv, BoardType, NEW l \in {0, 1, 2}, Works(l)
  PROVE  /\ "pru0_arm" \in raw => Halted(PRU0) /\ l # 1
         /\ "pru1_arm" \in raw => Halted(PRU1) /\ l = 2
<1>1. CASE l = 0
  <2>1. Alone
    BY <1>1 DEF Works
  <2> QED BY <1>1, <2>1 DEF Alone
<1>2. CASE l # 0
  <2>1. l \in {1, 2} /\ Together(l)
    BY <1>2 DEF Works
  <2>2. "pru0_arm" \in raw => Pace0 = 6
    BY <2>1 DEF Together
  <2>3. "pru1_arm" \in raw => Pace1(l) = 6
    BY <2>1 DEF Together
  <2>4. Pace0 >= 3 => Pace1(l) >= 5
    BY <2>1 DEF Together
  <2>5. l = 1 => Pace1(l) = 0
    BY DEF Pace1
  <2>6. /\ Halted(PRU0) <=> Pace0 = 6
        /\ l = 2 => (Halted(PRU1) <=> Pace1(l) = 6)
    BY <2>1, TogetherType
  <2>7. "pru0_arm" \in raw => l # 1
    BY <2>2, <2>4, <2>5
  <2>8. "pru1_arm" \in raw => l = 2
    BY <2>1, <2>3, <2>5
  <2> QED BY <2>2, <2>3, <2>6, <2>7, <2>8
<1> QED BY <1>1, <1>2

\* In which way the programs of a clean run execute, by the stage of main.
LEMMA WorksWhen ==
  ASSUME CleanInv, clean, ~Quiet,
         main \in {"idle", "stop", "ended"} \union Starting \union Loads \union After
  PROVE  /\ ~Waiting /\ main \notin {"stop", "ended"}
         /\ \E l \in {0, 1, 2} : /\ Works(l)
                                 /\ main \in Loads => l = 1
                                 /\ main \in After => l \in {0, 2}
<1>1. ~Waiting /\ main \notin {"stop", "ended"}
  BY DEF CleanInv, BeforePrus
<1>2. CASE main \in Loads
  <2>1. Together(1) /\ main \notin After
    BY <1>1, <1>2 DEF CleanInv, Waiting, Loads, After, Waits
  <2> QED BY <1>1, <2>1 DEF Works
<1>3. CASE main \in After
  <2>1. (Alone \/ Together(2)) /\ main \notin Loads
    BY <1>3 DEF CleanInv, Loads, After, Waits
  <2> QED BY <1>1, <2>1 DEF Works
<1>4. CASE main = "idle"
  <2>1. Alone \/ Together(1) \/ Together(2)
    BY <1>4 DEF CleanInv
  <2> QED BY <1>1, <1>4, <2>1 DEF Works, Loads, After, Waits
<1> QED BY <1>1, <1>2, <1>3, <1>4 DEF Waiting

LEMMA ExecuteStep ==
  ASSUME LoadInv, BoardType, CleanInv, NEW p \in PRUs, Execute(p)
  PROVE  CleanInv'
<1> SUFFICES ASSUME clean' PROVE CleanInv'
  BY DEF CleanInv
<1>1. UNCHANGED <<run, main, step, seen, verdict, clean, irqs>> /\ App' = App
  <2>1. UNCHANGED process
    BY DEF Execute
  <2>2. UNCHANGED irqs
    BY DEF Execute, Raise, Clear, intc
  <2> QED BY <2>1, <2>2 DEF process, App
<1>2. clean /\ ~Quiet
  BY <1>1 DEF Quiet, Idle, Execute
<1>3. main \in {"idle", "stop", "ended"} \union Starting \union Loads \union After
  BY DEF BoardType, StepType
<1>4. PICK l \in {0, 1, 2} : /\ Works(l)
                             /\ main \in Loads => l = 1
                             /\ main \in After => l \in {0, 2}
  BY <1>2, <1>3, WorksWhen
<1>5. ~Waiting /\ main \notin {"stop", "ended"}
  BY <1>2, <1>3, WorksWhen
<1>6. /\ Works(l)'
      /\ "pru0_arm" \in raw' => "pru0_arm" \in raw \/ ~Halted(PRU0)
      /\ "pru1_arm" \in raw' => "pru1_arm" \in raw \/ ~Halted(PRU1)
  BY <1>4, WorksStep
<1>7. Started => Heard'
  <2> SUFFICES ASSUME Started PROVE Heard'
    OBVIOUS
  <2>1. Heard
    BY <1>2 DEF CleanInv
  <2>2. ASSUME NEW i \in 1 .. Len(App.waits)
        PROVE  /\ irqs[App.waits[i].host] # seen[App.waits[i].host]
                    => (main \in After \/ i < step) /\ Halted(App.loads[i].pru)'
               /\ Answered(i) => Halted(App.loads[i].pru)'
               /\ Acknowledged(i) => App.waits[i].event \notin raw'
    <3>1. /\ irqs[App.waits[i].host] # seen[App.waits[i].host]
               => (main \in After \/ i < step) /\ Halted(App.loads[i].pru)
          /\ Answered(i) => Halted(App.loads[i].pru)
          /\ Acknowledged(i) => App.waits[i].event \notin raw
      BY <2>1 DEF Heard
    <3>2. Halted(PRU0) => Halted(PRU0)'
      BY TwoPrus, StaysHalted
    <3>3. Halted(PRU1) => Halted(PRU1)'
      BY TwoPrus, StaysHalted
    <3>4. \/ App.waits[i] = Wait0 /\ App.loads[i].pru = PRU0
          \/ App.waits[i] = Wait1 /\ App.loads[i].pru = PRU1
      BY WaitsType
    <3>5. Acknowledged(i) => Answered(i)
      <4>1. i \in Nat /\ (main \in Waits => step \in Nat)
        BY DEF BoardType, StepType
      <4> QED BY <4>1 DEF Acknowledged, Answered, Waits
    <3>6. CASE App.waits[i] = Wait0 /\ App.loads[i].pru = PRU0
      BY <1>1, <1>6, <3>1, <3>2, <3>5, <3>6, WaitFields DEF Halted
    <3>7. CASE App.waits[i] = Wait1 /\ App.loads[i].pru = PRU1
      BY <1>1, <1>6, <3>1, <3>3, <3>5, <3>7, WaitFields DEF Halted
    <3> QED BY <3>4, <3>6, <3>7
  <2>3. Len(App.waits)' = Len(App.waits) /\ verdict' = "none"
    BY <1>1, <2>1 DEF Heard
  <2>4. \A i : (Answered(i)' <=> Answered(i)) /\ (Acknowledged(i)' <=> Acknowledged(i))
    BY <1>1 DEF Answered, Acknowledged
  <2> QED BY <1>1, <2>2, <2>3, <2>4 DEF Heard, Halted
<1>8. (Waiting' <=> Waiting) /\ (Started' <=> Started)
  BY <1>1 DEF Waiting, Started
<1>9. main' \in Loads => Together(1)'
  BY <1>1, <1>4, <1>6 DEF Works
<1>10. main' \in After => Alone' \/ Together(2)'
  BY <1>1, <1>4, <1>6 DEF Works
<1>11. Alone' \/ Together(1)' \/ Together(2)'
  BY <1>6 DEF Works
<1>12. verdict' # "failed"
  BY <1>1, <1>2 DEF CleanInv
<1> QED BY <1>1, <1>5, <1>7, <1>8, <1>9, <1>10, <1>11, <1>12 DEF CleanInv

\* Nothing interrupts main before it has started a program; after that an
\* interrupt is the answer of a program that has halted.
LEMMA KernelStep ==
  ASSUME LoadInv, BoardType, CleanInv, Kernel
  PROVE  CleanInv'
<1> SUFFICES ASSUME clean' PROVE CleanInv'
  BY DEF CleanInv
<1>1. PICK h \in ArmHosts : Interrupt(h)
  BY DEF Kernel
<1>2. /\ UNCHANGED <<run, main, step, seen, verdict, clean, raw, cmr, hmr, pc, memory, asked, ddr>>
      /\ App' = App /\ hostOn' = hostOn \ {h} /\ irqs' = [irqs EXCEPT ![h] = irqs[h] + 1]
  BY <1>1 DEF Kernel, process, board, App, Interrupt, mapping
<1>3. clean /\ main \in {"idle", "stop", "ended"} \union Starting \union Loads \union After
  BY <1>2 DEF BoardType, StepType
<1>4. /\ h = EVTOUT0 => EVTOUT0 \in hostOn /\ "pru0_arm" \in raw
      /\ h = EVTOUT1 => EVTOUT1 \in hostOn /\ "pru1_arm" \in raw
  BY <1>1, RaisedBy DEF Interrupt, BoardType, IntcType
<1>5. h = EVTOUT0 \/ h = EVTOUT1
  BY WaitFields
<1>6. ~Waiting
  <2>1. Waiting => BeforePrus
    BY <1>3 DEF CleanInv
  <2> QED BY <1>4, <1>5, <2>1, WaitFields DEF BeforePrus
<1>7. (Waiting' <=> Waiting) /\ (Started' <=> Started)
  BY <1>2 DEF Waiting, Started
<1>8. /\ \A p : (Halted(p)' <=> Halted(p)) /\ (Idle(p)' <=> Idle(p))
      /\ Quiet' <=> Quiet
  BY <1>2 DEF Halted, Idle, Running, Quiet
<1>9. /\ Alone' <=> Alone
      /\ Together(1)' <=> Together(1)
      /\ Together(2)' <=> Together(2)
  <2>1. Mapped(19)' <=> Mapped(19)
    BY <1>2 DEF Mapped
  <2>2. Pace0' = Pace0 /\ Pace1(1)' = Pace1(1) /\ Pace1(2)' = Pace1(2)
    BY <1>2 DEF Pace0, Pace1
  <2>3. (Idle(PRU1)' <=> Idle(PRU1)) /\ (Halted(PRU0)' <=> Halted(PRU0))
    BY <1>2 DEF Halted, Idle, Running
  <2> QED BY <1>2, <2>1, <2>2, <2>3 DEF Alone, Together
<1>10. Started => Heard'
  <2> SUFFICES ASSUME Started PROVE Heard'
    OBVIOUS
  <2>1. Heard
    BY <1>3 DEF CleanInv
  <2>2. PICK l \in {0, 1, 2} :
          Works(l) /\ (main \in Loads => l = 1) /\ (main \in After => l \in {0, 2})
    <3>1. main \in After => Alone \/ Together(2)
      BY <1>3 DEF CleanInv
    <3>2. main \in Loads => Together(1) /\ main \notin After
      BY <1>3, <1>6 DEF CleanInv, Waiting, Loads, After, Waits
    <3> QED BY <3>1, <3>2 DEF Works, Started
  <2>3. /\ "pru0_arm" \in raw => Halted(PRU0) /\ l # 1
        /\ "pru1_arm" \in raw => Halted(PRU1) /\ l = 2
    BY <2>2, WorksAnswers
  <2>4. raw \intersect {"pru0_arm", "pru1_arm"} # {} => main \in After
    BY <2>2, <2>3 DEF Started
  <2>5. ASSUME NEW i \in 1 .. Len(App.waits)
        PROVE  /\ irqs'[App.waits[i].host] # seen[App.waits[i].host]
                    => (main \in After \/ i < step) /\ Halted(App.loads[i].pru)
               /\ Answered(i) => Halted(App.loads[i].pru)
               /\ Acknowledged(i) => App.waits[i].event \notin raw
    <3>1. /\ irqs[App.waits[i].host] # seen[App.waits[i].host]
               => (main \in After \/ i < step) /\ Halted(App.loads[i].pru)
          /\ Answered(i) => Halted(App.loads[i].pru)
          /\ Acknowledged(i) => App.waits[i].event \notin raw
      BY <2>1 DEF Heard
    <3>2. CASE App.waits[i].host # h
      <4>1. irqs'[App.waits[i].host] = irqs[App.waits[i].host]
        BY <1>2, <3>2 DEF BoardType, IntcType
      <4> QED BY <3>1, <4>1
    <3>3. CASE App.waits[i].host = h
      <4>1. \/ App.waits[i] = Wait0 /\ App.loads[i].pru = PRU0
            \/ App.waits[i] = Wait1 /\ App.loads[i].pru = PRU1
        BY WaitsType
      <4>2. CASE App.waits[i] = Wait0 /\ App.loads[i].pru = PRU0
        BY <1>4, <2>3, <2>4, <3>1, <3>3, <4>2, WaitFields
      <4>3. CASE App.waits[i] = Wait1 /\ App.loads[i].pru = PRU1
        BY <1>4, <2>3, <2>4, <3>1, <3>3, <4>3, WaitFields
      <4> QED BY <4>1, <4>2, <4>3
    <3> QED BY <3>2, <3>3
  <2>6. \A i : (Answered(i)' <=> Answered(i)) /\ (Acknowledged(i)' <=> Acknowledged(i))
    BY <1>2 DEF Answered, Acknowledged
  <2>7. verdict' = "none"
    BY <1>2, <2>1 DEF Heard
  <2> QED BY <1>2, <2>5, <2>6, <2>7 DEF Heard, Halted
<1>11. CleanInv
  OBVIOUS
<1> QED BY <1>2, <1>3, <1>6, <1>7, <1>8, <1>9, <1>10, <1>11 DEF CleanInv, Halted

-----------------------------------------------------------------------------
\* main, before it has started a program.
LEMMA StartStep ==
  ASSUME LoadInv, BoardType, Start
  PROVE  CleanInv'
<1> SUFFICES ASSUME clean' PROVE CleanInv'
  BY DEF CleanInv
<1>1. /\ main' = "open" /\ step' = 1 /\ verdict' = "none" /\ ~asked' /\ IdleBoard
      /\ UNCHANGED <<intc, pc>>
  BY DEF Start
<1>2. Quiet' /\ \A w \in {Wait0, Wait1} : w.host \in hostOn' => w.event \notin raw'
  <2>1. Quiet
    BY <1>1 DEF IdleBoard, Quiet
  <2> QED BY <1>1, <2>1 DEF IdleBoard, Quiet, Idle, Running, Halted, intc
<1>4. BeforePrus'
  <2>1. main' \notin {"prepare"} \union Loads /\ main' # "intc"
    BY <1>1 DEF Loads
  <2> QED BY <1>1, <1>2, <2>1 DEF BeforePrus
<1> QED BY <1>1, <1>4 DEF CleanInv, Started, After, Waits, Loads

LEMMA OpenStep ==
  ASSUME LoadInv, BoardType, CleanInv, Open
  PROVE  CleanInv'
<1> SUFFICES ASSUME clean' PROVE CleanInv'
  BY DEF CleanInv
<1>1. /\ main = "open" /\ step \in 1 .. Len(App.opens)
      /\ \/ step = Len(App.opens) /\ main' = "intc" /\ step' = 1
         \/ step # Len(App.opens) /\ main' = "open" /\ step' = step + 1
      /\ seen' = [seen EXCEPT ![App.opens[step]] = irqs[App.opens[step]]]
      /\ UNCHANGED <<intc, pc, memory, asked, verdict, clean>> /\ App' = App
  BY DEF Open, Each, BoardType, StepType, board, App
<1>2. BeforePrus
  BY <1>1 DEF CleanInv, Waiting, Starting
<1>3. \A i \in 1 .. Len(App.opens) : App.opens[i] \in ArmHosts
  BY WaitsType, WaitFields
<1>4. \A i \in 1 .. Len(App.opens) : i <= step => irqs[App.opens[i]] = seen'[App.opens[i]]
  <2>1. TAKE i \in 1 .. Len(App.opens)
  <2>2. CASE App.opens[i] = App.opens[step]
    BY <1>1, <1>3, <2>2 DEF BoardType, IntcType
  <2>3. CASE App.opens[i] # App.opens[step]
    <3>1. seen'[App.opens[i]] = seen[App.opens[i]]
      BY <1>1, <1>3, <2>3 DEF BoardType, IntcType
    <3>2. i <= step => i < step
      BY <1>1, <2>3
    <3> QED BY <1>1, <1>2, <3>1, <3>2 DEF BeforePrus
  <2> QED BY <2>2, <2>3
<1>5. /\ main' = "open" => \A i \in 1 .. Len(App.opens) : i < step' => i <= step
      /\ main' # "open" => \A i \in 1 .. Len(App.opens) : i <= step
  BY <1>1
<1>6. Quiet' /\ ~asked' /\ verdict' = "none" /\ raw' = raw /\ hostOn' = hostOn /\ irqs' = irqs
  BY <1>1, <1>2 DEF BeforePrus, Quiet, Idle, Running, Halted, intc
<1>7. main' = "intc" => Mapped(step - 1)' /\ ~(step' > Clearing)
  BY <1>1 DEF Mapped, Clearing
<1>8. main' \in {"open", "intc"} /\ main' \notin {"prepare"} \union Loads
  BY <1>1 DEF Loads
<1>9. BeforePrus'
  BY <1>1, <1>2, <1>4, <1>5, <1>6, <1>7, <1>8 DEF BeforePrus
<1> QED BY <1>6, <1>8, <1>9 DEF CleanInv, Started, After, Waits, Loads

LEMMA IntcStep ==
  ASSUME LoadInv, BoardType, CleanInv, IntcWrite
  PROVE  CleanInv'
<1> SUFFICES ASSUME clean' PROVE CleanInv'
  BY DEF CleanInv
<1>1. /\ main = "intc" /\ step \in 1 .. 19 /\ Write(Writes[step])
      /\ \/ step = 19 /\ main' = "prepare" /\ step' = 1
         \/ step < 19 /\ main' = "intc" /\ step' = step + 1
      /\ UNCHANGED <<pc, memory, asked, verdict, clean, seen>> /\ App' = App
  <2>1. Len(Writes) = 19
    BY WritesAre
  <2> QED BY <2>1 DEF IntcWrite, Each, BoardType, StepType, board, App
<1>2. BeforePrus
  BY <1>1 DEF CleanInv, Waiting, Starting
<1>3. PICK k \in 1 .. 19 : k = step
  BY <1>1
<1>4. Mapped(k)'
  BY <1>1, <1>2, <1>3, MappedStep DEF BeforePrus, BoardType, IntcType
<1>5. /\ Writes[k].reg = "secr" <=> k = Clearing
      /\ Writes[k].reg = "hieisr" => k > Clearing
  BY WritesType
<1>6. /\ k = Clearing => raw' = {}
      /\ k # Clearing => raw' = raw
      /\ k <= Clearing => hostOn' = hostOn
      /\ irqs' = irqs
  <2>1. raw \ Events = {}
    BY DEF BoardType, IntcType
  <2>2. Clearing \in Nat
    BY DEF Clearing
  <2> QED BY <1>1, <1>3, <1>5, <2>1, <2>2 DEF Write
<1>7. k > Clearing => raw = {}
  BY <1>1, <1>2, <1>3 DEF BeforePrus
<1>8. k >= Clearing => raw' = {}
  BY <1>6, <1>7 DEF Clearing
<1>9. \A w \in {Wait0, Wait1} : w.host \in hostOn' => w.event \notin raw'
  <2>1. CASE k >= Clearing
    BY <1>8, <2>1
  <2>2. CASE k < Clearing
    <3>1. raw' = raw /\ hostOn' = hostOn
      BY <1>6, <2>2 DEF Clearing
    <3> QED BY <1>2, <3>1 DEF BeforePrus
  <2> QED BY <2>1, <2>2 DEF Clearing
<1>10. Quiet' /\ ~asked' /\ verdict' = "none"
  BY <1>1, <1>2 DEF BeforePrus, Quiet, Idle, Running, Halted
<1>11. \A i \in 1 .. Len(App.opens) : irqs'[App.opens[i]] = seen'[App.opens[i]]
  BY <1>1, <1>2, <1>6 DEF BeforePrus
<1>12. main' = "intc" => step' - 1 = k /\ (step' > Clearing => raw' = {})
  BY <1>1, <1>3, <1>8 DEF Clearing
<1>13. main' = "prepare" => k = 19 /\ raw' = {}
  BY <1>1, <1>3, <1>8 DEF Clearing
<1>14. main' \in {"intc", "prepare"} /\ main' \notin Loads /\ main' # "open"
  BY <1>1 DEF Loads
<1>15. BeforePrus'
  <2>1. main' = "intc" => Mapped(step - 1)'
    BY <1>4, <1>12 DEF Mapped
  <2> QED BY <1>1, <1>4, <1>9, <1>10, <1>11, <1>12, <1>13, <1>14, <2>1 DEF BeforePrus
<1> QED BY <1>10, <1>14, <1>15 DEF CleanInv, Started, After, Waits, Loads

LEMMA PrepareStep ==
  ASSUME LoadInv, BoardType, CleanInv, ExampleInit
  PROVE  CleanInv'
<1> SUFFICES ASSUME clean' PROVE CleanInv'
  BY DEF CleanInv
<1>1. /\ main = "prepare" /\ main' = "load" /\ step' = step /\ clean
      /\ memory' = (memory \ App.clears) \union App.sets
      /\ UNCHANGED <<intc, seen, verdict, pc, asked>> /\ App' = App
  BY DEF ExampleInit, At, App
<1>2. BeforePrus /\ step = 1
  BY <1>1 DEF CleanInv, Waiting, Starting, LoadInv, Loading
<1>3. App.clears \intersect App.sets = {}
  <2>1. run \in DOMAIN Example
    BY DEF LoadInv
  <2>2. App.clears = {} \/ App.sets = {}
    BY <2>1, PtoPIs, SinglesAre DEF App
  <2> QED BY <2>2
<1>4. App.clears \intersect memory' = {} /\ App.sets \subseteq memory'
  BY <1>1, <1>3
<1>5. Mapped(19)'
  BY <1>1, <1>2 DEF BeforePrus, Mapped, intc
<1>6. Quiet'
  BY <1>1, <1>2 DEF BeforePrus, Quiet, Idle, Running, Halted
<1>7. main' \in Loads /\ main' \notin {"open", "intc"}
  BY <1>1 DEF Loads
<1>8. BeforePrus'
  BY <1>1, <1>2, <1>4, <1>5, <1>6, <1>7 DEF BeforePrus, intc
<1> QED BY <1>1, <1>2, <1>8 DEF CleanInv, Started, After, Waits

\* A program is read and written while nothing of the run, or PRU0 alone, executes.
LEMMA LoadStep ==
  ASSUME LoadInv, BoardType, CleanInv, ReadFile \/ WriteMemory
  PROVE  CleanInv'
<1> SUFFICES ASSUME clean' PROVE CleanInv'
  BY DEF CleanInv
<1> DEFINE p == App.loads[step].pru
<1>1. /\ main \in Loads /\ main' \in Loads /\ step' = step /\ clean
      /\ UNCHANGED <<intc, seen, verdict, memory, asked, run>> /\ App' = App
      /\ pc' = pc \/ pc' = [pc EXCEPT ![p] = Off]
  BY DEF ReadFile, WriteMemory, Loads, App
<1>2. step \in 1 .. Len(App.loads)
  BY <1>1 DEF LoadInv, Loading, Loads
<1>3. p \in PRUs /\ (step # 1 => run = PtoP /\ p = PRU1) /\ (step = 1 => p = PRU0)
  BY <1>2, WaitsType, TwoPrus
<1>4. \A x \in PRUs : pc'[x] = pc[x] \/ (x = p /\ pc'[x] = Off)
  BY <1>1, <1>3 DEF LoadInv
<1>5. \A x \in PRUs : Idle(x) => Idle(x)'
  BY <1>4 DEF Idle, Running, Halted, Off
<1> HIDE DEF p
<1>6. CASE step = 1
  <2>1. BeforePrus
    BY <1>1, <1>6 DEF CleanInv, Waiting
  <2>2. Quiet' /\ Mapped(19)'
    BY <1>1, <1>5, <2>1 DEF BeforePrus, Quiet, Mapped, Loads, intc
  <2>3. main \notin {"open", "intc"} /\ main' \notin {"open", "intc"}
    BY <1>1 DEF Loads
  <2>4. BeforePrus'
    BY <1>1, <2>1, <2>2, <2>3 DEF BeforePrus, intc
  <2> QED BY <1>1, <1>6, <2>4 DEF CleanInv, BeforePrus, Started, Loads, After, Waits
<1>7. CASE step # 1
  <2>1. Together(1) /\ Heard
    BY <1>1, <1>7 DEF CleanInv, Started
  <2>2. pc'[PRU0] = pc[PRU0] /\ Idle(PRU1)'
    BY <1>3, <1>4, <1>5, <1>7, <2>1, TwoPrus DEF Together
  <2>3. Mapped(19)' /\ Pace0' = Pace0 /\ Pace1(1)' = Pace1(1)
    BY <1>1, <2>1, <2>2 DEF Mapped, Together, intc, Pace0, Pace1
  <2>4. Together(1)'
    BY <1>1, <2>1, <2>2, <2>3 DEF Together, intc
  <2>5. Heard'
    <3>1. main \notin After /\ main' \notin After
      BY <1>1 DEF Loads, After, Waits
    <3>2. \A i : ~Answered(i)' /\ ~Acknowledged(i)'
      BY <1>1 DEF Answered, Acknowledged, Loads, Waits
    <3>3. ASSUME NEW i \in 1 .. Len(App.waits), irqs[App.waits[i].host] # seen[App.waits[i].host]
          PROVE  i < step /\ Halted(PRU0)' /\ App.loads[i].pru = PRU0
      <4>1. i < step /\ Halted(App.loads[i].pru)
        BY <2>1, <3>1, <3>3 DEF Heard
      <4>2. i = 1 /\ App.loads[i].pru = PRU0
        BY <1>2, <4>1, WaitsType
      <4> QED BY <2>2, <4>1, <4>2 DEF Halted
    <3>4. verdict' = "none" /\ irqs' = irqs /\ seen' = seen /\ step' = step /\ App' = App
      BY <1>1, <2>1 DEF Heard, intc
    <3>5. ASSUME NEW i \in 1 .. Len(App.waits), irqs'[App.waits[i].host] # seen'[App.waits[i].host]
          PROVE  i < step' /\ Halted(App.loads[i].pru)'
      <4>1. i < step /\ Halted(PRU0)' /\ App.loads[i].pru = PRU0
        BY <3>3, <3>4, <3>5
      <4> QED BY <3>4, <4>1 DEF Halted
    <3> QED BY <3>2, <3>4, <3>5 DEF Heard
  <2> QED BY <1>1, <1>7, <2>1, <2>4, <2>5
          DEF CleanInv, Heard, Waiting, Starting, Loads, After, Waits
<1> QED BY <1>6, <1>7

\* A program is started at its first instruction, from a memory that holds it.
LEMMA EnableStep ==
  ASSUME LoadInv, BoardType, CleanInv, Enable
  PROVE  CleanInv'
<1> SUFFICES ASSUME clean' PROVE CleanInv'
  BY DEF CleanInv
<1>1. /\ main = "enable" /\ clean
      /\ IF step = Len(App.loads) THEN main' = "end" /\ step' = 1
                                  ELSE main' = "load" /\ step' = step + 1
      /\ UNCHANGED <<intc, seen, verdict, memory, asked, run>> /\ App' = App
  BY DEF Enable, App
<1>2. step \in 1 .. Len(App.loads) /\ Full(App.loads[step].pru, App.loads[step].program)
  BY <1>1 DEF LoadInv, Loading
<1>3. pc' = [pc EXCEPT ![App.loads[step].pru] = [program |-> App.loads[step].program, at |-> 1]]
  <2>1. 1 \in Words
    BY ExamplesAssumption DEF Words
  <2> QED BY <1>2, <2>1 DEF Enable, Full
<1>4. CASE step = 1
  <2>1. BeforePrus /\ App.loads[1].pru = PRU0
    BY <1>1, <1>2, <1>4, WaitsType DEF CleanInv, Waiting, Loads
  <2>2. pc'[PRU0] = [program |-> App.loads[1].program, at |-> 1] /\ pc'[PRU1] = pc[PRU1]
    BY <1>3, <1>4, <2>1, TwoPrus DEF LoadInv
  <2>3. Idle(PRU1)'
    BY <2>1, <2>2, TwoPrus DEF BeforePrus, Quiet, Idle, Running, Halted
  <2>4. Heard'
    <3>1. \A i : ~Answered(i)' /\ ~Acknowledged(i)'
      BY <1>1 DEF Answered, Acknowledged, Waits
    <3>2. \A i \in 1 .. Len(App.waits) : irqs[App.waits[i].host] = seen[App.waits[i].host]
      BY <1>1, <2>1, WaitsType DEF BeforePrus
    <3> QED BY <1>1, <2>1, <3>1, <3>2 DEF Heard, BeforePrus, intc
  <2>5. raw' = {} /\ ~asked' /\ Mapped(19)' /\ verdict' = "none"
    BY <1>1, <2>1 DEF BeforePrus, Mapped, Loads, intc
  <2>6. App.clears \intersect memory' = {} /\ App.sets \subseteq memory'
    BY <1>1, <2>1 DEF BeforePrus, Loads
  <2>7. CASE run = PtoP
    <3>1. App.loads[1].program = "to_pru1" /\ App.clears = {"flag0", "flag1"}
      BY <2>7, PtoPIs DEF App, Load
    <3>2. Pace0' = 1 /\ Pace1(1)' = 0
      BY <2>2 DEF Pace0, Pace1
    <3>3. Together(1)'
      BY <1>1, <2>2, <2>3, <2>5, <2>6, <2>7, <3>1, <3>2 DEF Together
    <3>4. main' = "load" /\ step' = 2
      BY <1>1, <1>4, <2>7, WaitsType
    <3> QED BY <2>4, <2>5, <3>3, <3>4
            DEF CleanInv, Waiting, Starting, Loads, After, Waits
  <2>8. CASE run # PtoP
    <3>1. App.sets # {"addends"} => App.loads[1].program # "shared_ram"
      <4>1. PICK q \in Singles : /\ App.loads = <<Load(PRU0, q)>>
                                 /\ q = "shared_ram" => App.sets = {"addends"}
        BY <2>8, SinglesAre DEF App, LoadInv
      <4> QED BY <4>1 DEF Load
    <3>2. Alone'
      BY <1>1, <2>2, <2>3, <2>5, <2>6, <2>8, <3>1 DEF Alone
    <3>3. main' = "end"
      BY <1>1, <1>4, <2>8, WaitsType
    <3> QED BY <2>4, <2>5, <3>2, <3>3
            DEF CleanInv, Waiting, Starting, Loads, After, Waits
  <2> QED BY <2>7, <2>8
<1>5. CASE step # 1
  <2>1. run = PtoP /\ step = 2 /\ Len(App.loads) = 2
    BY <1>2, <1>5, WaitsType
  <2>2. App.loads[2] = Load(PRU1, "to_pru0")
    BY <2>1, PtoPIs DEF App
  <2>3. App.loads[2].pru = PRU1 /\ App.loads[2].program = "to_pru0"
    BY <2>2 DEF Load
  <2>4. Together(1) /\ Heard
    BY <1>1, <1>5 DEF CleanInv, Started, Loads
  <2>5. pc'[PRU1] = [program |-> "to_pru0", at |-> 1] /\ pc'[PRU0] = pc[PRU0]
    BY <1>3, <2>1, <2>3, TwoPrus DEF LoadInv
  <2>6. Pace0' = Pace0 /\ Pace1(2)' = 1 /\ Pace1(1) = 0 /\ Mapped(19)'
    BY <1>1, <2>4, <2>5 DEF Pace0, Pace1, Mapped, Together, intc
  <2>7. Together(2)'
    BY <1>1, <2>1, <2>4, <2>5, <2>6 DEF Together, intc
  <2>8. main' = "end" /\ step' = 1
    BY <1>1, <2>1
  <2>9. Heard'
    <3>1. main \notin After
      BY <1>1 DEF After, Waits
    <3>2. \A i : ~Answered(i)' /\ ~Acknowledged(i)'
      BY <2>8 DEF Answered, Acknowledged, Waits
    <3>3. ASSUME NEW i \in 1 .. Len(App.waits), irqs[App.waits[i].host] # seen[App.waits[i].host]
          PROVE  Halted(PRU0)' /\ App.loads[i].pru = PRU0
      <4>1. i < step /\ Halted(App.loads[i].pru)
        BY <2>4, <3>1, <3>3 DEF Heard
      <4>2. i = 1 /\ App.loads[i].pru = PRU0
        BY <2>1, <4>1, WaitsType
      <4> QED BY <2>5, <4>1, <4>2 DEF Halted
    <3>4. main' \in After
      BY <2>8 DEF After
    <3> QED BY <1>1, <2>4, <3>2, <3>3, <3>4 DEF Heard, intc, Halted
  <2> QED BY <2>4, <2>7, <2>8, <2>9
          DEF CleanInv, Heard, Waiting, Starting, Loads, After, Waits
<1> QED BY <1>4, <1>5

-----------------------------------------------------------------------------
\* main, from the end of the loads to the end of the waits.
LEMMA EndStep ==
  ASSUME LoadInv, BoardType, CleanInv, EndProgram
  PROVE  CleanInv'
<1> SUFFICES ASSUME clean' PROVE CleanInv'
  BY DEF CleanInv
<1>1. /\ main = "end" /\ main' = "wait" /\ step' = step /\ clean /\ step = 1
      /\ memory' = memory \ App.ends
      /\ UNCHANGED <<intc, seen, verdict, asked, run, pc>> /\ App' = App
  BY DEF EndProgram, At, App, BoardType, StepType
<1>2. Heard /\ (Alone \/ Together(2))
  BY <1>1 DEF CleanInv, Started, After
<1>3. Alone => Alone'
  <2>1. Alone => (pc[PRU0].program \in {"data_ram", "shared_ram"} => App.ends = {})
    BY AloneType
  <2>2. (Idle(PRU1)' <=> Idle(PRU1)) /\ (Halted(PRU0)' <=> Halted(PRU0))
    BY <1>1 DEF Halted, Idle, Running
  <2>3. App.ends = {} => memory' = memory
    BY <1>1
  <2> QED BY <1>1, <2>1, <2>2, <2>3 DEF Alone, intc
<1>4. Together(2) => Together(2)'
  <2> SUFFICES ASSUME Together(2) PROVE Together(2)'
    OBVIOUS
  <2>1. App.ends = {}
    BY PtoPIs DEF Together, App
  <2>2. Mapped(19)' /\ Pace0' = Pace0 /\ Pace1(2)' = Pace1(2) /\ memory' = memory
    BY <1>1, <2>1 DEF Mapped, Together, intc, Pace0, Pace1
  <2> QED BY <1>1, <2>2 DEF Together, intc
<1>5. Heard'
  <2>1. \A i \in Nat \ {0} : ~Answered(i)' /\ ~Acknowledged(i)'
    BY <1>1 DEF Answered, Acknowledged
  <2>2. main' \in After
    BY <1>1 DEF After, Waits
  <2>3. irqs' = irqs /\ seen' = seen /\ pc' = pc /\ verdict' = "none" /\ App' = App
    BY <1>1, <1>2 DEF intc, Heard
  <2>4. Len(App.waits) \in Nat
    BY WaitsType
  <2>5. \A i \in 1 .. Len(App.waits) : i \in Nat \ {0}
    BY <2>4
  <2> QED BY <1>2, <2>1, <2>2, <2>3, <2>5 DEF Heard, Halted
<1> QED BY <1>1, <1>2, <1>3, <1>4, <1>5 DEF CleanInv, Heard, Waiting, Starting, Loads

\* A wait ends because the program it waits for has halted.
LEMMA WaitStep ==
  ASSUME LoadInv, BoardType, CleanInv, Wait
  PROVE  CleanInv'
<1> SUFFICES ASSUME clean' PROVE CleanInv'
  BY DEF CleanInv
<1> DEFINE h == App.waits[step].host
<1>1. /\ main = "wait" /\ main' = "reenable" /\ step' = step /\ clean
      /\ step \in 1 .. Len(App.waits)
      /\ irqs[h] # seen[h] /\ seen' = [seen EXCEPT ![h] = irqs[h]]
      /\ UNCHANGED <<intc, verdict, run, board>> /\ App' = App
  BY DEF Wait, At, App, BoardType, StepType, Waits
<1>2. Heard /\ (Alone \/ Together(2))
  BY <1>1 DEF CleanInv, Started, After, Waits
<1>3. (Alone => Alone') /\ (Together(2) => Together(2)')
  <2>1. (Idle(PRU1)' <=> Idle(PRU1)) /\ (Halted(PRU0)' <=> Halted(PRU0))
    BY <1>1 DEF Halted, Idle, Running, board
  <2>2. Mapped(19)' <=> Mapped(19)
    BY <1>1 DEF Mapped, intc
  <2>3. Pace0' = Pace0 /\ Pace1(2)' = Pace1(2)
    BY <1>1 DEF Pace0, Pace1, board
  <2> QED BY <1>1, <2>1, <2>2, <2>3 DEF Alone, Together, intc, board
<1>4. Halted(App.loads[step].pru)
  BY <1>1, <1>2 DEF Heard
<1>5. \A i \in 1 .. Len(App.waits) : App.waits[i].host \in ArmHosts
  BY WaitsType, WaitFields
<1>6. h \in ArmHosts
  BY <1>1, <1>5
<1>7. irqs' = irqs /\ pc' = pc /\ verdict' = "none" /\ raw' = raw
  BY <1>1, <1>2 DEF intc, board, Heard
<1>8. \A g \in ArmHosts : irqs'[g] # seen'[g] => irqs[g] # seen[g]
  BY <1>1, <1>6, <1>7 DEF BoardType, IntcType
<1> HIDE DEF h
<1>9. Heard'
  <2>1. ASSUME NEW i \in 1 .. Len(App.waits)
        PROVE  /\ irqs'[App.waits[i].host] # seen'[App.waits[i].host] => Halted(App.loads[i].pru)
               /\ i <= step => Halted(App.loads[i].pru)
               /\ i < step => App.waits[i].event \notin raw
    <3>1. i < step \/ i = step \/ i > step
      BY <1>1
    <3>2. i < step => Answered(i) /\ Acknowledged(i)
      BY <1>1 DEF Answered, Acknowledged, Waits
    <3> QED BY <1>1, <1>2, <1>4, <1>5, <1>8, <3>1, <3>2 DEF Heard
  <2>2. main' \in After
    BY <1>1 DEF After, Waits
  <2>3. \A i : (Answered(i)' => i <= step) /\ (Acknowledged(i)' => i < step)
    BY <1>1 DEF Answered, Acknowledged
  <2> QED BY <1>1, <1>7, <2>1, <2>2, <2>3 DEF Heard, Halted
<1> QED BY <1>1, <1>2, <1>3, <1>9 DEF CleanInv, Heard, Waiting, Starting, Loads

LEMMA ReenableStep ==
  ASSUME LoadInv, BoardType, CleanInv, Reenable
  PROVE  CleanInv'
<1> SUFFICES ASSUME clean' PROVE CleanInv'
  BY DEF CleanInv
<1>1. /\ main = "reenable" /\ main' = "clear" /\ step' = step /\ clean
      /\ UNCHANGED <<raw, cmr, hmr, irqs, seen, verdict, run, pc, memory, asked>> /\ App' = App
  BY DEF Reenable, At, App, EnableHost, mapping, board
<1>2. Heard /\ (Alone \/ Together(2))
  BY <1>1 DEF CleanInv, Started, After, Waits
<1>3. (Alone => Alone') /\ (Together(2) => Together(2)')
  <2>1. (Idle(PRU1)' <=> Idle(PRU1)) /\ (Halted(PRU0)' <=> Halted(PRU0))
    BY <1>1 DEF Halted, Idle, Running
  <2>2. Mapped(19)' <=> Mapped(19)
    BY <1>1 DEF Mapped
  <2>3. Pace0' = Pace0 /\ Pace1(2)' = Pace1(2)
    BY <1>1 DEF Pace0, Pace1
  <2> QED BY <1>1, <2>1, <2>2, <2>3 DEF Alone, Together
<1>4. Heard'
  <2>1. \A i : (Answered(i)' <=> Answered(i)) /\ (Acknowledged(i)' <=> Acknowledged(i))
    BY <1>1 DEF Answered, Acknowledged, Waits
  <2>2. main \in After /\ main' \in After
    BY <1>1 DEF After, Waits
  <2> QED BY <1>1, <1>2, <2>1, <2>2 DEF Heard, Halted
<1> QED BY <1>1, <1>2, <1>3, <1>4 DEF CleanInv, Heard, Waiting, Starting, Loads

LEMMA ClearStep ==
  ASSUME LoadInv, BoardType, CleanInv, ClearEvent
  PROVE  CleanInv'
<1> SUFFICES ASSUME clean' PROVE CleanInv'
  BY DEF CleanInv
<1>1. /\ main = "clear" /\ clean /\ step \in 1 .. Len(App.waits)
      /\ raw' = raw \ {App.waits[step].event}
      /\ \/ step = Len(App.waits) /\ main' = "check" /\ step' = 1
         \/ step # Len(App.waits) /\ main' = "wait" /\ step' = step + 1
      /\ UNCHANGED <<cmr, hmr, irqs, seen, verdict, run, pc, memory, asked>> /\ App' = App
  BY DEF ClearEvent, Clear, App, BoardType, StepType, Waits, mapping, board
<1>2. Heard /\ (Alone \/ Together(2))
  BY <1>1 DEF CleanInv, Started, After, Waits
<1>3. (Alone => Alone') /\ (Together(2) => Together(2)')
  <2>1. (Idle(PRU1)' <=> Idle(PRU1)) /\ (Halted(PRU0)' <=> Halted(PRU0))
    BY <1>1 DEF Halted, Idle, Running
  <2>2. Mapped(19)' <=> Mapped(19)
    BY <1>1 DEF Mapped
  <2>3. Pace0' = Pace0 /\ Pace1(2)' = Pace1(2) /\ raw' \subseteq raw
    BY <1>1 DEF Pace0, Pace1
  <2> QED BY <1>1, <2>1, <2>2, <2>3 DEF Alone, Together
<1>4. Heard'
  <2>1. ASSUME NEW i \in 1 .. Len(App.waits)
        PROVE  /\ irqs[App.waits[i].host] # seen[App.waits[i].host] => Halted(App.loads[i].pru)
               /\ i <= step => Halted(App.loads[i].pru) /\ App.waits[i].event \notin raw'
    <3>1. i <= step => Answered(i)
      BY <1>1 DEF Answered
    <3>2. i <= step /\ i # step => Acknowledged(i)
      BY <1>1 DEF Acknowledged, Waits
    <3>3. /\ irqs[App.waits[i].host] # seen[App.waits[i].host] => Halted(App.loads[i].pru)
          /\ Answered(i) => Halted(App.loads[i].pru)
          /\ Acknowledged(i) => App.waits[i].event \notin raw
      BY <1>2 DEF Heard
    <3> QED BY <1>1, <3>1, <3>2, <3>3
  <2>2. main' \in After
    BY <1>1 DEF After, Waits
  <2>3. \A i \in 1 .. Len(App.waits) : Answered(i)' \/ Acknowledged(i)' => i <= step
    BY <1>1 DEF Answered, Acknowledged
  <2>4. verdict' = "none"
    BY <1>1, <1>2 DEF Heard
  <2> QED BY <1>1, <2>1, <2>2, <2>3, <2>4 DEF Heard, Halted
<1> QED BY <1>1, <1>2, <1>3, <1>4 DEF CleanInv, Heard, Waiting, Starting, Loads

\* After the waits every program has halted, and its memory is as main expects.
LEMMA AllHalted ==
  ASSUME LoadInv, BoardType, CleanInv, clean, main = "check"
  PROVE  /\ verdict = "none" /\ raw = {} /\ Quiet /\ App.checks \subseteq memory
         /\ \A i \in 1 .. Len(App.loads) : Halted(App.loads[i].pru)
         /\ run = PtoP => asked /\ "flag1" \in memory /\ "flag0" \in memory
<1>1. Heard /\ (Alone \/ Together(2))
  BY DEF CleanInv, Started, After
<1>2. \A i \in 1 .. Len(App.loads) :
        Halted(App.loads[i].pru) /\ App.waits[i].event \notin raw
  BY <1>1, WaitsType DEF Heard, Answered, Acknowledged
<1>3. Halted(PRU0) /\ "pru0_arm" \notin raw
  <2>1. 1 \in 1 .. Len(App.loads) /\ App.loads[1].pru = PRU0 /\ App.waits[1] = Wait0
    BY WaitsType
  <2> QED BY <1>2, <2>1, WaitFields
<1>4. CASE Alone
  <2>1. raw = {} /\ run # PtoP /\ Idle(PRU1)
    BY <1>3, <1>4 DEF Alone
  <2>2. Quiet
    BY <1>3, <2>1, TwoPrus DEF Quiet, Idle, Running
  <2>3. App.checks \subseteq memory
    <3> DEFINE q == pc[PRU0].program
    <3>1. /\ q \in Singles /\ pc[PRU0].at = Len(Program[q])
          /\ q = "data_ram" => App.checks = {"word1", "word2"}
          /\ q = "shared_ram" => App.checks = {"copy"}
          /\ q \in {"blink", "slave"} => App.checks = {}
      BY <1>3, <1>4, AloneType
    <3>2. CASE q = "data_ram"
      <4>1. pc[PRU0].at = 4
        BY <3>1, <3>2, ProgramsAre, DataRamIs
      <4> QED BY <1>4, <3>1, <3>2, <4>1 DEF Alone
    <3>3. CASE q = "shared_ram"
      <4>1. pc[PRU0].at = 3
        BY <3>1, <3>3, ProgramsAre, SharedRamIs
      <4> QED BY <1>4, <3>1, <3>3, <4>1 DEF Alone
    <3>4. CASE q \in {"blink", "slave"}
      BY <3>1, <3>4
    <3> QED BY <3>1, <3>2, <3>3, <3>4 DEF Singles
  <2> QED BY <1>1, <1>2, <2>1, <2>2, <2>3 DEF Heard
<1>5. CASE Together(2)
  <2>1. Halted(PRU1) /\ "pru1_arm" \notin raw /\ run = PtoP
    <3>1. run = PtoP
      BY <1>5 DEF Together
    <3>2. 2 \in 1 .. Len(App.loads) /\ App.loads[2].pru = PRU1 /\ App.waits[2] = Wait1
      BY <3>1, WaitsType
    <3> QED BY <1>2, <3>1, <3>2, WaitFields
  <2>2. Pace0 = 6 /\ Pace1(2) = 6
    BY <1>3, <1>5, <2>1, TogetherType
  <2>3. raw = {} /\ asked /\ "flag1" \in memory /\ "flag0" \in memory
    BY <1>3, <1>5, <2>1, <2>2 DEF Together
  <2>4. Quiet
    BY <1>3, <2>1, TwoPrus DEF Quiet, Idle, Running
  <2>5. App.checks = {"flag0", "flag1"}
    BY <2>1, PtoPIs DEF App
  <2> QED BY <1>1, <1>2, <2>1, <2>3, <2>4, <2>5 DEF Heard
<1> QED BY <1>1, <1>4, <1>5

LEMMA CheckStep ==
  ASSUME LoadInv, BoardType, CleanInv, ExamplePassed
  PROVE  CleanInv'
<1> SUFFICES ASSUME clean' PROVE CleanInv'
  BY DEF CleanInv
<1>1. /\ main = "check" /\ clean /\ step' = step /\ step = 1
      /\ \/ main' = "idle" /\ verdict' = verdict
         \/ main' = "stop" /\ verdict' = CASE App.checks = {} -> "none"
                          [] App.checks # {} /\ App.checks \subseteq memory -> "passed"
                          [] OTHER -> "failed"
      /\ UNCHANGED <<intc, run, pc>> /\ App' = App
  BY DEF ExamplePassed, App, board, BoardType, StepType
<1>2. /\ verdict = "none" /\ raw = {} /\ Quiet /\ App.checks \subseteq memory
      /\ \A i \in 1 .. Len(App.loads) : Halted(App.loads[i].pru)
  BY <1>1, AllHalted
<1>3. verdict' # "failed" /\ main' \in {"idle", "stop"}
  BY <1>1, <1>2
<1>4. Quiet' /\ raw' = {}
  BY <1>1, <1>2 DEF Quiet, Idle, Running, Halted, intc
<1>5. \A i \in 1 .. Len(App.loads) : Halted(App.loads[i].pru)'
  BY <1>1, <1>2 DEF Halted
<1>6. \A i \in step' .. Len(App'.loads) : Halted(App.loads[i].pru)'
  BY <1>1, <1>5
<1> QED BY <1>1, <1>3, <1>4, <1>6
        DEF CleanInv, Waiting, Started, Starting, Loads, After, Waits, Halted

LEMMA StopStep ==
  ASSUME LoadInv, BoardType, CleanInv, Disable
  PROVE  CleanInv'
<1> SUFFICES ASSUME clean' PROVE CleanInv'
  BY DEF CleanInv
<1>1. /\ main = "stop" /\ clean /\ step \in 1 .. Len(App.loads)
      /\ \/ main' = "ended"
         \/ main' = "stop" /\ step' = step + 1
      /\ pc' = [pc EXCEPT ![App.loads[step].pru] = Off]
      /\ UNCHANGED <<intc, verdict, run>> /\ App' = App
  BY DEF Disable, Each, App, BoardType, StepType
<1>2. /\ Quiet /\ raw = {} /\ verdict # "failed"
      /\ \A i \in step .. Len(App.loads) : Halted(App.loads[i].pru)
  BY <1>1 DEF CleanInv
<1>3. \A x \in PRUs : pc'[x] = Off \/ pc'[x] = pc[x]
  BY <1>1 DEF LoadInv
<1>4. Quiet'
  BY <1>2, <1>3 DEF Quiet, Idle, Running, Halted, Off
<1>5. ASSUME NEW i \in step + 1 .. Len(App.loads)
      PROVE  pc'[App.loads[i].pru] = pc[App.loads[i].pru] /\ Halted(App.loads[i].pru)
  <2>1. i = 2 /\ step = 1 /\ App.loads[i].pru = PRU1 /\ App.loads[step].pru = PRU0
    BY <1>1, WaitsType
  <2> QED BY <1>1, <1>2, <2>1, TwoPrus DEF LoadInv
<1>6. main' = "stop" => \A i \in step' .. Len(App'.loads) : Halted(App.loads[i].pru)'
  <2> SUFFICES ASSUME main' = "stop", NEW i \in step + 1 .. Len(App.loads)
               PROVE  Halted(App.loads[i].pru)'
    BY <1>1
  <2> QED BY <1>1, <1>5 DEF Halted
<1> QED BY <1>1, <1>2, <1>4, <1>6
        DEF CleanInv, Waiting, Started, Starting, Loads, After, Waits, Halted, intc

\* A killed main leaves its programs to themselves.
LEMMA KillStep ==
  ASSUME LoadInv, BoardType, CleanInv, Kill
  PROVE  CleanInv'
<1> SUFFICES ASSUME clean' PROVE CleanInv'
  BY DEF CleanInv
<1>1. /\ main' = "idle" /\ clean /\ main # "idle"
      /\ UNCHANGED <<intc, verdict, run, pc, memory, asked>> /\ App' = App
  BY DEF Kill, board, App
<1>2. main \in {"idle", "stop", "ended"} \union Starting \union Loads \union After
  BY DEF BoardType, StepType
<1>3. Alone \/ Together(1) \/ Together(2) \/ Quiet
  <2>1. main \in After => Alone \/ Together(2)
    BY <1>1 DEF CleanInv
  <2>2. Waiting => Quiet
    BY <1>1 DEF CleanInv, BeforePrus
  <2>3. main \in Loads /\ step # 1 => Together(1)
    BY <1>1 DEF CleanInv
  <2>4. main \in {"stop", "ended"} => Quiet
    BY <1>1 DEF CleanInv
  <2> QED BY <1>1, <1>2, <2>1, <2>2, <2>3, <2>4 DEF Waiting
<1>4. (Idle(PRU1)' <=> Idle(PRU1)) /\ (Halted(PRU0)' <=> Halted(PRU0)) /\ (Quiet' <=> Quiet)
  BY <1>1 DEF Halted, Idle, Running, Quiet
<1>5. Mapped(19)' <=> Mapped(19)
  BY <1>1 DEF Mapped, intc
<1>6. Pace0' = Pace0 /\ Pace1(1)' = Pace1(1) /\ Pace1(2)' = Pace1(2)
  BY <1>1 DEF Pace0, Pace1
<1>7. Alone' \/ Together(1)' \/ Together(2)' \/ Quiet'
  BY <1>1, <1>3, <1>4, <1>5, <1>6 DEF Alone, Together, intc
<1> QED BY <1>1, <1>7 DEF CleanInv, Waiting, Started, Starting, Loads, After, Waits

-----------------------------------------------------------------------------
\* Every example opens, loads and waits for as many PRUs, one or two.
LEMMA SizesType ==
  ASSUME NEW r \in DOMAIN Example
  PROVE  /\ Len(Example[r].loads) \in {1, 2}
         /\ Len(Example[r].opens) = Len(Example[r].loads)
         /\ Len(Example[r].waits) = Len(Example[r].loads)
<1>1. CASE r = PtoP
  <2>1. /\ Example[r].loads = <<Load(PRU0, "to_pru1"), Load(PRU1, "to_pru0")>>
        /\ Example[r].opens = <<EVTOUT0, EVTOUT1>> /\ Example[r].waits = <<Wait0, Wait1>>
    BY <1>1, PtoPIs
  <2> QED BY <2>1
<1>2. CASE r # PtoP
  <2>1. PICK q \in Singles : /\ Example[r].loads = <<Load(PRU0, q)>>
                             /\ Example[r].opens = <<EVTOUT0>> /\ Example[r].waits = <<Wait0>>
    BY <1>2, SinglesAre
  <2> QED BY <2>1
<1> QED BY <1>1, <1>2

LEMMA StepNext == LoadInv /\ StepType /\ [Next]_vars => StepType'
<1> SUFFICES ASSUME LoadInv, StepType, [Next]_vars PROVE StepType'
  OBVIOUS
<1> DEFINE n == Len(App.loads)
<1>0. n \in {1, 2} /\ Len(App.opens) = n /\ Len(App.waits) = n
  BY SizesType DEF LoadInv, App
<1>00. Len(Writes) = 19
  BY WritesAre
<1> HIDE DEF n
<1> USE DEF Starting, Loads, Waits, After
<1>1. CASE Start
  <2>1. run' \in DOMAIN Example /\ step' = 1 /\ main' = "open"
    BY <1>1 DEF Start
  <2>2. Len(App'.opens) \in {1, 2}
    BY <2>1, SizesType DEF App
  <2>3. 1 \in 1 .. Len(App'.opens)
    BY <2>2
  <2> QED BY <2>1, <2>3 DEF StepType
<1>2. CASE Open \/ IntcWrite \/ ExampleInit
  <2>1. \/ main = "open" /\ step <= n /\ step # n /\ main' = "open" /\ step' = step + 1
        \/ main = "open" /\ main' = "intc" /\ step' = 1
        \/ main = "intc" /\ step <= 19 /\ step # 19 /\ main' = "intc" /\ step' = step + 1
        \/ main = "intc" /\ main' = "prepare"
        \/ main = "prepare" /\ main' = "load"
    BY <1>2, <1>0, <1>00 DEF Open, IntcWrite, ExampleInit, Each, At
  <2>2. App' = App
    BY <1>2 DEF Open, IntcWrite, ExampleInit, App
  <2> QED BY <2>1, <2>2, <1>0 DEF StepType
<1>3. CASE ReadFile \/ WriteMemory \/ Enable
  <2>1. main' \in {"load", "write", "enable"} \/ (main' = "end" /\ step' = 1)
    BY <1>3 DEF ReadFile, WriteMemory, Enable, Each
  <2> QED BY <2>1 DEF StepType
<1>4. CASE EndProgram \/ Wait \/ Reenable
  <2>1. /\ main \in {"end", "wait", "reenable"} /\ main' \in Waits /\ step' = step /\ App' = App
    BY <1>4 DEF EndProgram, Wait, Reenable, At, App
  <2> QED BY <2>1, <1>0 DEF StepType
<1>5. CASE ClearEvent
  <2>1. /\ main = "clear" /\ App' = App
        /\ \/ main' = "check" /\ step' = 1
           \/ step # n /\ main' = "wait" /\ step' = step + 1
    BY <1>0, <1>5 DEF ClearEvent, App
  <2>2. step \in 1 .. n
    BY <1>0, <2>1 DEF StepType
  <2> QED BY <2>1, <2>2, <1>0 DEF StepType
<1>6. CASE ExamplePassed
  <2>1. main = "check" /\ main' \in {"idle", "stop"} /\ step' = step /\ App' = App
    BY <1>6 DEF ExamplePassed, App
  <2> QED BY SMTT(20), <2>1, <1>0 DEF StepType, n
<1>7. CASE Disable
  <2>1. /\ main = "stop" /\ step <= n /\ App' = App
        /\ \/ main' = "ended"
           \/ step # n /\ main' = "stop" /\ step' = step + 1
    BY <1>7 DEF Disable, Each, App, n
  <2> QED BY <2>1, <1>0 DEF StepType, n
<1>8. CASE Kill
  BY <1>8 DEF Kill, StepType
<1>9. CASE Kernel \/ (\E p \in PRUs : Execute(p)) \/ UNCHANGED vars
  <2>1. UNCHANGED <<run, main, step>> /\ App' = App
    BY <1>9 DEF Kernel, Execute, vars, process, App
  <2> QED BY <2>1 DEF StepType
<1> QED
  BY <1>1, <1>2, <1>3, <1>4, <1>5, <1>6, <1>7, <1>8, <1>9 DEF Next, MainStep

LEMMA PcPrograms ==
  ASSUME LoadInv, NEW p \in PRUs, pc[p].program # "none"
  PROVE  pc[p].program \in Programs
BY DEF LoadInv, Names, Programs

LEMMA IntcNext == LoadInv /\ IntcType /\ PcType /\ StepType /\ [Next]_vars => IntcType'
<1> SUFFICES ASSUME LoadInv, IntcType, PcType, StepType, [Next]_vars PROVE IntcType'
  OBVIOUS
<1>1. CASE UNCHANGED <<intc, seen>>
  BY <1>1 DEF intc, IntcType, Routing
<1>2. CASE Open
  <2>1. /\ UNCHANGED intc /\ seen' = [seen EXCEPT ![App.opens[step]] = irqs[App.opens[step]]]
        /\ main = "open"
    BY <1>2 DEF Open, Each
  <2>2. App.opens[step] \in ArmHosts
    BY <2>1, WaitsType, WaitFields DEF StepType
  <2>3. seen' \in [ArmHosts -> Nat]
    BY <2>1, <2>2 DEF IntcType
  <2> QED BY <2>1, <2>3 DEF IntcType, intc, Routing
<1>3. CASE IntcWrite
  <2>1. main = "intc" /\ Write(Writes[step]) /\ seen' = seen
    BY <1>3 DEF IntcWrite, Each
  <2>2. step \in 1 .. 19
    BY <2>1 DEF StepType
  <2>3. Routing'
    BY <2>1, <2>2, RoutingKept DEF IntcType
  <2>4. raw' \subseteq raw /\ irqs' = irqs
    BY <2>1 DEF Write
  <2> QED BY <2>1, <2>3, <2>4 DEF IntcType
<1>4. CASE Wait
  <2> DEFINE h == App.waits[step].host
  <2>1. UNCHANGED intc /\ seen' = [seen EXCEPT ![h] = irqs[h]] /\ main = "wait"
    BY <1>4 DEF Wait, At
  <2>2. h \in ArmHosts
    BY <2>1, WaitsType, WaitFields DEF StepType, Waits
  <2>3. seen' \in [ArmHosts -> Nat]
    BY <2>1, <2>2 DEF IntcType
  <2> QED BY <2>1, <2>3 DEF IntcType, intc, Routing
<1>5. CASE Reenable \/ ClearEvent
  <2>1. raw' \subseteq raw /\ UNCHANGED <<cmr, hmr, irqs, seen>>
    BY <1>5 DEF Reenable, ClearEvent, EnableHost, Clear, mapping
  <2> QED BY <2>1 DEF IntcType, Routing
<1>6. CASE Kernel
  <2>1. PICK h \in ArmHosts : Interrupt(h)
    BY <1>6 DEF Kernel
  <2>2. /\ irqs' = [irqs EXCEPT ![h] = irqs[h] + 1]
        /\ UNCHANGED <<raw, cmr, hmr, seen>>
    BY <1>6, <2>1 DEF Kernel, Interrupt, mapping, process
  <2>3. irqs' \in [ArmHosts -> Nat]
    BY <2>2 DEF IntcType
  <2> QED BY <2>2, <2>3 DEF IntcType, Routing
<1>7. CASE \E p \in PRUs : Execute(p)
  <2>1. PICK p \in PRUs : Execute(p)
    BY <1>7
  <2> DEFINE i == Program[pc[p].program][pc[p].at]
  <2>2. pc[p].program \in Programs /\ pc[p].at \in 1 .. Len(Program[pc[p].program])
    BY <2>1, PcPrograms DEF PcType, Size, Execute, Running
  <2>3. Does(p, i) /\ UNCHANGED <<cmr, hmr, irqs, process>>
    BY <2>1, <2>2, Executed
  <2>4. Instruction(i)
    BY <2>2, ProgramsType
  <2> HIDE DEF i
  <2>5. raw' \subseteq Events
    BY <2>3, <2>4 DEF Does, Instruction, IntcType
  <2> QED BY <2>3, <2>5 DEF IntcType, Routing, process
<1>8. \/ UNCHANGED <<intc, seen>>
      \/ Open \/ IntcWrite \/ Wait \/ Reenable \/ ClearEvent \/ Kernel \/ \E p \in PRUs : Execute(p)
  BY DEF Next, MainStep, Start, ExampleInit, ReadFile, WriteMemory, Enable, EndProgram,
         ExamplePassed, Disable, Kill, vars, process
<1> QED BY <1>1, <1>2, <1>3, <1>4, <1>5, <1>6, <1>7, <1>8

LEMMA PcNext == LoadInv /\ PcType /\ [Next]_vars => PcType'
<1> SUFFICES ASSUME LoadInv, PcType, [Next]_vars PROVE PcType'
  OBVIOUS
<1>0. pc \in [PRUs -> [program : Names, at : Nat]]
  BY DEF LoadInv
<1>1. CASE UNCHANGED pc
  BY <1>1 DEF PcType, Size
<1>2. CASE ReadFile \/ Disable
  <2>1. UNCHANGED pc \/ \E p : pc' = [pc EXCEPT ![p] = Off]
    BY <1>2 DEF ReadFile, Disable
  <2>2. \A p \in PRUs : pc'[p] = pc[p] \/ pc'[p] = Off
    BY <1>0, <2>1
  <2> QED BY <2>2 DEF PcType, Size, Off
<1>3. CASE Enable
  <2>1. \E p : pc' = [pc EXCEPT ![p] = [program |-> iram[p][1], at |-> 1]]
    BY <1>3 DEF Enable
  <2>2. /\ LoadInv'
        /\ \A p \in PRUs : pc'[p] = pc[p] \/ pc'[p].at = 1
    BY <1>0, <2>1, LoadNext
  <2>3. \A p \in PRUs : pc'[p].program # "none" => pc'[p].program \in Programs
    BY <2>2 DEF LoadInv, Names, Programs
  <2>4. \A q \in Programs : 1 \in 1 .. Len(Program[q])
    BY ProgramsType
  <2> QED BY <2>2, <2>3, <2>4 DEF PcType, Size
<1>4. CASE \E p \in PRUs : Execute(p)
  <2>1. PICK p \in PRUs : Execute(p)
    BY <1>4
  <2>2. pc[p].program \in Programs /\ pc[p].at \in 1 .. Len(Program[pc[p].program])
    BY <2>1, PcPrograms DEF PcType, Size, Execute, Running
  <2>3. /\ pc[p].at < Len(Program[pc[p].program])
        /\ pc' = [pc EXCEPT ![p].at = pc[p].at + 1]
    BY <2>1, <2>2, Executed
  <2>4. /\ pc'[p].program = pc[p].program /\ pc'[p].at = pc[p].at + 1
        /\ \A q \in PRUs : q # p => pc'[q] = pc[q]
    BY <1>0, <2>3
  <2>5. pc'[p].at \in 1 .. Len(Program[pc[p].program])
    BY <2>2, <2>3, <2>4, ProgramsType
  <2> QED BY <2>4, <2>5 DEF PcType, Size
<1>5. UNCHANGED pc \/ ReadFile \/ Disable \/ Enable \/ \E p \in PRUs : Execute(p)
  BY DEF Next, MainStep, Start, Open, IntcWrite, ExampleInit, WriteMemory, EndProgram, Wait,
         Reenable, ClearEvent, ExamplePassed, Kill, Kernel, vars, board
<1> QED BY <1>1, <1>2, <1>3, <1>4, <1>5

LEMMA BoardNext == LoadInv /\ BoardType /\ [Next]_vars => BoardType'
BY IntcNext, PcNext, StepNext DEF BoardType

LEMMA BoardInit == Init => LoadInv /\ BoardType /\ CleanInv
<1> SUFFICES ASSUME Init PROVE BoardType /\ CleanInv
  BY LoadInit
<1>1. CleanInv
  BY DEF CleanInv, Init
<1>2. Routing
  BY RoutingInit DEF Init
<1>3. raw \subseteq Events /\ irqs \in [ArmHosts -> Nat] /\ seen \in [ArmHosts -> Nat]
  BY DEF Init
<1>4. \A p \in PRUs : pc[p].program = "none"
  BY DEF Init, Off
<1> QED BY <1>1, <1>2, <1>3, <1>4 DEF Init, BoardType, IntcType, PcType, StepType, Waits

\* What every step of the board keeps, of main, of the kernel and of a PRU.
BoardInv == LoadInv /\ BoardType /\ CleanInv

LEMMA CleanNext == BoardInv /\ [Next]_vars => BoardInv'
<1> SUFFICES ASSUME BoardInv, [Next]_vars PROVE BoardInv'
  OBVIOUS
<1>1. LoadInv /\ BoardType /\ CleanInv
  BY DEF BoardInv
<1>2. CASE UNCHANGED vars
  <2>1. UNCHANGED <<raw, cmr, hmr, hostOn, irqs, run, main, step, seen, verdict, clean,
                    pc, memory, asked>>
    BY <1>2 DEF vars, intc, process, board
  <2>2. App' = App
    BY <2>1 DEF App
  <2>3. CleanInv' <=> CleanInv
    BY <2>1, <2>2 DEF CleanInv, Waiting, BeforePrus, Quiet, Idle, Running, Halted, Started, Heard,
       Answered, Acknowledged, Together, Pace0, Pace1, Alone, Mapped
  <2> QED BY <1>1, <2>3, LoadNext, BoardNext DEF BoardInv
<1>3. CASE Next
  <2>1. CleanInv'
    BY <1>1, <1>3, StartStep, OpenStep, IntcStep, PrepareStep, LoadStep, EnableStep, EndStep,
       WaitStep, ReenableStep, ClearStep, CheckStep, StopStep, KillStep, KernelStep, ExecuteStep
       DEF Next, MainStep
  <2> QED BY <1>1, <2>1, LoadNext, BoardNext DEF BoardInv
<1> QED BY <1>2, <1>3

\* A run that found the board idle disables only PRUs whose programs are done,
\* never reports a failure and leaves no event pending, however the runs before
\* it ended: its waits cover all that its programs do
\* (PRU_PRUtoPRU_Interrupt.c:171-200 and its siblings).
THEOREM RunsEndClean == Spec => []EndsClean
<1>1. BoardInv => EndsClean
  BY DEF BoardInv, CleanInv, EndsClean
<1>2. Init => BoardInv
  BY BoardInit DEF BoardInv
<1> QED BY <1>1, <1>2, CleanNext, PTL DEF Spec

-----------------------------------------------------------------------------
\* The variables of Rendezvous, as the board shows them.
Asked == InStep /\ asked
Verdict == IF InStep THEN verdict ELSE "none"

\* The steps of Rendezvous, and the one that shows nothing.
RendezvousStep ==
  \/ ~Asked' /\ ~Flag("flag1")' /\ ~Flag("flag0")' /\ Verdict' = "none"
  \/ /\ Asked => Asked'
     /\ Flag("flag1")' <=> Flag("flag1")
     /\ Flag("flag0")' <=> Flag("flag0")
     /\ Verdict' = Verdict
  \/ /\ Asked /\ Asked' /\ ~Flag("flag1") /\ Flag("flag1")'
     /\ Flag("flag0")' <=> Flag("flag0")
     /\ Verdict' = Verdict
  \/ /\ Asked' <=> Asked
     /\ Flag("flag1") /\ Flag("flag1")' /\ ~Flag("flag0") /\ Flag("flag0")'
     /\ Verdict' = Verdict
  \/ /\ Asked' <=> Asked
     /\ Flag("flag1")' <=> Flag("flag1")
     /\ Flag("flag0") /\ Flag("flag0")'
     /\ Verdict = "none" /\ Verdict' = "passed"

LEMMA RendezvousSteps == RendezvousStep => [Abstract!Next]_Abstract!vars
<1> SUFFICES ASSUME RendezvousStep PROVE Abstract!Next \/ UNCHANGED Abstract!vars
  BY DEF Abstract!vars
<1>1. CASE ~Asked' /\ ~Flag("flag1")' /\ ~Flag("flag0")' /\ Verdict' = "none"
  <2>1. Abstract!Again
    BY <1>1 DEF Abstract!Again, Asked, Verdict, Flag
  <2> QED BY <2>1 DEF Abstract!Next
<1>2. CASE /\ Asked => Asked'
           /\ Flag("flag1")' <=> Flag("flag1")
           /\ Flag("flag0")' <=> Flag("flag0")
           /\ Verdict' = Verdict
  <2>1. CASE ~Asked /\ Asked'
    <3>1. Abstract!Ask
      BY <1>2, <2>1 DEF Abstract!Ask, Asked, Verdict, Flag
    <3> QED BY <3>1 DEF Abstract!Next
  <2>2. CASE Asked <=> Asked'
    BY <1>2, <2>2 DEF Abstract!vars, Asked, Verdict, Flag
  <2> QED BY <1>2, <2>1, <2>2
<1>3. CASE /\ Asked /\ Asked' /\ ~Flag("flag1") /\ Flag("flag1")'
           /\ Flag("flag0")' <=> Flag("flag0")
           /\ Verdict' = Verdict
  <2>1. Abstract!First
    BY <1>3 DEF Abstract!First, Asked, Verdict, Flag
  <2> QED BY <2>1 DEF Abstract!Next
<1>4. CASE /\ Asked' <=> Asked
           /\ Flag("flag1") /\ Flag("flag1")' /\ ~Flag("flag0") /\ Flag("flag0")'
           /\ Verdict' = Verdict
  <2>1. Abstract!Second
    BY <1>4 DEF Abstract!Second, Asked, Verdict, Flag
  <2> QED BY <2>1 DEF Abstract!Next
<1>5. CASE /\ Asked' <=> Asked
           /\ Flag("flag1")' <=> Flag("flag1")
           /\ Flag("flag0") /\ Flag("flag0")'
           /\ Verdict = "none" /\ Verdict' = "passed"
  <2>1. Abstract!Judge
    BY <1>5 DEF Abstract!Judge, Asked, Verdict, Flag
  <2> QED BY <2>1 DEF Abstract!Next
<1> QED BY <1>1, <1>2, <1>3, <1>4, <1>5 DEF RendezvousStep

\* A step of PRU0 or PRU1 in the example: what it shows follows from how far the
\* two programs have come.
LEMMA ProgramsMeet ==
  ASSUME BoardInv, BoardInv', InStep, InStep', NEW p \in PRUs, Execute(p)
  PROVE  RendezvousStep
<1>0. LoadInv /\ BoardType /\ CleanInv /\ clean /\ run = PtoP
  BY DEF BoardInv, InStep, PtoP
<1>1. ~Quiet /\ main \in {"idle", "stop", "ended"} \union Starting \union Loads \union After
  BY <1>0 DEF Quiet, Idle, Execute, BoardType, StepType
<1>2. PICK l \in {0, 1, 2} : Works(l)
  BY <1>0, <1>1, WorksWhen
<1>3. l \in {1, 2} /\ Together(l)
  BY <1>0, <1>2 DEF Works, Alone
<1>4. Together(l)' /\ (p = PRU1 => l = 2)
  BY <1>0, <1>3, Together0, Together1, TwoPrus
<1>5. /\ Pace0 \in 1 .. 6 /\ Pace1(l) \in 0 .. 6
      /\ pc \in [PRUs -> [program : Names, at : Nat]]
      /\ pc' = [pc EXCEPT ![p].at = pc[p].at + 1]
  BY <1>0, <1>3, TogetherType DEF LoadInv, Execute
<1>6. \/ p = PRU0 /\ Pace0' = Pace0 + 1 /\ Pace1(l)' = Pace1(l)
      \/ p = PRU1 /\ Pace0' = Pace0 /\ Pace1(l)' = Pace1(l) + 1
  BY <1>4, <1>5, TwoPrus DEF Pace0, Pace1
<1>7. verdict' = verdict
  BY DEF Execute, process
<1>8. /\ Asked <=> Pace0 >= 2
      /\ Flag("flag1") <=> Pace0 >= 2 /\ Pace1(l) >= 4
      /\ Flag("flag0") <=> Pace0 >= 2 /\ Pace0 >= 4
      /\ Pace1(l) >= 2 => Pace0 >= 2
      /\ Pace0 >= 3 => Pace1(l) >= 5
      /\ Verdict = verdict
  BY <1>3 DEF Together, Asked, Flag, Verdict
<1>9. /\ Asked' <=> Pace0' >= 2
      /\ Flag("flag1")' <=> Pace0' >= 2 /\ Pace1(l)' >= 4
      /\ Flag("flag0")' <=> Pace0' >= 2 /\ Pace0' >= 4
      /\ Verdict' = verdict'
  BY <1>4 DEF Together, Asked, Flag, Verdict
<1>10. Verdict' = Verdict
  BY <1>7, <1>8, <1>9
<1>11. Pace0 \in Nat /\ Pace1(l) \in Nat
  BY <1>5
<1>12. CASE p = PRU0
  <2>1. Pace0' = Pace0 + 1 /\ Pace1(l)' = Pace1(l)
    BY <1>6, <1>12, TwoPrus
  <2>2. CASE Pace0 = 3
    BY <1>8, <1>9, <1>10, <1>11, <2>1, <2>2 DEF RendezvousStep
  <2>3. CASE Pace0 # 3
    <3>1. (Flag("flag0")' <=> Flag("flag0")) /\ (Asked => Asked')
      BY <1>8, <1>9, <1>11, <2>1, <2>3
    <3>2. Flag("flag1")' <=> Flag("flag1")
      BY <1>8, <1>9, <1>11, <2>1
    <3> QED BY <3>1, <3>2, <1>10 DEF RendezvousStep
  <2> QED BY <2>2, <2>3
<1>13. CASE p = PRU1
  <2>1. Pace0' = Pace0 /\ Pace1(l)' = Pace1(l) + 1
    BY <1>6, <1>13, TwoPrus
  <2>2. (Asked' <=> Asked) /\ (Flag("flag0")' <=> Flag("flag0"))
    BY <1>8, <1>9, <2>1
  <2>3. CASE Pace1(l) = 3
    <3>1. Asked /\ ~Flag("flag1") /\ Flag("flag1")'
      BY <1>8, <1>9, <1>11, <2>1, <2>3
    <3> QED BY <1>10, <2>2, <3>1 DEF RendezvousStep
  <2>4. CASE Pace1(l) # 3
    <3>1. Flag("flag1")' <=> Flag("flag1")
      BY <1>8, <1>9, <1>11, <2>1, <2>4
    <3> QED BY <1>10, <2>2, <3>1 DEF RendezvousStep
  <2> QED BY <2>3, <2>4
<1> QED BY <1>12, <1>13, TwoPrus

\* Every step of the board is one of Rendezvous, or shows nothing of it.
LEMMA BoardMeets == BoardInv /\ BoardInv' /\ [Next]_vars => RendezvousStep
<1> SUFFICES ASSUME BoardInv, BoardInv', [Next]_vars PROVE RendezvousStep
  OBVIOUS
<1>1. CASE ~InStep'
  BY <1>1 DEF RendezvousStep, Asked, Flag, Verdict
<1>2. CASE Start
  BY <1>2 DEF Start, RendezvousStep, Asked, Flag, Verdict
<1>3. CASE InStep' /\ ~Start
  <2>0. ExampleInit \/ ReadFile \/ clean' = clean
    BY <1>3 DEF Next, MainStep, Open, IntcWrite, WriteMemory, Enable, EndProgram, Wait,
       Reenable, ClearEvent, ExamplePassed, Disable, Kill, Kernel, Execute, vars, process
  <2>1. run' = run /\ (clean' => clean)
    <3>1. run' = run
      BY <1>3 DEF Next, MainStep, Open, IntcWrite, ExampleInit, ReadFile, WriteMemory, Enable,
         EndProgram, Wait, Reenable, ClearEvent, ExamplePassed, Disable, Kill, Kernel, Execute,
         vars, process
    <3>2. ExampleInit => (clean' => clean)
      BY DEF ExampleInit
    <3>3. ReadFile => (clean' => clean)
      BY DEF ReadFile
    <3> QED BY <2>0, <3>1, <3>2, <3>3
  <2>2. InStep
    BY <1>3, <2>1 DEF InStep
  <2>3. LoadInv /\ BoardType /\ CleanInv /\ clean /\ run = PtoP
    BY <2>2 DEF BoardInv, InStep, PtoP
  <2>4. CASE /\ verdict' = verdict
             /\ \/ memory' = memory /\ asked' = asked
                \/ ~asked /\ ~asked'
    <3>1. (InStep' <=> InStep) /\ Verdict' = Verdict
      BY <1>3, <2>2, <2>4 DEF Verdict
    <3>2. /\ Asked => Asked'
          /\ Flag("flag1")' <=> Flag("flag1")
          /\ Flag("flag0")' <=> Flag("flag0")
      BY <1>3, <2>2, <2>4 DEF Asked, Flag
    <3> QED BY <3>1, <3>2 DEF RendezvousStep
  <2>5. CASE ExampleInit
    <3>1. main = "prepare"
      BY <2>5 DEF ExampleInit, At
    <3>2. ~asked
      BY <2>3, <3>1 DEF CleanInv, Waiting, Starting, BeforePrus
    <3>3. ~asked' /\ verdict' = verdict
      BY <2>5, <3>2 DEF ExampleInit
    <3> QED BY <2>4, <3>2, <3>3
  <2>6. CASE EndProgram
    <3>1. App.ends = {}
      BY <2>3, PtoPIs DEF App
    <3>2. memory' = memory /\ asked' = asked /\ verdict' = verdict
      BY <2>6, <3>1 DEF EndProgram
    <3> QED BY <2>4, <3>2
  <2>7. CASE \E p \in PRUs : Execute(p)
    BY <1>3, <2>2, <2>7, ProgramsMeet
  <2>8. CASE ExamplePassed
    <3>1. main = "check" /\ UNCHANGED <<memory, asked>>
      BY <2>8 DEF ExamplePassed, board
    <3>2. /\ verdict = "none" /\ App.checks \subseteq memory
          /\ asked /\ "flag1" \in memory /\ "flag0" \in memory
      BY <2>3, <3>1, AllHalted
    <3>3. App.checks # {}
      BY <2>3, PtoPIs DEF App
    <3>4. verdict' = verdict \/ verdict' = "passed"
      BY <2>8, <3>2, <3>3 DEF ExamplePassed
    <3>5. CASE verdict' = verdict
      BY <2>4, <3>1, <3>5
    <3>6. CASE verdict' = "passed"
      <4>1. Verdict = "none" /\ Verdict' = "passed"
        BY <1>3, <2>2, <3>2, <3>6 DEF Verdict
      <4>2. Asked /\ Asked' /\ Flag("flag1") /\ Flag("flag1")' /\ Flag("flag0") /\ Flag("flag0")'
        BY <1>3, <2>2, <3>1, <3>2 DEF Asked, Flag
      <4> QED BY <4>1, <4>2 DEF RendezvousStep
    <3> QED BY <3>4, <3>5, <3>6
  <2>9. \/ ExampleInit \/ EndProgram \/ ExamplePassed \/ \E p \in PRUs : Execute(p)
        \/ UNCHANGED <<memory, asked, verdict>>
    BY <1>3 DEF Next, MainStep, Open, IntcWrite, ReadFile, WriteMemory, Enable,
       Wait, Reenable, ClearEvent, Disable, Kill, Kernel, vars, process, board
  <2> QED BY <2>4, <2>5, <2>6, <2>7, <2>8, <2>9
<1> QED BY <1>1, <1>2, <1>3

\* The PRU-to-PRU example implements the rendezvous: every step of main, of the
\* kernel and of a PRU, killed runs included, is one of Rendezvous or shows
\* nothing of it (PRU_PRU0toPRU1_Interrupt.p, PRU_PRU1toPRU0_Interrupt.p and
\* PRU_PRUtoPRU_Interrupt.c).
THEOREM ExampleMeets == Spec => ImplementsRendezvous
<1>1. Init => BoardInv
  BY BoardInit DEF BoardInv
<1>2. Init => Abstract!Init
  BY DEF Init, Abstract!Init, InStep, Flag
<1>3. BoardInv /\ BoardInv' /\ [Next]_vars => [Abstract!Next]_Abstract!vars
  BY BoardMeets, RendezvousSteps
<1> QED BY <1>1, <1>2, <1>3, CleanNext, PTL DEF Spec, ImplementsRendezvous, Abstract!Spec
=============================================================================
