---------------------------- MODULE SpiScan_proofs ----------------------------
(***************************************************************************)
(* A stopped program is still, and one that runs has the parameters it was *)
(* started with, stands on the grid they ask for and takes all the samples *)
(* of it, for every set of datagrams and every bound.                      *)
(***************************************************************************)
EXTENDS SpiScan, SequenceTheorems, TLAPS

\* The server keeps this from one program to the next: while a program it has
\* started runs, scanning says so, and the server is between two commands or on its
\* way to stop the program.
StillInv == mine /\ Running => scanning = 1 /\ server \in {"listen", "clear", "disable"}

\* Only a program that runs takes steps, and they leave the server alone.
LEMMA PruRuns == Pru => Running /\ UNCHANGED arm
BY DEF Pru, Step, Trigger, Running, PASSVALUES, SETUP, LOOP1, SUBLOOP2, LOOP3, ADCREAD,
       RLOOP3, RLOOP2, STIV, DACUPDATE, DONE

LEMMA StillInit == Init => StillInv
BY DEF Init, StillInv

LEMMA StillNext == StillInv /\ [Next]_vars => StillInv'
<1> SUFFICES ASSUME StillInv, [Next]_vars PROVE StillInv'
  OBVIOUS
<1> USE DEF StillInv, Running
<1>1. CASE \E d \in Datagrams : Receive(d)
  <2>1. PICK d \in Datagrams : Receive(d)
    BY <1>1
  <2>2. server = "listen" /\ UNCHANGED <<mine, pc, scanning>>
    BY <2>1 DEF Receive, pru
  <2>3. scanning = 1 => server' \in {"listen", "clear"}
    BY <2>1 DEF Receive
  <2> QED BY <2>2, <2>3
<1>2. CASE ClearEvent
  BY <1>2 DEF ClearEvent, Server
  \* The program is off from here to Exec.
<1>3. CASE Disable
  BY <1>3 DEF Disable, Server
<1>4. CASE Exit
  BY <1>4 DEF Exit, Server, pru
<1>5. CASE WriteIoctl \/ Open \/ IntcInit \/ ExampleInit \/ Store
  BY <1>5 DEF WriteIoctl, Open, IntcInit, ExampleInit, Store, Server, pru
<1>6. CASE Exec
  BY <1>6 DEF Exec, Server
  \* A server that dies has no program any more.
<1>7. CASE Fail \/ Kill
  BY <1>7 DEF Fail, Kill
<1>8. CASE Restart
  BY <1>8 DEF Restart, Server, pru
<1>9. CASE Pru
  BY <1>9, PruRuns DEF arm
<1>10. CASE UNCHANGED vars
  BY <1>10 DEF vars, pru, arm
<1> QED BY <1>1, <1>2, <1>3, <1>4, <1>5, <1>6, <1>7, <1>8, <1>9, <1>10 DEF Next

\* The outputs and the samples change only by the PRU and, once, by a new program.
LEMMA OutputsStill ==
  ASSUME Next PROVE Pru \/ server = "exec" \/ UNCHANGED <<dac, taken>>
BY DEF Next, Receive, ClearEvent, Disable, Exit, WriteIoctl, Open, IntcInit, ExampleInit,
       Store, Exec, Fail, Kill, Restart, Server, pru

\* After STOP_SCAN, and while the server prepares the next program, the one it
\* started before neither moves the outputs nor takes a sample (SPIScan.c:397-403,
\* 569-580): it was disabled before, and every way to prussdrv_exit goes through
\* prussdrv_pru_disable.
THEOREM StoppedStill == Spec => StoppedMeansStill
<1> DEFINE Stopped == mine /\ ((server = "listen" /\ scanning = 0) \/ server \in Preparing)
<1>1. ASSUME StillInv, [Next]_vars
      PROVE  [Stopped => UNCHANGED <<dac, taken>>]_vars
  <2>1. CASE UNCHANGED vars
    BY <2>1
  <2>2. CASE Next
    <3>1. SUFFICES ASSUME Stopped PROVE UNCHANGED <<dac, taken>>
      OBVIOUS
    <3>2. ~Running
      BY <1>1, <3>1 DEF StillInv, Preparing
    <3>3. server # "exec"
      BY <3>1 DEF Preparing
    <3> QED BY <2>2, <3>2, <3>3, PruRuns, OutputsStill
  <2> QED BY <1>1, <2>1, <2>2
<1>2. Spec => []StillInv
  BY StillInit, StillNext, PTL DEF Spec
<1> QED BY <1>1, <1>2, PTL DEF Spec, StoppedMeansStill

-----------------------------------------------------------------------------
(* Parameters.                                                             *)

\* The program a command starts loads the words the command has written: its registers
\* are the first of them, in their order.
Fits(c) ==
  LET loads == Programs[Commands[c].image].loads
      words == DataMem[Commands[c].struct]
  IN /\ Commands[c].image \in DOMAIN Programs
     /\ DOMAIN loads \subseteq DOMAIN words
     /\ \A i \in DOMAIN loads : i \in 1 .. 15 /\ loads[i] = words[i]

\* The snake's two words more come after those that all scans load.
LEMMA SnakeFits ==
  /\ DOMAIN ScanLoads = 1 .. 13 /\ 1 .. 13 \subseteq DOMAIN SnakeWords
  /\ \A i \in 1 .. 13 : ScanLoads[i] = SnakeWords[i]
<1> DEFINE more == <<"iDX", "iDY">>
           Names == {"Sx", "Sy", "sdx", "sdy", "dx", "dy", "pF", "sF",
                     "samp", "CH", "DVAR", "OS", "XFER", "iDX", "iDY"}
<1>1. /\ ScanWords = ScanLoads /\ ScanLoads \in Seq(Names)
      /\ Len(ScanLoads) = 13 /\ DOMAIN ScanLoads = 1 .. 13
  BY DEF ScanWords, ScanLoads
<1>2. more \in Seq(Names) /\ Len(more) = 2
  OBVIOUS
<1>3. SnakeWords = ScanLoads \o more
  BY <1>1 DEF SnakeWords
<1> HIDE DEF more
<1> HIDE DEF Names
<1>4. /\ Len(ScanLoads \o more) = Len(ScanLoads) + Len(more)
      /\ ScanLoads \o more \in Seq(Names)
      /\ \A i \in 1 .. Len(ScanLoads) + Len(more) :
           (ScanLoads \o more)[i] = IF i <= Len(ScanLoads) THEN ScanLoads[i]
                                    ELSE more[i - Len(ScanLoads)]
  BY <1>1, <1>2, ConcatProperties, Zenon
<1>5. Len(SnakeWords) = 15 /\ SnakeWords \in Seq(Names)
  BY <1>1, <1>2, <1>3, <1>4
<1> QED BY <1>1, <1>3, <1>4, <1>5

LEMMA AllFit == \A c \in DOMAIN Commands : Fits(c)
<1> SUFFICES ASSUME NEW c \in DOMAIN Commands PROVE Fits(c)
  OBVIOUS
<1>1. CASE c = "START_SCAN"
  BY <1>1 DEF Fits, Commands, Programs, DataMem, SPIScan, ScanLoads, ScanWords
<1>2. CASE c = "SNAKE_SCAN"
  BY <1>2, SnakeFits DEF Fits, Commands, Programs, DataMem, SnakeScan
<1>3. CASE c = "TRIG_SCAN"
  BY <1>3 DEF Fits, Commands, Programs, DataMem, TRIGScan, ScanLoads, ScanWords
<1>4. CASE c = "TRIG_SCAN_DAC"
  BY <1>4 DEF Fits, Commands, Programs, DataMem, TRIGScanDACOUT, ScanLoads, ScanWords
<1>5. CASE c = "IV_SCAN"
  BY <1>5 DEF Fits, Commands, Programs, DataMem, IV, IVWords
<1>6. CASE c = "SET_V"
  BY <1>6 DEF Fits, Commands, Programs, DataMem, SetV, SetVWords
<1>7. CASE c = "READ_CH"
  BY <1>7 DEF Fits, Commands, Programs, DataMem, ReadCH, ReadCHWords
<1> QED BY <1>1, <1>2, <1>3, <1>4, <1>5, <1>6, <1>7 DEF Commands

LEMMA ImageOf == \A c \in DOMAIN Commands : Commands[c].image = "SetV" <=> c = "SET_V"
BY DEF Commands

\* The registers that some label other than PASSVALUES writes, but for V1.
Scratch == {"Fx", "Fy", "pFc", "DX", "IDX", "DY", "IDY", "SwS", "sampc",
            "Sx", "Sy", "sF", "dx", "dy", "Count", "STEP"}

LEMMA KeptIsKept ==
  ASSUME image \in DOMAIN Programs
  PROVE  /\ Kept \intersect Scratch = {} /\ Kept \subseteq ToSet(Program.loads)
         /\ image = "IV" => "V1" \notin Kept
<1>1. CASE image = "SPIScan"
  BY <1>1 DEF Kept, Scratch, Program, Programs, SPIScan, ScanLoads, ToSet
<1>2. CASE image = "SnakeScan"
  BY <1>2 DEF Kept, Scratch, Program, Programs, SnakeScan, ScanLoads, ToSet
<1>3. CASE image = "TRIGScan"
  BY <1>3 DEF Kept, Scratch, Program, Programs, TRIGScan, ScanLoads, ToSet
<1>4. CASE image = "TRIGScanDACOUT"
  BY <1>4 DEF Kept, Scratch, Program, Programs, TRIGScanDACOUT, ScanLoads, ToSet
<1>5. CASE image = "IV"
  BY <1>5 DEF Kept, Scratch, Program, Programs, IV, ToSet
<1>6. CASE image = "SetV"
  BY <1>6 DEF Kept, Scratch, Program, Programs, SetV, ToSet
<1>7. CASE image = "ReadCH"
  BY <1>7 DEF Kept, Scratch, Program, Programs, ReadCH, ToSet
<1> QED BY <1>1, <1>2, <1>3, <1>4, <1>5, <1>6, <1>7 DEF Programs

LEMMA OnlyIVSweeps ==
  ASSUME image \in DOMAIN Programs
  PROVE  /\ Program.begin = "STIV" => image = "IV"
         /\ Program.after = "STIV" => image = "IV"
         /\ Program.begin \notin {"PASSVALUES", "SETUP"}
         /\ Program.after \notin {"PASSVALUES", "SETUP"}
BY DEF Program, Programs, SPIScan, SnakeScan, TRIGScan, TRIGScanDACOUT, IV, SetV, ReadCH

\* From set-up on, only scratch registers change, and V1 only in the sweep of IV.
LEMMA StepKeeps ==
  ASSUME Step \/ Trigger, pc # "PASSVALUES"
  PROVE  /\ DOMAIN regs \subseteq DOMAIN regs'
         /\ \A r \in DOMAIN regs \ Scratch :
              regs'[r] = regs[r] \/ (r = "V1" /\ (pc = "STIV" \/ (pc = "SETUP" /\ image = "IV")))
<1> USE DEF Scratch
<1>1. CASE SETUP
  BY <1>1 DEF SETUP, Assign
<1>2. CASE LOOP1 \/ LOOP3
  BY <1>2 DEF LOOP1, LOOP3, Assign
<1>3. CASE SUBLOOP2 \/ ADCREAD
  BY <1>3 DEF SUBLOOP2, ADCREAD
<1>4. CASE RLOOP3
  BY <1>4 DEF RLOOP3
<1>5. CASE RLOOP2
  <2> DEFINE turned == IF Program.turns THEN Switch(regs) ELSE regs
             moved == IF Program.moves
                      THEN [turned EXCEPT !.Sx = Plus(@, regs.sdx), !.Sy = Plus(@, regs.sdy)]
                      ELSE turned
  <2>1. DOMAIN turned = DOMAIN regs /\ \A r \in DOMAIN regs \ Scratch : turned[r] = regs[r]
    BY DEF Switch
  <2>2. regs' = [moved EXCEPT !.sF = Minus1(@)]
    BY <1>5 DEF RLOOP2
  <2> HIDE DEF turned
  <2>3. DOMAIN moved = DOMAIN regs /\ \A r \in DOMAIN regs \ Scratch : moved[r] = regs[r]
    BY <2>1
  <2> HIDE DEF moved
  <2> QED BY <2>2, <2>3
<1>6. CASE STIV
  BY <1>6 DEF STIV
<1>7. CASE DACUPDATE \/ DONE
  BY <1>7 DEF DACUPDATE, DONE
<1> QED BY <1>1, <1>2, <1>3, <1>4, <1>5, <1>6, <1>7 DEF Step, Trigger, PASSVALUES

-----------------------------------------------------------------------------
\* The server prepares the command it has received, with the DMA armed for it and, when it
\* starts the program, its parameters in the data memory.
ServerInv ==
  /\ server \in {"clear", "disable", "exit"} => cmd = "STOP_SCAN" \/ Starts(cmd)
  /\ server \in {"dma", "open", "intc", "zero", "store", "exec"} => Starts(cmd)
  /\ server = "dma" => cmd # "SET_V"
  /\ server \in {"open", "intc", "zero", "store", "exec"} /\ cmd # "SET_V" =>
       dma = [bcnt |-> structs[Command.struct].CH, ccnt |-> structs[Command.struct].CCNT]
  /\ server = "exec" =>
       LET words == DataMem[Command.struct]
       IN \A i \in DOMAIN words \intersect 1 .. 15 :
            dram[i - 1] = structs[Command.struct][words[i]]

\* What the program has loaded of its parameters, and what it has still to load.
Loaded ==
  LET loads == Program.loads
  IN /\ pc = "PASSVALUES" => \A i \in DOMAIN loads : dram[i - 1] = started[loads[i]]
     /\ pc = "SETUP" => DOMAIN regs = ToSet(loads) /\ \A r \in DOMAIN regs : regs[r] = started[r]
     /\ pc \notin {"PASSVALUES", "SETUP"} =>
          ToSet(loads) \subseteq DOMAIN regs /\ \A r \in Kept : regs[r] = started[r]

\* A program that the running server has started.
RunInv ==
  mine /\ Running =>
    /\ image \in DOMAIN Programs /\ (pc = "STIV" => image = "IV")
    /\ image # "SetV" => dma = [bcnt |-> started.CH, ccnt |-> started.CCNT]
    /\ Loaded

ParamInv == StillInv /\ ServerInv /\ RunInv

LEMMA ParamInit == Init => ParamInv
BY StillInit DEF Init, ParamInv, ServerInv, RunInv

\* What the server does while the program runs leaves it, its memory and the DMA alone.
LEMMA RunKept ==
  ASSUME RunInv, UNCHANGED <<image, regs, dram, dma, started>>, mine' => mine,
         Running' => Running /\ pc' = pc
  PROVE  RunInv'
<1>1. Program' = Program /\ Kept' = Kept
  BY DEF Program, Kept
<1>2. ASSUME mine', Running' PROVE Loaded'
  <2>1. mine /\ Running /\ pc' = pc
    BY <1>2
  <2> QED BY <1>1, <2>1 DEF RunInv, Loaded
<1> QED BY <1>2 DEF RunInv

\* prussdrv_exec_program starts a program with the words that are there for it.
LEMMA RunStarts == ASSUME ServerInv, Exec PROVE RunInv'
<1>1. /\ Starts(cmd) /\ image' = Command.image /\ pc' = "PASSVALUES"
      /\ started' = structs[Command.struct]
      /\ UNCHANGED <<dram, dma>> /\ server = "exec"
  BY DEF Exec, Server, ServerInv
<1>2. Fits(cmd) /\ (Command.image = "SetV" <=> cmd = "SET_V")
  BY <1>1, AllFit, ImageOf DEF Starts, Command
<1>3. image' \in DOMAIN Programs
  BY <1>1, <1>2 DEF Fits, Command
<1>4. image' # "SetV" => dma' = [bcnt |-> started'.CH, ccnt |-> started'.CCNT]
  BY <1>1, <1>2 DEF ServerInv
<1>5. \A i \in DOMAIN Program'.loads : dram'[i - 1] = started'[Program'.loads[i]]
  BY <1>1, <1>2 DEF ServerInv, Fits, Program, Command
<1>6. Loaded'
  BY <1>1, <1>5 DEF Loaded
<1> QED BY <1>1, <1>3, <1>4, <1>6 DEF RunInv

\* PASSVALUES fetches each register from the word of its name; what is kept stays.
LEMMA RunSteps == ASSUME RunInv, Pru PROVE RunInv'
<1>1. Running /\ UNCHANGED <<dram, dma, started, mine, image>> /\ (Step \/ Trigger)
  BY PruRuns DEF Pru, arm, Step, Trigger, PASSVALUES, SETUP, LOOP1, SUBLOOP2, LOOP3, ADCREAD,
       RLOOP3, RLOOP2, STIV, DACUPDATE, DONE
<1> SUFFICES ASSUME mine PROVE RunInv'
  BY <1>1 DEF RunInv
<1>2. /\ image \in DOMAIN Programs /\ (pc = "STIV" => image = "IV") /\ Loaded
      /\ image # "SetV" => dma = [bcnt |-> started.CH, ccnt |-> started.CCNT]
  BY <1>1 DEF RunInv
<1>3. Program' = Program /\ Kept' = Kept
  BY <1>1 DEF Program, Kept
<1>4. CASE PASSVALUES
  <2> DEFINE loads == Program.loads
             at(r) == CHOOSE i \in DOMAIN loads : loads[i] = r
  <2>1. pc = "PASSVALUES" /\ pc' = "SETUP" /\ regs' = [r \in ToSet(loads) |-> dram[at(r) - 1]]
    BY <1>4 DEF PASSVALUES, Goto
  <2>2. \A i \in DOMAIN loads : dram[i - 1] = started[loads[i]]
    BY <1>2, <2>1 DEF Loaded
  <2>3. \A r \in ToSet(loads) : at(r) \in DOMAIN loads /\ loads[at(r)] = r
    BY DEF ToSet
  <2>4. \A r \in ToSet(loads) : regs'[r] = started[r]
    BY <2>1, <2>2, <2>3
  <2>5. Loaded'
    BY <1>1, <1>3, <2>1, <2>4 DEF Loaded
  <2> QED BY <1>1, <1>2, <2>1, <2>5 DEF RunInv
<1>5. CASE pc # "PASSVALUES"
  <2>1. /\ DOMAIN regs \subseteq DOMAIN regs'
        /\ \A r \in DOMAIN regs \ Scratch :
             regs'[r] = regs[r] \/ (r = "V1" /\ (pc = "STIV" \/ (pc = "SETUP" /\ image = "IV")))
    BY <1>1, <1>5, StepKeeps
  <2>2. /\ Kept \intersect Scratch = {} /\ Kept \subseteq ToSet(Program.loads)
        /\ image = "IV" => "V1" \notin Kept
    BY <1>2, KeptIsKept
  <2>3. ToSet(Program.loads) \subseteq DOMAIN regs /\ \A r \in Kept : regs[r] = started[r]
    BY <1>2, <1>5, <2>2 DEF Loaded
  <2>4. \A r \in Kept : regs'[r] = started[r]
    BY <1>2, <2>1, <2>2, <2>3
  <2>5. pc' \notin {"PASSVALUES", "SETUP"} /\ (pc' = "STIV" => image = "IV")
    BY <1>1, <1>2, <1>5, OnlyIVSweeps DEF Step, Trigger, PASSVALUES, SETUP, LOOP1, SUBLOOP2, LOOP3,
       ADCREAD, RLOOP3, RLOOP2, STIV, DACUPDATE, DONE, Goto
  <2>6. Loaded'
    BY <1>1, <1>3, <2>1, <2>3, <2>4, <2>5 DEF Loaded
  <2> QED BY <1>1, <1>2, <2>5, <2>6 DEF RunInv
<1> QED BY <1>1, <1>4, <1>5 DEF Step, Trigger, SETUP, LOOP1, SUBLOOP2, LOOP3,
       ADCREAD, RLOOP3, RLOOP2, STIV, DACUPDATE, DONE

LEMMA ServerNext == ASSUME ServerInv, Next PROVE ServerInv'
<1> USE DEF Server, ServerInv, Starts
<1>1. CASE \E d \in Datagrams : Receive(d)
  BY <1>1 DEF Receive, First, Commands
<1>2. CASE ClearEvent \/ Disable
  BY <1>2 DEF ClearEvent, Disable
<1>3. CASE Exit
  BY <1>3 DEF Exit, First
<1>4. CASE WriteIoctl
  BY <1>4 DEF WriteIoctl, Command
<1>5. CASE Open \/ IntcInit
  BY <1>5 DEF Open, IntcInit, Command
<1>6. CASE ExampleInit
  BY <1>6 DEF ExampleInit, Command
<1>7. CASE Store
  <2>1. /\ UNCHANGED <<cmd, structs, dma>> /\ server = "store" /\ server' = "exec"
        /\ LET s == structs[Command.struct]
               fields == DataMem[Command.struct]
           IN dram' = [a \in Addresses |->
                         IF a + 1 \in DOMAIN fields THEN s[fields[a + 1]] ELSE dram[a]]
    BY <1>7 DEF Store
  <2>2. Command' = Command
    BY <2>1 DEF Command
  <2>3. \A i \in 1 .. 15 : i - 1 \in Addresses /\ (i - 1) + 1 = i
    BY DEF Addresses
  <2> QED BY <2>1, <2>2, <2>3
<1>8. CASE Exec
  BY <1>8 DEF Exec
<1>9. CASE Fail \/ Kill
  BY <1>9 DEF Fail, Kill
<1>10. CASE Restart
  BY <1>10 DEF Restart
<1>11. CASE Pru
  <2>1. UNCHANGED <<server, cmd, structs, dma, dram>>
    BY <1>11 DEF Pru, arm
  <2> QED BY <2>1 DEF Command
<1> QED BY <1>1, <1>2, <1>3, <1>4, <1>5, <1>6, <1>7, <1>8, <1>9, <1>10, <1>11 DEF Next

\* The server writes the data memory and arms the DMA only while no program of its own runs.
LEMMA RunNext == ASSUME StillInv, ServerInv, RunInv, Next PROVE RunInv'
<1>1. CASE \E d \in Datagrams : Receive(d)
  BY <1>1, RunKept DEF Receive, pru, Running
<1>2. CASE ClearEvent \/ Disable
  BY <1>2, RunKept DEF ClearEvent, Disable, Running
<1>3. CASE Exit \/ Open
  BY <1>3, RunKept DEF Exit, Open, pru, Running
<1>4. CASE WriteIoctl \/ IntcInit \/ ExampleInit \/ Store
  <2>1. mine' = mine /\ pc' = pc /\ server \in {"dma", "intc", "zero", "store"}
    BY <1>4 DEF WriteIoctl, IntcInit, ExampleInit, Store, Server, pru
  <2>2. ~(mine' /\ Running')
    BY <2>1 DEF StillInv, Running
  <2> QED BY <2>2 DEF RunInv
<1>5. CASE Exec
  BY <1>5, RunStarts
<1>6. CASE Fail \/ Kill
  BY <1>6 DEF Fail, Kill, RunInv
<1>7. CASE Restart
  BY <1>7, RunKept DEF Restart, pru, Running
<1>8. CASE Pru
  BY <1>8, RunSteps
<1> QED BY <1>1, <1>2, <1>3, <1>4, <1>5, <1>6, <1>7, <1>8 DEF Next

LEMMA ParamNext == ParamInv /\ [Next]_vars => ParamInv'
<1> SUFFICES ASSUME ParamInv, [Next]_vars PROVE ParamInv'
  OBVIOUS
<1>1. CASE Next
  BY <1>1, StillNext, ServerNext, RunNext DEF ParamInv
<1>2. CASE UNCHANGED vars
  <2>1. UNCHANGED <<image, pc, regs, dram, dma, started, mine, server, cmd, structs>>
    BY <1>2 DEF vars, pru, arm
  <2>2. RunInv'
    BY <2>1, RunKept DEF ParamInv, Running
  <2>3. ServerInv'
    BY <2>1 DEF ParamInv, ServerInv, Starts, Command
  <2> QED BY <1>2, <2>2, <2>3, StillNext DEF ParamInv
<1> QED BY <1>1, <1>2

\* A program works with the parameters of the command it was started for, all of them and
\* to its end, and its samples go to a DMA armed for that command (SPIScan.c:225-310,
\* 391-710; PASSVALUES of each .p): the tables agree (AllFit), and what could change
\* memory or DMA does not happen while it runs (StillInv).
THEOREM ParametersAreOwn == Spec => []OwnParameters
<1>1. ParamInv => OwnParameters
  BY DEF ParamInv, RunInv, Loaded, OwnParameters
<1> QED BY ParamInit, ParamNext, <1>1, PTL DEF Spec

-----------------------------------------------------------------------------
(* Numbers.                                                                *)

\* A product with a positive number, a product with a sum, and what \div and % are.
LEMMA TimesGrow == \A a \in Int, b \in Nat : a >= 1 => a * b >= b
OBVIOUS

LEMMA TimesAdd == \A a, b, c \in Int : (a + b) * c = a * c + b * c
OBVIOUS

LEMMA DivMod0 ==
  \A x \in Int, m \in Nat \ {0} :
    x = m * (x \div m) + (x % m) /\ x % m \in 0 .. m - 1 /\ x \div m \in Int
OBVIOUS

\* Quotient and remainder are the only ones.
LEMMA DivModIs ==
  ASSUME NEW m \in Nat \ {0}, NEW a \in Int, NEW c \in 0 .. m - 1
  PROVE  (a * m + c) \div m = a /\ (a * m + c) % m = c
<1> DEFINE x == a * m + c
           q == x \div m
           r == x % m
<1>1. x \in Int /\ a * m \in Int
  OBVIOUS
<1>2. x = m * q + r /\ r \in 0 .. m - 1 /\ q \in Int
  BY <1>1, DivMod0
<1>3. x = a * m + c
  OBVIOUS
<1> HIDE DEF x, q, r
<1>4. (a - q) * m = r - c
  BY <1>2, <1>3
<1>5. ~(a - q >= 1)
  <2>1. a - q >= 1 => (a - q) * m >= m
    BY <1>2, TimesGrow
  <2> QED BY <1>2, <1>4, <2>1
<1>6. ~(q - a >= 1)
  <2>1. q - a >= 1 => (q - a) * m >= m
    BY <1>2, TimesGrow
  <2>2. (q - a) * m = c - r
    BY <1>2, <1>4
  <2> QED BY <1>2, <2>1, <2>2
<1>7. q = a
  BY <1>2, <1>5, <1>6
<1>8. r = c
  BY <1>2, <1>3, <1>7
<1> QED BY <1>7, <1>8 DEF x, q, r

\* Numbers a multiple of m apart have one remainder, and only they.
LEMMA SameMod ==
  ASSUME NEW m \in Nat \ {0}, NEW x \in Int, NEW y \in Int, NEW k \in Int, x = y + k * m
  PROVE  x % m = y % m
<1>1. PICK q \in Int, r \in 0 .. m - 1 : y = q * m + r
  <2>1. y = (y \div m) * m + (y % m) /\ y \div m \in Int /\ y % m \in 0 .. m - 1
    BY DivMod0
  <2> QED BY <2>1, Zenon
<1>2. x = (q + k) * m + r /\ q + k \in Int
  BY <1>1, TimesAdd
<1>3. x % m = r
  BY <1>2, DivModIs
<1>4. y % m = r
  BY <1>1, DivModIs
<1> QED BY <1>3, <1>4

LEMMA ModSame ==
  ASSUME NEW m \in Nat \ {0}, NEW x \in Int, NEW y \in Int, x % m = y % m
  PROVE  \E k \in Int : x = y + k * m
<1>1. y = (y \div m) * m + (y % m) /\ y \div m \in Int /\ y % m \in 0 .. m - 1
  BY DivMod0
<1>2. x = (x \div m) * m + (x % m) /\ x \div m \in Int /\ x % m \in 0 .. m - 1
  BY DivMod0
<1> DEFINE k == x \div m - y \div m
<1>3. k * m = (x \div m) * m - (y \div m) * m
  BY <1>1, <1>2
<1>4. x = y + k * m /\ k \in Int
  BY <1>1, <1>2, <1>3
<1> QED BY <1>4

\* A number modulo a multiple of m.
LEMMA ModMultiple ==
  ASSUME NEW m \in Nat \ {0}, NEW n \in Nat \ {0}, n % m = 0, NEW x \in Int
  PROVE  (x % n) % m = x % m
<1>1. x = n * (x \div n) + (x % n) /\ x \div n \in Int /\ x % n \in Int
  BY DivMod0
<1>2. n = m * (n \div m) + (n % m) /\ n \div m \in Int
  BY DivMod0
<1> DEFINE k == (n \div m) * (x \div n)
<1>3. k \in Int /\ n * (x \div n) = k * m
  <2>1. PICK a, b \in Int : a = n \div m /\ b = x \div n
    BY <1>1, <1>2
  <2>2. n = m * a /\ n * b = (m * a) * b /\ (m * a) * b = (a * b) * m
    BY <1>2, <2>1
  <2> QED BY <2>1, <2>2
<1> HIDE DEF k
<1>4. PICK r \in Int : r = x % n
  BY <1>1
<1>5. x = r + k * m
  BY <1>1, <1>3, <1>4
<1>6. x % m = r % m
  BY <1>3, <1>5, SameMod
<1> QED BY <1>4, <1>6

\* One less than a count that stands for the whole range if it is 0.
LEMMA OneLess ==
  ASSUME NEW n \in Nat \ {0}, NEW x \in 0 .. n - 1
  PROVE  (x - 1) % n = (IF x = 0 THEN n ELSE x) - 1
<1>1. CASE x = 0
  <2>1. x - 1 = (-1) * n + (n - 1) /\ n - 1 \in 0 .. n - 1
    BY <1>1
  <2> QED BY <1>1, <2>1, DivModIs
<1>2. CASE x # 0
  <2>1. x - 1 = 0 * n + (x - 1) /\ x - 1 \in 0 .. n - 1
    BY <1>2
  <2> QED BY <1>2, <2>1, DivModIs
<1> QED BY <1>1, <1>2

-----------------------------------------------------------------------------
(* Values: all that a client sends, and a program computes with, are words. *)

\* A sequence has the elements of what it begins with.
LEMMA ConcatHas ==
  ASSUME NEW S, NEW u \in Seq(S), NEW v \in Seq(S)
  PROVE  ToSet(u) \subseteq ToSet(u \o v)
<1>1. /\ u \o v \in Seq(S) /\ Len(u \o v) = Len(u) + Len(v)
      /\ \A i \in 1 .. Len(u) + Len(v) : (u \o v)[i] = IF i <= Len(u) THEN u[i] ELSE v[i - Len(u)]
  BY ConcatProperties, Zenon
<1>2. PICK w \in Seq(S) : w = u \o v
  BY <1>1
<1>3. \A i \in 1 .. Len(u) : i \in 1 .. Len(w) /\ w[i] = u[i]
  BY <1>1, <1>2
<1>4. ToSet(u) \subseteq ToSet(w)
  BY <1>3 DEF ToSet
<1> QED BY <1>2, <1>4

\* A program loads fields of the structure its command fills.
LEMMA LoadsAreFields ==
  \A c \in DOMAIN Commands :
    /\ Commands[c].struct \in DOMAIN Fields
    /\ ToSet(Programs[Commands[c].image].loads) \subseteq ToSet(Fields[Commands[c].struct])
<1> SUFFICES ASSUME NEW c \in DOMAIN Commands
             PROVE  /\ Commands[c].struct \in DOMAIN Fields
                    /\ ToSet(Programs[Commands[c].image].loads)
                         \subseteq ToSet(Fields[Commands[c].struct])
  OBVIOUS
<1> DEFINE Names == {"Sx", "Sy", "sdx", "sdy", "dx", "dy", "pF", "sF", "nStep", "pStep", "Count",
                     "Start", "Stop", "Min", "Max", "STEP", "samp", "CH", "DVAR", "OS", "XFER",
                     "CCNT", "iDX", "iDY"}
<1>1. ScanWords \in Seq(Names) /\ ScanLoads = ScanWords
  BY DEF ScanWords, ScanLoads
<1>2. IVWords \in Seq(Names) /\ IV.loads = IVWords
  BY DEF IVWords, IV
<1>3. ReadCHWords \in Seq(Names) /\ ReadCH.loads = ReadCHWords
  BY DEF ReadCHWords, ReadCH
<1>4. <<"CCNT">> \in Seq(Names) /\ <<"CCNT", "iDX", "iDY">> \in Seq(Names)
  OBVIOUS
<1> HIDE DEF Names
<1>5. /\ ToSet(ScanWords) \subseteq ToSet(ScanWords \o <<"CCNT">>)
      /\ ToSet(ScanWords) \subseteq ToSet(ScanWords \o <<"CCNT", "iDX", "iDY">>)
      /\ ToSet(IVWords) \subseteq ToSet(IVWords \o <<"CCNT">>)
      /\ ToSet(ReadCHWords) \subseteq ToSet(ReadCHWords \o <<"CCNT">>)
  BY <1>1, <1>2, <1>3, <1>4, ConcatHas, Zenon
<1>6. CASE c \in {"START_SCAN", "TRIG_SCAN", "TRIG_SCAN_DAC"}
  <2>1. /\ Commands[c].struct = "scan"
        /\ Commands[c].image \in {"SPIScan", "TRIGScan", "TRIGScanDACOUT"}
    BY <1>6 DEF Commands
  <2>2. Fields["scan"] = ScanWords \o <<"CCNT">> /\ "scan" \in DOMAIN Fields
    BY DEF Fields
  <2>3. Programs[Commands[c].image].loads = ScanLoads
    BY <2>1 DEF Programs, SPIScan, TRIGScan, TRIGScanDACOUT
  <2> QED BY <1>1, <1>5, <2>1, <2>2, <2>3, Zenon
<1>7. CASE c = "SNAKE_SCAN"
  <2>1. Commands[c].struct = "snake" /\ Commands[c].image = "SnakeScan"
    BY <1>7 DEF Commands
  <2>2. Fields["snake"] = ScanWords \o <<"CCNT", "iDX", "iDY">> /\ "snake" \in DOMAIN Fields
    BY DEF Fields
  <2>3. Programs["SnakeScan"].loads = ScanLoads
    BY DEF Programs, SnakeScan
  <2> QED BY <1>1, <1>5, <2>1, <2>2, <2>3, Zenon
<1>8. CASE c = "IV_SCAN"
  <2>1. Commands[c].struct = "IV" /\ Commands[c].image = "IV"
    BY <1>8 DEF Commands
  <2>2. Fields["IV"] = IVWords \o <<"CCNT">> /\ "IV" \in DOMAIN Fields
    BY DEF Fields
  <2>3. Programs["IV"].loads = IVWords
    BY <1>2 DEF Programs
  <2> QED BY <1>5, <2>1, <2>2, <2>3, Zenon
<1>9. CASE c = "SET_V"
  BY <1>9 DEF Commands, Programs, Fields, SetV, SetVWords
<1>10. CASE c = "READ_CH"
  <2>1. Commands[c].struct = "rCH" /\ Commands[c].image = "ReadCH"
    BY <1>10 DEF Commands
  <2>2. Fields["rCH"] = ReadCHWords \o <<"CCNT">> /\ "rCH" \in DOMAIN Fields
    BY DEF Fields
  <2>3. Programs["ReadCH"].loads = ReadCHWords
    BY <1>3 DEF Programs
  <2> QED BY <1>5, <2>1, <2>2, <2>3, Zenon
<1> QED BY <1>6, <1>7, <1>8, <1>9, <1>10 DEF Commands

\* What is received, and with that what a program is started with, are words.
ValuesInv ==
  /\ DOMAIN structs = DOMAIN Fields
  /\ \A s \in DOMAIN Fields : /\ DOMAIN structs[s] = ToSet(Fields[s])
                              /\ \A f \in ToSet(Fields[s]) : structs[s][f] \in Words
  /\ DOMAIN dac = {"A", "B", "C", "D"}
  /\ mine /\ pc # "off" =>
       /\ image \in DOMAIN Programs /\ ToSet(Program.loads) \subseteq DOMAIN started
       /\ \A f \in DOMAIN started : started[f] \in Words

\* The structures of a server that starts.
LEMMA ZeroedIs ==
  /\ DOMAIN Zeroed = DOMAIN Fields
  /\ \A s \in DOMAIN Fields : /\ DOMAIN Zeroed[s] = ToSet(Fields[s])
                              /\ \A f \in ToSet(Fields[s]) : Zeroed[s][f] \in Words
<1>1. 0 \in Words
  BY ScanAssumption DEF Words
<1>2. DOMAIN Zeroed = DOMAIN Fields
  BY DEF Zeroed
<1>3. \A s \in DOMAIN Fields : Zeroed[s] = [f \in ToSet(Fields[s]) |-> 0]
  BY DEF Zeroed
<1> QED BY <1>1, <1>2, <1>3

LEMMA ValuesInit == Init => ValuesInv
<1> SUFFICES ASSUME Init PROVE ValuesInv
  OBVIOUS
<1>1. structs = Zeroed /\ mine = FALSE /\ dac = [A |-> 0, B |-> 0, C |-> 0, D |-> 0]
  BY DEF Init, ScanInit
<1> QED BY <1>1, ZeroedIs DEF ValuesInv

\* sscanf puts words in one structure.
LEMMA ReceiveValues ==
  ASSUME ValuesInv, NEW d \in Datagrams, Receive(d)
  PROVE  /\ DOMAIN structs' = DOMAIN Fields
         /\ \A s \in DOMAIN Fields : /\ DOMAIN structs'[s] = ToSet(Fields[s])
                                     /\ \A f \in ToSet(Fields[s]) : structs'[s][f] \in Words
<1>1. CASE structs' = structs
  BY <1>1 DEF ValuesInv
<1>2. CASE structs' # structs
  <2> DEFINE t == Commands[cmd'].struct
             v == Scanned(t, d.words)
  <2>1. Starts(cmd') /\ structs' = [structs EXCEPT ![t] = v]
    BY <1>2 DEF Receive
  <2>2. t \in DOMAIN Fields
    BY <2>1, LoadsAreFields DEF Starts
  <2>3. DOMAIN v = ToSet(Fields[t]) /\ \A f \in ToSet(Fields[t]) : v[f] \in Words
    <3> DEFINE at(f) == CHOOSE k \in DOMAIN Fields[t] : Fields[t][k] = f
    <3>1. DOMAIN structs[t] = ToSet(Fields[t])
      BY <2>2 DEF ValuesInv
    <3>2. v = [f \in DOMAIN structs[t] |-> IF at(f) \in DOMAIN d.words THEN d.words[at(f)]
                                           ELSE structs[t][f]]
      BY DEF Scanned
    <3>3. ASSUME NEW f \in ToSet(Fields[t]) PROVE v[f] \in Words
      <4>1. v[f] = IF at(f) \in DOMAIN d.words THEN d.words[at(f)] ELSE structs[t][f]
        BY <3>1, <3>2
      <4>2. structs[t][f] \in Words
        BY <2>2 DEF ValuesInv
      <4>3. \A i \in DOMAIN d.words : d.words[i] \in Words
        BY DatagramAssumption
      <4> QED BY <4>1, <4>2, <4>3
    <3> QED BY <3>1, <3>2, <3>3
  <2> HIDE DEF v, t
  <2>4. \A s \in DOMAIN Fields : structs'[s] = IF s = t THEN v ELSE structs[s]
    BY <2>1 DEF ValuesInv
  <2>5. DOMAIN structs' = DOMAIN Fields
    BY <2>1 DEF ValuesInv
  <2> QED BY <2>3, <2>4, <2>5 DEF ValuesInv
<1> QED BY <1>1, <1>2

\* What neither fills a structure nor starts a program.
LEMMA ValuesKept ==
  ASSUME ValuesInv, UNCHANGED <<structs, started>>, DOMAIN dac' = DOMAIN dac,
         mine' /\ pc' # "off" => mine /\ pc # "off" /\ image' = image
  PROVE  ValuesInv'
<1>1. image' = image => Program' = Program
  BY DEF Program
<1>2. /\ DOMAIN structs' = DOMAIN Fields /\ DOMAIN dac' = {"A", "B", "C", "D"}
      /\ \A s \in DOMAIN Fields : /\ DOMAIN structs'[s] = ToSet(Fields[s])
                                  /\ \A f \in ToSet(Fields[s]) : structs'[s][f] \in Words
  BY DEF ValuesInv
<1>3. ASSUME mine', pc' # "off"
      PROVE  /\ image' \in DOMAIN Programs /\ ToSet(Program'.loads) \subseteq DOMAIN started'
             /\ \A f \in DOMAIN started' : started'[f] \in Words
  BY <1>1, <1>3 DEF ValuesInv
<1> QED BY <1>2, <1>3 DEF ValuesInv

\* What a step of the program leaves alone.
LEMMA PruKeeps ==
  ASSUME Pru
  PROVE  /\ Running /\ image' = image /\ Program' = Program /\ DOMAIN dac' = DOMAIN dac
         /\ UNCHANGED arm /\ UNCHANGED <<dram, structs, started, mine, dma>>
<1>1. Running /\ UNCHANGED arm /\ UNCHANGED dram
  BY PruRuns DEF Pru
<1>2. UNCHANGED <<structs, started, mine, dma>>
  BY <1>1 DEF arm
<1>3. image' = image /\ Program' = Program
  BY DEF Pru, Step, Trigger, PASSVALUES, SETUP, LOOP1, SUBLOOP2, LOOP3, ADCREAD,
       RLOOP3, RLOOP2, STIV, DACUPDATE, DONE, Program
<1>4. DOMAIN dac' = DOMAIN dac
  BY DEF Pru, Step, Trigger, PASSVALUES, SETUP, LOOP1, SUBLOOP2, LOOP3, ADCREAD,
       RLOOP3, RLOOP2, STIV, DACUPDATE, DONE
<1> QED BY <1>1, <1>2, <1>3, <1>4

\* What prussdrv_exec_program starts has words for its registers.
LEMMA ExecStarts ==
  ASSUME ServerInv, ValuesInv, Exec
  PROVE  /\ image' \in DOMAIN Programs /\ pc' = "PASSVALUES" /\ dots' = 0 /\ taken' = 0
         /\ ToSet(Program'.loads) \subseteq DOMAIN started'
         /\ \A f \in DOMAIN started' : started'[f] \in Words
<1>1. /\ Starts(cmd) /\ image' = Command.image /\ pc' = "PASSVALUES" /\ dots' = 0 /\ taken' = 0
      /\ started' = structs[Command.struct]
  BY DEF Exec, Server, ServerInv
<1>2. Fits(cmd) /\ Command = Commands[cmd]
  BY <1>1, AllFit DEF Starts, Command
<1>3. image' \in DOMAIN Programs /\ Program' = Programs[Command.image]
  BY <1>1, <1>2 DEF Fits, Program
<1>4. /\ Command.struct \in DOMAIN Fields
      /\ ToSet(Program'.loads) \subseteq ToSet(Fields[Command.struct])
  BY <1>1, <1>2, <1>3, LoadsAreFields DEF Starts
<1>5. /\ DOMAIN started' = ToSet(Fields[Command.struct])
      /\ \A f \in DOMAIN started' : started'[f] \in Words
  BY <1>1, <1>4 DEF ValuesInv
<1> QED BY <1>1, <1>3, <1>4, <1>5

LEMMA ValuesNext == ServerInv /\ ValuesInv /\ [Next]_vars => ValuesInv'
<1> SUFFICES ASSUME ServerInv, ValuesInv, [Next]_vars PROVE ValuesInv'
  OBVIOUS
<1>1. CASE \E d \in Datagrams : Receive(d)
  <2>1. PICK d \in Datagrams : Receive(d)
    BY <1>1
  <2>2. UNCHANGED <<dac, mine, pc, image, started>>
    BY <2>1 DEF Receive, pru
  <2>3. Program' = Program
    BY <2>2 DEF Program
  <2>4. /\ DOMAIN structs' = DOMAIN Fields
        /\ \A s \in DOMAIN Fields : /\ DOMAIN structs'[s] = ToSet(Fields[s])
                                    /\ \A f \in ToSet(Fields[s]) : structs'[s][f] \in Words
    BY <2>1, ReceiveValues
  <2> QED BY <2>2, <2>3, <2>4 DEF ValuesInv
<1>2. CASE ClearEvent \/ Disable
  BY <1>2, ValuesKept DEF ClearEvent, Disable
<1>3. CASE Exit \/ Open \/ WriteIoctl \/ ExampleInit \/ Store
  BY <1>3, ValuesKept DEF Exit, Open, WriteIoctl, ExampleInit, Store, pru
<1>4. CASE IntcInit
  BY <1>4, ValuesKept DEF IntcInit
<1>5. CASE Exec
  <2>1. UNCHANGED <<structs, dac>>
    BY <1>5 DEF Exec
  <2> QED BY <1>5, <2>1, ExecStarts DEF ValuesInv
<1>6. CASE Fail \/ Kill
  BY <1>6, ValuesKept DEF Fail, Kill, pru
<1>7. CASE Restart
  <2>1. structs' = Zeroed /\ UNCHANGED <<dac, mine, pc, image, started>>
    BY <1>7 DEF Restart, pru
  <2>2. Program' = Program
    BY <2>1 DEF Program
  <2> QED BY <2>1, <2>2, ZeroedIs DEF ValuesInv
<1>8. CASE Pru
  BY <1>8, PruKeeps, ValuesKept DEF Running
<1>9. CASE UNCHANGED vars
  BY <1>9, ValuesKept DEF vars, pru, arm
<1> QED BY <1>1, <1>2, <1>3, <1>4, <1>5, <1>6, <1>7, <1>8, <1>9 DEF Next

-----------------------------------------------------------------------------
(* What the steps of a pattern do to the registers.                        *)

\* SETUP: the steps of the snake and their inverses, the first output of IV.
LEMMA SetupDoes ==
  ASSUME SETUP
  PROVE  /\ pc' = Program.begin /\ UNCHANGED <<dac, dots, taken>>
         /\ Program.turns =>
              /\ DOMAIN regs' = DOMAIN regs \union {"DX", "IDX", "DY", "IDY", "SwS", "Fx", "Fy"}
              /\ regs'.DX = regs.dx /\ regs'.IDX = Inverse16(regs.dx)
              /\ regs'.DY = regs.dy /\ regs'.IDY = Inverse16(regs.dy)
              /\ regs'.SwS = 0 /\ regs'.Fx = regs.Sx /\ regs'.Fy = regs.Sy
              /\ \A r \in DOMAIN regs \ {"DX", "IDX", "DY", "IDY", "SwS", "Fx", "Fy"} :
                   regs'[r] = regs[r]
         /\ ~Program.turns /\ image = "IV" =>
              /\ DOMAIN regs' = DOMAIN regs \union {"V1"} /\ regs'.V1 = regs.Start
              /\ \A r \in DOMAIN regs \ {"V1"} : regs'[r] = regs[r]
         /\ ~Program.turns /\ image # "IV" => regs' = regs
<1>1. pc' = Program.begin /\ UNCHANGED <<dac, dots, taken>>
  BY DEF SETUP, Goto
<1>2. CASE Program.turns
  <2>1. CASE image = "IV"
    <3>1. Program.turns = FALSE
      BY <2>1 DEF Program, Programs, IV
    <3> QED BY <1>2, <3>1
  <2>2. CASE image # "IV"
    <3>1. regs' = Assign([DX |-> regs.dx, IDX |-> Inverse16(regs.dx),
                          DY |-> regs.dy, IDY |-> Inverse16(regs.dy),
                          SwS |-> 0, Fx |-> regs.Sx, Fy |-> regs.Sy])
      BY <1>2, <2>2 DEF SETUP
    <3> QED BY <1>1, <1>2, <3>1 DEF Assign
  <2> QED BY <2>1, <2>2
<1>3. CASE ~Program.turns /\ image = "IV"
  BY <1>1, <1>3 DEF SETUP, Assign
<1>4. CASE ~Program.turns /\ image # "IV"
  BY <1>1, <1>4 DEF SETUP
<1> QED BY <1>2, <1>3, <1>4

\* LOOP1 and LOOP2: the start of a line.
LEMMA Loop1Does ==
  ASSUME LOOP1
  PROVE  /\ pc = "LOOP1" /\ pc' = "SUBLOOP2" /\ UNCHANGED <<dac, dots, taken>>
         /\ DOMAIN regs' = DOMAIN regs \union {"Fx", "Fy", "pFc"}
         /\ regs'.Fx = (IF Program.turns THEN regs.Fx ELSE regs.Sx)
         /\ regs'.Fy = regs.Sy /\ regs'.pFc = regs.pF
         /\ \A r \in DOMAIN regs \ {"Fx", "Fy", "pFc"} : regs'[r] = regs[r]
BY DEF LOOP1, Assign, Goto

\* The DACs take Fx and Fy; the delays of the snake leave 0 in DY.
LEMMA SubLoop2Does ==
  ASSUME SUBLOOP2, DOMAIN dac = {"A", "B", "C", "D"}
  PROVE  /\ pc = "SUBLOOP2" /\ pc' = "LOOP3" /\ UNCHANGED <<dots, taken>>
         /\ Program.moves => dac'.A = regs.Fx % DacRange /\ dac'.B = regs.Fy % DacRange
         /\ DOMAIN regs' = DOMAIN regs
         /\ \A r \in DOMAIN regs : regs'[r] = IF Program.turns /\ r = "DY" THEN 0 ELSE regs[r]
<1>1. Program.moves => dac'.A = regs.Fx % DacRange /\ dac'.B = regs.Fy % DacRange
  BY DEF SUBLOOP2
<1>2. DOMAIN regs' = DOMAIN regs
  BY DEF SUBLOOP2
<1>3. \A r \in DOMAIN regs : regs'[r] = IF Program.turns /\ r = "DY" THEN 0 ELSE regs[r]
  BY DEF SUBLOOP2
<1> QED BY <1>1, <1>2, <1>3 DEF SUBLOOP2, Goto

\* LOOP3: the count of the samples of a point.
LEMMA Loop3Does ==
  ASSUME LOOP3
  PROVE  /\ pc = "LOOP3" /\ pc' = "ADCREAD" /\ UNCHANGED <<dac, dots, taken>>
         /\ DOMAIN regs' = DOMAIN regs \union {"sampc"} /\ regs'.sampc = regs.samp
         /\ \A r \in DOMAIN regs \ {"sampc"} : regs'[r] = regs[r]
BY DEF LOOP3, Assign, Goto

\* ADCREAD: one sample.
LEMMA AdcReadDoes ==
  ASSUME ADCREAD, "sampc" \in DOMAIN regs
  PROVE  /\ pc = "ADCREAD" /\ UNCHANGED <<dac, dots>> /\ taken' = taken + 1
         /\ pc' = IF regs'.sampc # 0 THEN "ADCREAD" ELSE Program.after
         /\ DOMAIN regs' = DOMAIN regs /\ regs'.sampc = Minus1(regs.sampc)
         /\ \A r \in DOMAIN regs \ {"sampc"} : regs'[r] = regs[r]
BY DEF ADCREAD, Goto

\* RLOOP3: the next point.
LEMMA RLoop3Does ==
  ASSUME RLOOP3, {"Fx", "Fy", "pFc"} \subseteq DOMAIN regs
  PROVE  /\ pc = "RLOOP3" /\ UNCHANGED <<dac, taken>> /\ dots' = dots + 1
         /\ pc' = IF regs'.pFc # 0 THEN "SUBLOOP2" ELSE "RLOOP2"
         /\ DOMAIN regs' = DOMAIN regs /\ regs'.pFc = Minus1(regs.pFc)
         /\ Program.moves => regs'.Fx = Plus(regs.Fx, regs.dx) /\ regs'.Fy = Plus(regs.Fy, regs.dy)
         /\ ~Program.moves => regs'.Fx = regs.Fx /\ regs'.Fy = regs.Fy
         /\ \A r \in DOMAIN regs \ {"Fx", "Fy", "pFc"} : regs'[r] = regs[r]
<1> DEFINE moved == IF Program.moves
                    THEN [regs EXCEPT !.Fx = Plus(@, regs.dx), !.Fy = Plus(@, regs.dy)]
                    ELSE regs
<1>1. regs' = [moved EXCEPT !.pFc = Minus1(@)]
  BY DEF RLOOP3
<1>2. /\ DOMAIN moved = DOMAIN regs
      /\ Program.moves => moved.Fx = Plus(regs.Fx, regs.dx) /\ moved.Fy = Plus(regs.Fy, regs.dy)
      /\ ~Program.moves => moved.Fx = regs.Fx /\ moved.Fy = regs.Fy
      /\ \A r \in DOMAIN regs \ {"Fx", "Fy"} : moved[r] = regs[r]
  OBVIOUS
<1> HIDE DEF moved
<1>3. /\ DOMAIN regs' = DOMAIN regs /\ regs'.pFc = Minus1(regs.pFc)
      /\ \A r \in DOMAIN regs \ {"pFc"} : regs'[r] = moved[r]
  BY <1>1, <1>2
<1> QED BY <1>2, <1>3 DEF RLOOP3, Goto

\* RLOOP2, SWitchN and SWitchP: the next line.
LEMMA RLoop2Does ==
  ASSUME RLOOP2, ToSet(ScanLoads) \subseteq DOMAIN regs
  PROVE  /\ pc = "RLOOP2" /\ UNCHANGED <<dac, dots, taken>>
         /\ pc' = IF regs'.sF # 0 THEN "LOOP1" ELSE "DONE"
         /\ DOMAIN regs' = DOMAIN regs
         /\ regs'.sF = Minus1(regs.sF)
         /\ Program.moves =>
              regs'.Sx = Plus(regs.Sx, regs.sdx) /\ regs'.Sy = Plus(regs.Sy, regs.sdy)
         /\ ~Program.moves => regs'.Sx = regs.Sx /\ regs'.Sy = regs.Sy
         /\ Program.turns /\ "SwS" \in DOMAIN regs =>
              /\ regs.SwS = 0 => regs'.dx = regs.IDX /\ regs'.dy = regs.IDY /\ regs'.SwS = 1
              /\ regs.SwS # 0 => regs'.dx = regs.DX /\ regs'.dy = regs.DY /\ regs'.SwS = 0
         /\ ~Program.turns => regs'.dx = regs.dx /\ regs'.dy = regs.dy
         /\ \A r \in DOMAIN regs \ {"Sx", "Sy", "sF", "dx", "dy", "SwS"} : regs'[r] = regs[r]
         /\ ~Program.turns /\ "SwS" \in DOMAIN regs => regs'.SwS = regs.SwS
<1> DEFINE turned == IF Program.turns THEN Switch(regs) ELSE regs
           moved == IF Program.moves
                    THEN [turned EXCEPT !.Sx = Plus(@, regs.sdx), !.Sy = Plus(@, regs.sdy)]
                    ELSE turned
<1>0. {"Sx", "Sy", "sF", "dx", "dy"} \subseteq DOMAIN regs
  <2>1. {"Sx", "Sy", "sF", "dx", "dy"} \subseteq ToSet(ScanLoads)
    BY DEF ScanLoads, ToSet
  <2> QED BY <2>1
<1>1. /\ DOMAIN turned = DOMAIN regs
      /\ Program.turns /\ "SwS" \in DOMAIN regs =>
              /\ regs.SwS = 0 => turned.dx = regs.IDX /\ turned.dy = regs.IDY /\ turned.SwS = 1
              /\ regs.SwS # 0 => turned.dx = regs.DX /\ turned.dy = regs.DY /\ turned.SwS = 0
      /\ ~Program.turns => turned = regs
      /\ \A r \in DOMAIN regs \ {"dx", "dy", "SwS"} : turned[r] = regs[r]
  BY <1>0 DEF Switch
<1>2. regs' = [moved EXCEPT !.sF = Minus1(@)]
  BY DEF RLOOP2
<1> HIDE DEF turned
<1>3. /\ DOMAIN moved = DOMAIN regs
      /\ Program.moves => moved.Sx = Plus(regs.Sx, regs.sdx) /\ moved.Sy = Plus(regs.Sy, regs.sdy)
      /\ ~Program.moves => moved.Sx = regs.Sx /\ moved.Sy = regs.Sy
      /\ \A r \in DOMAIN regs \ {"Sx", "Sy"} : moved[r] = turned[r]
  BY <1>0, <1>1
<1> HIDE DEF moved
<1>4. /\ DOMAIN regs' = DOMAIN regs /\ regs'.sF = Minus1(regs.sF)
      /\ \A r \in DOMAIN regs \ {"sF"} : regs'[r] = moved[r]
  BY <1>0, <1>1, <1>2, <1>3
<1>5. /\ pc = "RLOOP2" /\ UNCHANGED <<dac, dots, taken>>
      /\ pc' = IF regs'.sF # 0 THEN "LOOP1" ELSE "DONE"
  BY DEF RLOOP2, Goto
<1>6. /\ DOMAIN regs' = DOMAIN regs
      /\ \A r \in DOMAIN regs \ {"Sx", "Sy", "sF", "dx", "dy", "SwS"} : regs'[r] = regs[r]
  BY <1>1, <1>3, <1>4
<1>7. regs'.Sx = moved.Sx /\ regs'.Sy = moved.Sy
  BY <1>0, <1>4
<1>8. \A r \in DOMAIN regs \ {"Sx", "Sy", "sF"} : regs'[r] = turned[r]
  BY <1>3, <1>4
<1>9. regs'.dx = turned.dx /\ regs'.dy = turned.dy
  BY <1>0, <1>8
<1>10. "SwS" \in DOMAIN regs => regs'.SwS = turned.SwS
  BY <1>8
<1>11. /\ Program.turns /\ "SwS" \in DOMAIN regs =>
            /\ regs.SwS = 0 => regs'.dx = regs.IDX /\ regs'.dy = regs.IDY /\ regs'.SwS = 1
            /\ regs.SwS # 0 => regs'.dx = regs.DX /\ regs'.dy = regs.DY /\ regs'.SwS = 0
  BY <1>1, <1>9, <1>10
<1>12. /\ ~Program.turns => regs'.dx = regs.dx /\ regs'.dy = regs.dy
       /\ ~Program.turns /\ "SwS" \in DOMAIN regs => regs'.SwS = regs.SwS
  BY <1>1, <1>9, <1>10
<1>13. /\ Program.moves => regs'.Sx = Plus(regs.Sx, regs.sdx) /\ regs'.Sy = Plus(regs.Sy, regs.sdy)
       /\ ~Program.moves => regs'.Sx = regs.Sx /\ regs'.Sy = regs.Sy
  BY <1>3, <1>7
<1> QED BY <1>4, <1>5, <1>6, <1>11, <1>12, <1>13

\* STIV: the next step of the sweep, or the end.
LEMMA StivDoes ==
  ASSUME STIV, {"Count", "Stop"} \subseteq DOMAIN regs
  PROVE  /\ pc = "STIV" /\ UNCHANGED <<dots, taken>>
         /\ DOMAIN regs' = DOMAIN regs
         /\ regs.Stop = regs.Count => pc' = "DONE" /\ regs' = regs
         /\ regs.Stop # regs.Count => pc' = "LOOP3" /\ regs'.Count = Minus1(regs.Count)
         /\ \A r \in DOMAIN regs \ {"STEP", "V1", "Count"} : regs'[r] = regs[r]
<1>1. CASE regs.Stop = regs.Count
  BY <1>1 DEF STIV, Goto
<1>2. CASE regs.Stop # regs.Count
  <2>1. PICK step : regs' = [regs EXCEPT !.STEP = step, !.V1 = Plus(@, step), !.Count = Minus1(@)]
    BY <1>2 DEF STIV
  <2>2. /\ DOMAIN regs' = DOMAIN regs /\ regs'.Count = Minus1(regs.Count)
        /\ \A r \in DOMAIN regs \ {"STEP", "V1", "Count"} : regs'[r] = regs[r]
    BY <2>1
  <2> QED BY <1>2, <2>2 DEF STIV, Goto
<1> QED BY <1>1, <1>2

Scans == {"SPIScan", "SnakeScan", "TRIGScan", "TRIGScanDACOUT"}

\* The four patterns have one frame.
LEMMA ScansAre ==
  ASSUME image \in Scans
  PROVE  /\ image \in DOMAIN Programs
         /\ Program.loads = ScanLoads /\ Program.begin = "LOOP1" /\ Program.after = "RLOOP3"
         /\ Program.turns => Program.moves
         /\ Program.turns \in BOOLEAN /\ Program.moves \in BOOLEAN
<1>1. CASE image = "SPIScan"
  BY <1>1 DEF Program, Programs, SPIScan
<1>2. CASE image = "SnakeScan"
  BY <1>2 DEF Program, Programs, SnakeScan
<1>3. CASE image = "TRIGScan"
  BY <1>3 DEF Program, Programs, TRIGScan
<1>4. CASE image = "TRIGScanDACOUT"
  BY <1>4 DEF Program, Programs, TRIGScanDACOUT
<1> QED BY <1>1, <1>2, <1>3, <1>4 DEF Scans

\* The other programs move no outputs along a pattern.
LEMMA OthersAre ==
  ASSUME image \in DOMAIN Programs
  PROVE  /\ image \in Scans \union {"IV", "SetV", "ReadCH"}
         /\ image \notin Scans => Program.turns = FALSE /\ Program.moves = FALSE
         /\ image = "IV" => Program.begin = "STIV" /\ Program.after = "STIV"
         /\ image = "SetV" => Program.begin = "DACUPDATE"
         /\ image = "ReadCH" => Program.begin = "LOOP3" /\ Program.after = "DONE"
<1>1. CASE image \in Scans
  BY <1>1 DEF Scans
<1>2. CASE image = "IV"
  BY <1>2 DEF Scans, Program, Programs, IV
<1>3. CASE image = "SetV"
  BY <1>3 DEF Scans, Program, Programs, SetV
<1>4. CASE image = "ReadCH"
  BY <1>4 DEF Scans, Program, Programs, ReadCH
<1> QED BY <1>1, <1>2, <1>3, <1>4 DEF Scans, Programs

\* What each program has among its registers.
LEMMA LoadedNames ==
  /\ image \in Scans => {"Sx", "Sy", "sdx", "sdy", "dx", "dy", "pF", "sF", "samp"}
                          \subseteq ToSet(Program.loads)
  /\ image \in Scans => {"sdx", "sdy", "pF", "samp"} \subseteq Kept
  /\ image = "IV" => {"Count", "Stop", "samp", "Start"} \subseteq ToSet(Program.loads)
  /\ image = "IV" => {"Stop", "samp"} \subseteq Kept
  /\ image = "ReadCH" => "samp" \in Kept /\ "samp" \in ToSet(Program.loads)
<1>1. ASSUME image \in Scans
      PROVE  /\ {"Sx", "Sy", "sdx", "sdy", "dx", "dy", "pF", "sF", "samp"}
                  \subseteq ToSet(Program.loads)
             /\ {"sdx", "sdy", "pF", "samp"} \subseteq Kept
  <2>1. Program.loads = ScanLoads
    BY <1>1, ScansAre
  <2> QED BY <2>1 DEF ScanLoads, ToSet, Kept
<1>2. ASSUME image = "IV"
      PROVE  /\ {"Count", "Stop", "samp", "Start"} \subseteq ToSet(Program.loads)
             /\ {"Stop", "samp"} \subseteq Kept
  BY <1>2 DEF Program, Programs, IV, ToSet, Kept
<1>3. ASSUME image = "ReadCH" PROVE "samp" \in Kept /\ "samp" \in ToSet(Program.loads)
  BY <1>3 DEF Program, Programs, ReadCH, ToSet, Kept
<1> QED BY <1>1, <1>2, <1>3

-----------------------------------------------------------------------------
\* The labels of each program.
Inner ==
  CASE image \in Scans  -> {"LOOP1", "SUBLOOP2", "LOOP3", "ADCREAD", "RLOOP3", "RLOOP2"}
    [] image = "IV"     -> {"STIV", "LOOP3", "ADCREAD"}
    [] image = "SetV"   -> {"DACUPDATE"}
    [] image = "ReadCH" -> {"LOOP3", "ADCREAD"}
    [] OTHER            -> {}

LabelInv == mine /\ pc # "off" => pc \in {"PASSVALUES", "SETUP", "DONE", "HALT"} \union Inner

\* What the server does between two starts leaves the program as it is.
LEMMA ScanKept ==
  ASSUME Next
  PROVE  \/ Pru \/ Exec \/ ~mine' \/ pc' = "off"
         \/ UNCHANGED <<image, pc, regs, dac, dots, taken, started, mine>>
<1> SUFFICES ASSUME ~Pru, ~Exec, mine', pc' # "off"
             PROVE  UNCHANGED <<image, pc, regs, dac, dots, taken, started, mine>>
  OBVIOUS
<1>1. CASE \E d \in Datagrams : Receive(d)
  BY <1>1 DEF Receive, pru
<1>2. CASE ClearEvent \/ IntcInit
  BY <1>2 DEF ClearEvent, IntcInit
<1>3. CASE Disable
  BY <1>3 DEF Disable
<1>4. CASE Exit \/ WriteIoctl \/ Open \/ ExampleInit \/ Store \/ Restart
  BY <1>4 DEF Exit, WriteIoctl, Open, ExampleInit, Store, Restart, pru
<1>5. CASE Fail \/ Kill
  BY <1>5 DEF Fail, Kill
<1> QED BY <1>1, <1>2, <1>3, <1>4, <1>5 DEF Next

LEMMA InnerIs ==
  /\ image \in Scans => Inner = {"LOOP1", "SUBLOOP2", "LOOP3", "ADCREAD", "RLOOP3", "RLOOP2"}
  /\ image = "IV" => Inner = {"STIV", "LOOP3", "ADCREAD"}
  /\ image = "SetV" => Inner = {"DACUPDATE"}
  /\ image = "ReadCH" => Inner = {"LOOP3", "ADCREAD"}
BY DEF Inner, Scans

\* Each jump goes to a label of its own program.
LEMMA LabelSteps == ASSUME ValuesInv, LabelInv, Pru PROVE LabelInv'
<1>1. Running /\ UNCHANGED <<image, mine>> /\ Program' = Program
  BY PruKeeps
<1>2. Inner' = Inner
  BY <1>1 DEF Inner
<1> SUFFICES ASSUME mine PROVE pc' \in {"PASSVALUES", "SETUP", "DONE", "HALT"} \union Inner
  BY <1>1, <1>2 DEF LabelInv
<1>3. pc \in {"PASSVALUES", "SETUP", "DONE", "HALT"} \union Inner /\ image \in DOMAIN Programs
  BY <1>1 DEF LabelInv, ValuesInv, Running
<1>4. CASE image \in Scans
  <2>1. /\ Inner = {"LOOP1", "SUBLOOP2", "LOOP3", "ADCREAD", "RLOOP3", "RLOOP2"}
        /\ Program.begin = "LOOP1" /\ Program.after = "RLOOP3"
    BY <1>4, InnerIs, ScansAre
  <2> QED BY <1>3, <2>1 DEF Pru, Step, Trigger, PASSVALUES, SETUP, LOOP1, SUBLOOP2, LOOP3,
       ADCREAD, RLOOP3, RLOOP2, STIV, DACUPDATE, DONE, Goto
<1>5. CASE image = "IV"
  <2>1. /\ Inner = {"STIV", "LOOP3", "ADCREAD"} /\ Program.begin = "STIV" /\ Program.after = "STIV"
    BY <1>3, <1>5, InnerIs, OthersAre
  <2> QED BY <1>3, <2>1 DEF Pru, Step, Trigger, PASSVALUES, SETUP, LOOP1, SUBLOOP2, LOOP3,
       ADCREAD, RLOOP3, RLOOP2, STIV, DACUPDATE, DONE, Goto
<1>6. CASE image = "SetV"
  <2>1. Inner = {"DACUPDATE"} /\ Program.begin = "DACUPDATE"
    BY <1>3, <1>6, InnerIs, OthersAre
  <2> QED BY <1>3, <2>1 DEF Pru, Step, Trigger, PASSVALUES, SETUP, LOOP1, SUBLOOP2, LOOP3,
       ADCREAD, RLOOP3, RLOOP2, STIV, DACUPDATE, DONE, Goto
<1>7. CASE image = "ReadCH"
  <2>1. Inner = {"LOOP3", "ADCREAD"} /\ Program.begin = "LOOP3" /\ Program.after = "DONE"
    BY <1>3, <1>7, InnerIs, OthersAre
  <2> QED BY <1>3, <2>1 DEF Pru, Step, Trigger, PASSVALUES, SETUP, LOOP1, SUBLOOP2, LOOP3,
       ADCREAD, RLOOP3, RLOOP2, STIV, DACUPDATE, DONE, Goto
<1> QED BY <1>3, <1>4, <1>5, <1>6, <1>7, OthersAre

\* The steps of each program.
LEMMA ScanSteps ==
  ASSUME LabelInv, mine, image \in Scans, Pru
  PROVE  PASSVALUES \/ SETUP \/ LOOP1 \/ SUBLOOP2 \/ LOOP3 \/ ADCREAD \/ RLOOP3 \/ RLOOP2 \/ DONE
<1>1. Running /\ pc \in {"PASSVALUES", "SETUP", "DONE", "HALT"} \union Inner
  BY PruKeeps DEF LabelInv, Running
<1> QED BY <1>1, InnerIs DEF Pru, Step, Trigger, STIV, DACUPDATE

LEMMA SweepSteps ==
  ASSUME LabelInv, mine, image = "IV", Pru
  PROVE  PASSVALUES \/ SETUP \/ STIV \/ LOOP3 \/ ADCREAD \/ DONE
<1>1. Running /\ pc \in {"PASSVALUES", "SETUP", "DONE", "HALT"} \union Inner
  BY PruKeeps DEF LabelInv, Running
<1> QED BY <1>1, InnerIs DEF Pru, Step, Trigger, LOOP1, SUBLOOP2, RLOOP3, RLOOP2, DACUPDATE

LEMMA ReadSteps ==
  ASSUME LabelInv, mine, image = "ReadCH", Pru
  PROVE  PASSVALUES \/ SETUP \/ LOOP3 \/ ADCREAD \/ DONE
<1>1. Running /\ pc \in {"PASSVALUES", "SETUP", "DONE", "HALT"} \union Inner
  BY PruKeeps DEF LabelInv, Running
<1> QED BY <1>1, InnerIs DEF Pru, Step, Trigger, LOOP1, SUBLOOP2, RLOOP3, RLOOP2, STIV, DACUPDATE

LEMMA SetSteps ==
  ASSUME LabelInv, mine, image = "SetV", Pru
  PROVE  PASSVALUES \/ SETUP \/ DACUPDATE \/ DONE
<1>1. Running /\ pc \in {"PASSVALUES", "SETUP", "DONE", "HALT"} \union Inner
  BY PruKeeps DEF LabelInv, Running
<1> QED BY <1>1, InnerIs DEF Pru, Step, Trigger, LOOP1, SUBLOOP2, RLOOP3, RLOOP2, STIV, LOOP3,
       ADCREAD

-----------------------------------------------------------------------------
(* The registers hold words.                                               *)

\* Arithmetic stays in the range of a register.
LEMMA WordsAre ==
  /\ WordRange \in Nat \ {0} /\ 0 \in Words /\ 1 \in Words /\ Words \subseteq Int
  /\ \A x \in Int : x % WordRange \in Words
  /\ \A x, y \in Words : Plus(x, y) \in Words /\ Minus1(x) \in Words /\ Inverse16(x) \in Words
<1>1. DacRange \in Nat \ {0, 1} /\ WordRange \in Nat \ {0} /\ WordRange % DacRange = 0
  BY ScanAssumption
<1>2. WordRange >= 2
  BY <1>1
<1>3. \A x \in Int : x % WordRange \in Words
  BY <1>1 DEF Words
<1>4. \A x \in Words : x % DacRange \in Int
  BY <1>1 DEF Words
<1> QED BY <1>1, <1>2, <1>3, <1>4 DEF Words, Plus, Minus1, Inverse16

\* The labels within a line, and the registers of the snake.
InLine == {"SUBLOOP2", "LOOP3", "ADCREAD", "RLOOP3"}
Turning == {"DX", "IDX", "DY", "IDY", "SwS", "Fx", "Fy"}

\* The registers hold words (but for the two whose arithmetic is not needed), and those that
\* a label counts on are set.
RegsInv ==
  mine /\ Running /\ pc # "PASSVALUES" =>
    /\ \A r \in DOMAIN regs \ {"V1", "STEP"} : regs[r] \in Words
    /\ Program.turns /\ pc # "SETUP" => Turning \subseteq DOMAIN regs
    /\ image \in Scans /\ pc \in InLine \union {"RLOOP2"} =>
         {"Fx", "Fy", "pFc"} \subseteq DOMAIN regs
    /\ pc = "ADCREAD" => "sampc" \in DOMAIN regs

LEMMA RegsSteps ==
  ASSUME RunInv, ValuesInv, LabelInv, RegsInv, Pru
  PROVE  RegsInv'
<1>1. Running /\ UNCHANGED <<image, mine, started>> /\ Program' = Program
  BY PruKeeps
<1> SUFFICES ASSUME mine PROVE RegsInv'
  BY <1>1 DEF RegsInv
<1>2. /\ image \in DOMAIN Programs /\ Loaded /\ DOMAIN dac = {"A", "B", "C", "D"}
      /\ ToSet(Program.loads) \subseteq DOMAIN started
      /\ \A f \in DOMAIN started : started[f] \in Words
  BY <1>1 DEF RunInv, ValuesInv, Running
<1>3. RunInv' /\ LabelInv'
  BY RunSteps, LabelSteps
<1>4. image \notin Scans => Program.turns = FALSE
  BY <1>2, OthersAre
<1>5. image \in Scans => ToSet(Program.loads) = ToSet(ScanLoads)
  BY ScansAre
<1> USE DEF RegsInv, InLine, Turning
<1>6. CASE PASSVALUES
  <2>1. pc' = "SETUP" /\ DOMAIN regs' = ToSet(Program.loads)
    BY <1>6 DEF PASSVALUES, Goto
  <2>2. \A r \in DOMAIN regs' : regs'[r] = started[r]
    <3>1. Running'
      BY <2>1 DEF Running
    <3>2. Loaded'
      BY <1>1, <1>3, <3>1 DEF RunInv
    <3> QED BY <1>1, <2>1, <3>2 DEF Loaded
  <2> QED BY <1>1, <1>2, <2>1, <2>2
<1>7. CASE pc # "PASSVALUES"
  <2>1. /\ \A r \in DOMAIN regs \ {"V1", "STEP"} : regs[r] \in Words
        /\ Program.turns /\ pc # "SETUP" => Turning \subseteq DOMAIN regs
        /\ image \in Scans /\ pc \in InLine \union {"RLOOP2"} =>
             {"Fx", "Fy", "pFc"} \subseteq DOMAIN regs
        /\ pc = "ADCREAD" => "sampc" \in DOMAIN regs
    BY <1>1, <1>7
  <2>2. ToSet(Program.loads) \subseteq DOMAIN regs
    BY <1>2, <1>7 DEF Loaded
  <2>3. /\ image \in Scans => {"Sx", "Sy", "sdx", "sdy", "dx", "dy", "pF", "sF", "samp"}
                                \subseteq DOMAIN regs
        /\ image = "IV" => {"Count", "Stop", "samp", "Start"} \subseteq DOMAIN regs
        /\ image = "ReadCH" => "samp" \in DOMAIN regs
    BY <2>2, LoadedNames
  <2>4. CASE SETUP
    <3>1. pc' = Program.begin
      BY <2>4, SetupDoes
    <3>2. Program.begin \notin InLine \union {"RLOOP2"} \/ image \notin Scans
      BY ScansAre
    <3>3. CASE Program.turns
      <4>1. image \in Scans
        BY <1>4, <3>3
      <4>2. \A r \in Turning : regs'[r] \in Words
        <5>1. \A r \in {"Sx", "Sy", "dx", "dy"} : regs[r] \in Words
          BY <2>1, <2>3, <4>1
        <5>2. /\ regs'.DX = regs.dx /\ regs'.IDX = Inverse16(regs.dx)
              /\ regs'.DY = regs.dy /\ regs'.IDY = Inverse16(regs.dy)
              /\ regs'.SwS = 0 /\ regs'.Fx = regs.Sx /\ regs'.Fy = regs.Sy
          BY <2>4, <3>3, SetupDoes
        <5>3. Inverse16(regs.dx) \in Words /\ Inverse16(regs.dy) \in Words /\ 0 \in Words
          BY <5>1, WordsAre
        <5> QED BY <5>1, <5>2, <5>3
      <4> QED BY <1>1, <2>1, <2>4, <3>1, <3>2, <3>3, <4>1, <4>2, SetupDoes, ScansAre
    <3>4. CASE ~Program.turns /\ image = "IV"
      <4>1. pc' # "ADCREAD" /\ image \notin Scans
        BY <1>2, <3>1, <3>4, OthersAre DEF Scans
      <4> QED BY <1>1, <2>1, <2>4, <3>1, <3>4, <4>1, SetupDoes
    <3>5. CASE ~Program.turns /\ image # "IV"
      <4>1. pc' # "ADCREAD"
        BY <1>2, <3>1, <3>5, OthersAre, ScansAre
      <4> QED BY <1>1, <2>1, <2>4, <3>1, <3>2, <3>5, <4>1, SetupDoes
    <3> QED BY <3>3, <3>4, <3>5
  <2>5. CASE LOOP1
    <3>1. image \in Scans
      BY <1>1, <1>2, <2>5, InnerIs, OthersAre DEF LabelInv, LOOP1
    <3> QED BY <1>1, <2>1, <2>3, <2>5, <3>1, Loop1Does
  <2>6. CASE SUBLOOP2
    BY <1>1, <1>2, <2>1, <2>6, SubLoop2Does, WordsAre
  <2>7. CASE LOOP3
    <3>1. "samp" \in DOMAIN regs
      BY <1>1, <1>2, <2>3, <2>7, InnerIs, OthersAre DEF LabelInv, LOOP3
    <3> QED BY <1>1, <2>1, <2>7, <3>1, Loop3Does
  <2>8. CASE ADCREAD
    <3>1. "sampc" \in DOMAIN regs /\ regs'.sampc \in Words
      BY <2>1, <2>8, WordsAre DEF ADCREAD
    <3>2. image \in Scans => {"Fx", "Fy", "pFc"} \subseteq DOMAIN regs
      BY <2>1, <2>8 DEF ADCREAD
    <3> QED BY <1>1, <2>1, <2>8, <3>1, <3>2, AdcReadDoes
  <2>9. CASE RLOOP3
    <3>1. image \in Scans
      BY <1>1, <1>2, <2>9, InnerIs, OthersAre DEF LabelInv, RLOOP3
    <3>2. {"Fx", "Fy", "pFc"} \subseteq DOMAIN regs /\ pc = "RLOOP3"
      BY <2>1, <2>9, <3>1 DEF RLOOP3
    <3>3. regs'.Fx \in Words /\ regs'.Fy \in Words /\ regs'.pFc \in Words
      <4>1. \A r \in {"Fx", "Fy", "dx", "dy", "pFc"} : regs[r] \in Words
        BY <2>1, <2>3, <3>1, <3>2
      <4>2. /\ regs'.pFc = Minus1(regs.pFc)
            /\ Program.moves =>
                 regs'.Fx = Plus(regs.Fx, regs.dx) /\ regs'.Fy = Plus(regs.Fy, regs.dy)
            /\ ~Program.moves => regs'.Fx = regs.Fx /\ regs'.Fy = regs.Fy
        BY <2>9, <3>2, RLoop3Does
      <4>3. /\ regs'.pFc \in Words /\ regs.Fx \in Words /\ regs.Fy \in Words
            /\ Plus(regs.Fx, regs.dx) \in Words /\ Plus(regs.Fy, regs.dy) \in Words
        BY <4>1, <4>2, WordsAre
      <4> QED BY <4>2, <4>3
    <3> QED BY <1>1, <2>1, <2>9, <3>2, <3>3, RLoop3Does
  <2>10. CASE RLOOP2
    <3>1. image \in Scans /\ pc = "RLOOP2"
      BY <1>1, <1>2, <2>10, InnerIs, OthersAre DEF LabelInv, RLOOP2
    <3>2. ToSet(ScanLoads) \subseteq DOMAIN regs
      BY <1>5, <2>2, <3>1
    <3>3. regs'.Sx \in Words /\ regs'.Sy \in Words /\ regs'.sF \in Words
      <4>1. \A r \in {"Sx", "Sy", "sdx", "sdy", "sF"} : regs[r] \in Words
        BY <2>1, <2>3, <3>1
      <4>2. /\ regs'.sF = Minus1(regs.sF)
            /\ Program.moves =>
                 regs'.Sx = Plus(regs.Sx, regs.sdx) /\ regs'.Sy = Plus(regs.Sy, regs.sdy)
            /\ ~Program.moves => regs'.Sx = regs.Sx /\ regs'.Sy = regs.Sy
        BY <2>10, <3>2, RLoop2Does
      <4>3. /\ regs'.sF \in Words /\ regs.Sx \in Words /\ regs.Sy \in Words
            /\ Plus(regs.Sx, regs.sdx) \in Words /\ Plus(regs.Sy, regs.sdy) \in Words
        BY <4>1, <4>2, WordsAre
      <4> QED BY <4>2, <4>3
    <3>4. CASE Program.turns
      <4>1. Turning \subseteq DOMAIN regs
        BY <2>1, <3>1, <3>4
      <4>2. regs'.dx \in Words /\ regs'.dy \in Words /\ regs'.SwS \in Words
        BY <2>1, <2>10, <3>2, <3>4, <4>1, RLoop2Does, WordsAre
      <4> QED BY <1>1, <2>1, <2>10, <3>2, <3>3, <4>1, <4>2, RLoop2Does
    <3>5. CASE ~Program.turns
      <4>1. /\ regs'.dx \in Words /\ regs'.dy \in Words
            /\ "SwS" \in DOMAIN regs => regs'.SwS \in Words
        BY <2>1, <2>3, <2>10, <3>1, <3>2, <3>5, RLoop2Does
      <4> QED BY <1>1, <2>1, <2>10, <3>2, <3>3, <3>5, <4>1, RLoop2Does
    <3> QED BY <3>4, <3>5
  <2>11. CASE STIV
    <3>1. image = "IV"
      BY <1>1, <1>2, <2>11, InnerIs, OthersAre DEF LabelInv, STIV
    <3>2. {"Count", "Stop"} \subseteq DOMAIN regs
      BY <2>3, <3>1
    <3>3. regs'.Count \in Words
      BY <2>1, <2>11, <3>2, StivDoes, WordsAre
    <3>4. image \notin Scans /\ pc' # "ADCREAD"
      BY <2>11, <3>1, <3>2, StivDoes DEF Scans
    <3> QED BY <1>1, <1>4, <2>1, <2>11, <3>2, <3>3, <3>4, StivDoes
  <2>12. CASE DACUPDATE \/ DONE
    BY <1>1, <2>1, <2>12 DEF DACUPDATE, DONE, Goto, Running
  <2> QED BY <1>7, <2>4, <2>5, <2>6, <2>7, <2>8, <2>9, <2>10, <2>11, <2>12
          DEF Pru, Step, Trigger, PASSVALUES
<1> QED BY <1>6, <1>7 DEF Pru, Step, Trigger, SETUP, LOOP1, SUBLOOP2, LOOP3, ADCREAD,
       RLOOP3, RLOOP2, STIV, DACUPDATE, DONE

-----------------------------------------------------------------------------
(* Counts.                                                                 *)

\* A count in a register stands for 1 .. WordRange, and counts down to 0.
LEMMA TimesIs ==
  ASSUME NEW x \in Words
  PROVE  /\ Times(x) \in Nat \ {0} /\ Minus1(x) = Times(x) - 1
         /\ Minus1(x) = 0 => Times(x) = 1
         /\ Minus1(x) # 0 => Times(Minus1(x)) = Times(x) - 1
<1>1. WordRange \in Nat \ {0}
  BY ScanAssumption
<1>2. x \in 0 .. WordRange - 1
  BY DEF Words
<1>3. (x - 1) % WordRange = (IF x = 0 THEN WordRange ELSE x) - 1
  BY <1>1, <1>2, OneLess
<1>4. Minus1(x) = Times(x) - 1
  BY <1>3 DEF Minus1, Times
<1>5. Times(x) \in Nat \ {0}
  BY <1>1, <1>2 DEF Times
<1>6. ASSUME Minus1(x) # 0 PROVE Times(Minus1(x)) = Minus1(x)
  BY <1>6 DEF Times
<1> QED BY <1>4, <1>5, <1>6

\* A scan's parameters, as the client gave them and as the registers hold them.
LEMMA ScanFacts ==
  ASSUME RunInv, ValuesInv, RegsInv, mine, Running, image \in Scans
  PROVE  /\ \A f \in {"Sx", "Sy", "sdx", "sdy", "dx", "dy", "pF", "sF", "samp"} :
              started[f] \in Words
         /\ pc # "PASSVALUES" =>
              /\ \A f \in {"Sx", "Sy", "sdx", "sdy", "dx", "dy", "pF", "sF", "samp"} :
                   f \in DOMAIN regs /\ regs[f] \in Words
              /\ \A f \in {"sdx", "sdy", "pF", "samp"} : regs[f] = started[f]
         /\ pc = "SETUP" =>
              \A f \in {"Sx", "Sy", "sdx", "sdy", "dx", "dy", "pF", "sF", "samp"} :
                regs[f] = started[f]
<1> DEFINE Names == {"Sx", "Sy", "sdx", "sdy", "dx", "dy", "pF", "sF", "samp"}
<1>1. Names \subseteq ToSet(Program.loads) /\ {"sdx", "sdy", "pF", "samp"} \subseteq Kept
  BY LoadedNames
<1>2. /\ ToSet(Program.loads) \subseteq DOMAIN started
      /\ \A f \in DOMAIN started : started[f] \in Words
  BY DEF ValuesInv, Running
<1>3. Loaded
  BY DEF RunInv
<1>4. ASSUME pc # "PASSVALUES"
      PROVE  /\ \A f \in Names : f \in DOMAIN regs /\ regs[f] \in Words
             /\ \A f \in {"sdx", "sdy", "pF", "samp"} : regs[f] = started[f]
  <2>1. Names \subseteq DOMAIN regs
    BY <1>1, <1>3, <1>4 DEF Loaded
  <2>2. \A f \in Names : regs[f] \in Words
    BY <1>4, <2>1 DEF RegsInv
  <2>3. CASE pc = "SETUP"
    BY <1>3, <2>1, <2>2, <2>3 DEF Loaded
  <2>4. CASE pc # "SETUP"
    BY <1>1, <1>3, <1>4, <2>1, <2>2, <2>4 DEF Loaded
  <2> QED BY <2>3, <2>4
<1>5. pc = "SETUP" => \A f \in Names : regs[f] = started[f]
  BY <1>1, <1>3 DEF Loaded
<1> QED BY <1>1, <1>2, <1>4, <1>5

\* Lines finished, and points finished of the line that is being scanned.
Lines == Times(started.sF) - Times(regs.sF)
Dots == Times(started.pF) - Times(regs.pFc)

\* Each line has its points and each point its samples.
ScanCounts ==
  LET L == Times(started.sF)
      P == Times(started.pF)
      S == Times(started.samp)
  IN /\ pc \in {"PASSVALUES", "SETUP"} => dots = 0 /\ taken = 0
     /\ pc = "LOOP1" => Lines \in 0 .. L - 1 /\ dots = Lines * P
     /\ pc \in InLine => Lines \in 0 .. L - 1 /\ Dots \in 0 .. P - 1 /\ dots = Lines * P + Dots
     /\ pc = "RLOOP2" => Lines \in 0 .. L - 1 /\ dots = Lines * P + P
     /\ pc \in {"DONE", "HALT"} => dots = L * P
     /\ dots \in Nat
     /\ pc = "ADCREAD" => taken = dots * S + (S - Times(regs.sampc))
     /\ pc = "RLOOP3" => taken = dots * S + S
     /\ pc \notin {"PASSVALUES", "SETUP", "ADCREAD", "RLOOP3"} => taken = dots * S

\* How the steps of a scan move its counters.
LEMMA CountersMove ==
  ASSUME RunInv, ValuesInv, RegsInv, mine, image \in Scans, Pru
  PROVE  /\ pc # "PASSVALUES" => Lines \in Int
         /\ SETUP => Lines' = 0
         /\ LOOP1 => Lines' = Lines /\ Dots' = 0
         /\ SUBLOOP2 => Lines' = Lines /\ Dots' = Dots
         /\ LOOP3 => Lines' = Lines /\ Dots' = Dots /\ regs'.sampc = started.samp
         /\ ADCREAD => Lines' = Lines /\ Dots' = Dots
         /\ RLOOP3 => /\ Lines' = Lines /\ Dots \in Int
                      /\ Dots < Times(started.pF)
                      /\ regs'.pFc # 0 => Dots' = Dots + 1 /\ Dots' < Times(started.pF)
                      /\ regs'.pFc = 0 => Dots + 1 = Times(started.pF)
         /\ RLOOP2 => /\ regs'.sF # 0 => Lines' = Lines + 1 /\ Lines' < Times(started.sF)
                      /\ regs'.sF = 0 => Lines + 1 = Times(started.sF)
<1>1. Running /\ UNCHANGED <<image, mine, started>> /\ Program' = Program
  BY PruKeeps
<1>2. Program.begin = "LOOP1" /\ Program.after = "RLOOP3" /\ ToSet(Program.loads) = ToSet(ScanLoads)
  BY ScansAre
<1>3. DOMAIN dac = {"A", "B", "C", "D"}
  BY DEF ValuesInv
<1>4. PICK L, P \in Nat \ {0} : L = Times(started.sF) /\ P = Times(started.pF)
  BY <1>1, ScanFacts, TimesIs
<1>5. Times(started'.sF) = L /\ Times(started'.pF) = P
  BY <1>1, <1>4
<1>6. Lines = L - Times(regs.sF) /\ Dots = P - Times(regs.pFc)
  BY <1>4 DEF Lines, Dots
<1>7. Lines' = L - Times(regs'.sF) /\ Dots' = P - Times(regs'.pFc)
  BY <1>5 DEF Lines, Dots
<1>8. pc # "PASSVALUES" =>
        /\ {"pF", "sF", "samp"} \subseteq DOMAIN regs
        /\ regs.sF \in Words /\ regs.pF = started.pF /\ regs.samp = started.samp
        /\ pc = "SETUP" => regs.sF = started.sF
        /\ ToSet(ScanLoads) \subseteq DOMAIN regs
  <2>1. pc # "PASSVALUES" => ToSet(Program.loads) \subseteq DOMAIN regs
    BY <1>1 DEF RunInv, Loaded
  <2> QED BY <1>1, <1>2, <2>1, ScanFacts
<1>9. pc \in InLine \union {"RLOOP2"} => "pFc" \in DOMAIN regs /\ regs.pFc \in Words
  BY <1>1 DEF RegsInv, InLine
<1> USE DEF InLine
<1>10. ASSUME pc # "PASSVALUES" PROVE Lines \in Int
  <2>1. Times(regs.sF) \in Nat
    BY <1>8, <1>10, TimesIs
  <2> QED BY <1>6, <2>1
<1>11. ASSUME SETUP PROVE Lines' = 0
  <2>1. pc = "SETUP"
    BY <1>11 DEF SETUP
  <2>2. regs'.sF = started.sF
    BY <1>8, <1>11, <2>1, SetupDoes, OthersAre, ScansAre DEF Scans
  <2> QED BY <1>4, <1>7, <2>2
<1>12. ASSUME LOOP1 PROVE Lines' = Lines /\ Dots' = 0
  <2>1. regs'.sF = regs.sF /\ regs'.pFc = started.pF
    BY <1>8, <1>12, Loop1Does
  <2> QED BY <1>4, <1>6, <1>7, <2>1
<1>13. ASSUME SUBLOOP2 PROVE Lines' = Lines /\ Dots' = Dots
  <2>1. {"sF", "pFc"} \subseteq DOMAIN regs
    BY <1>8, <1>9, <1>13 DEF SUBLOOP2
  <2>2. regs'.sF = regs.sF /\ regs'.pFc = regs.pFc
    BY <1>3, <1>13, <2>1, SubLoop2Does
  <2> QED BY <1>6, <1>7, <2>2
<1>14. ASSUME LOOP3 PROVE Lines' = Lines /\ Dots' = Dots /\ regs'.sampc = started.samp
  <2>1. {"sF", "pFc"} \subseteq DOMAIN regs /\ pc = "LOOP3"
    BY <1>8, <1>9, <1>14 DEF LOOP3
  <2>2. regs'.sF = regs.sF /\ regs'.pFc = regs.pFc /\ regs'.sampc = started.samp
    BY <1>8, <1>14, <2>1, Loop3Does
  <2> QED BY <1>6, <1>7, <2>2
<1>15. ASSUME ADCREAD PROVE Lines' = Lines /\ Dots' = Dots
  <2>1. {"sF", "pFc"} \subseteq DOMAIN regs /\ "sampc" \in DOMAIN regs
    BY <1>1, <1>8, <1>9, <1>15 DEF ADCREAD, RegsInv
  <2>2. regs'.sF = regs.sF /\ regs'.pFc = regs.pFc
    BY <1>15, <2>1, AdcReadDoes
  <2> QED BY <1>6, <1>7, <2>2
<1>16. ASSUME RLOOP3
       PROVE  /\ Lines' = Lines /\ Dots \in Int /\ Dots < P
              /\ regs'.pFc # 0 => Dots' = Dots + 1 /\ Dots' < P
              /\ regs'.pFc = 0 => Dots + 1 = P
  <2>1. {"sF", "Fx", "Fy", "pFc"} \subseteq DOMAIN regs /\ regs.pFc \in Words
    BY <1>1, <1>8, <1>9, <1>16 DEF RLOOP3, RegsInv
  <2>2. regs'.sF = regs.sF /\ regs'.pFc = Minus1(regs.pFc)
    BY <1>16, <2>1, RLoop3Does
  <2>3. regs'.pFc \in Words
    BY <2>1, <2>2, WordsAre
  <2>4. /\ Times(regs.pFc) \in Nat \ {0}
        /\ regs'.pFc = 0 => Times(regs.pFc) = 1
        /\ regs'.pFc # 0 => Times(regs'.pFc) = Times(regs.pFc) - 1 /\ Times(regs'.pFc) \in Nat \ {0}
    BY <2>1, <2>2, <2>3, TimesIs
  <2> QED BY <1>6, <1>7, <2>2, <2>4
<1>17. ASSUME RLOOP2
       PROVE  /\ regs'.sF # 0 => Lines' = Lines + 1 /\ Lines' < L
              /\ regs'.sF = 0 => Lines + 1 = L
  <2>1. ToSet(ScanLoads) \subseteq DOMAIN regs /\ regs.sF \in Words
    BY <1>8, <1>17 DEF RLOOP2
  <2>2. regs'.sF = Minus1(regs.sF)
    BY <1>17, <2>1, RLoop2Does
  <2>3. regs'.sF \in Words
    BY <2>1, <2>2, WordsAre
  <2>4. /\ Times(regs.sF) \in Nat \ {0}
        /\ regs'.sF = 0 => Times(regs.sF) = 1
        /\ regs'.sF # 0 => Times(regs'.sF) = Times(regs.sF) - 1 /\ Times(regs'.sF) \in Nat \ {0}
    BY <2>1, <2>2, <2>3, TimesIs
  <2> QED BY <1>6, <1>7, <2>4
<1> QED BY <1>4, <1>10, <1>11, <1>12, <1>13, <1>14, <1>15, <1>16, <1>17

LEMMA ScanCountsSteps ==
  ASSUME RunInv, ValuesInv, LabelInv, RegsInv, mine, image \in Scans, ScanCounts, Pru
  PROVE  ScanCounts'
<1>1. Running /\ UNCHANGED <<image, mine, started>>
  BY PruKeeps
<1>2. Program.begin = "LOOP1" /\ Program.after = "RLOOP3"
  BY ScansAre
<1>3. PICK L, P, S \in Nat \ {0} :
        L = Times(started.sF) /\ P = Times(started.pF) /\ S = Times(started.samp)
  BY <1>1, ScanFacts, TimesIs
<1>4. Times(started'.sF) = L /\ Times(started'.pF) = P /\ Times(started'.samp) = S
  BY <1>1, <1>3
<1>5. /\ pc \in {"PASSVALUES", "SETUP"} => dots = 0 /\ taken = 0
      /\ pc = "LOOP1" => Lines \in 0 .. L - 1 /\ dots = Lines * P
      /\ pc \in InLine => Lines \in 0 .. L - 1 /\ Dots \in 0 .. P - 1 /\ dots = Lines * P + Dots
      /\ pc = "RLOOP2" => Lines \in 0 .. L - 1 /\ dots = Lines * P + P
      /\ pc \in {"DONE", "HALT"} => dots = L * P
      /\ dots \in Nat
      /\ pc = "ADCREAD" => taken = dots * S + (S - Times(regs.sampc))
      /\ pc = "RLOOP3" => taken = dots * S + S
      /\ pc \notin {"PASSVALUES", "SETUP", "ADCREAD", "RLOOP3"} => taken = dots * S
  BY <1>3 DEF ScanCounts
<1> SUFFICES
      /\ pc' \in {"PASSVALUES", "SETUP"} => dots' = 0 /\ taken' = 0
      /\ pc' = "LOOP1" => Lines' \in 0 .. L - 1 /\ dots' = Lines' * P
      /\ pc' \in InLine =>
           Lines' \in 0 .. L - 1 /\ Dots' \in 0 .. P - 1 /\ dots' = Lines' * P + Dots'
      /\ pc' = "RLOOP2" => Lines' \in 0 .. L - 1 /\ dots' = Lines' * P + P
      /\ pc' \in {"DONE", "HALT"} => dots' = L * P
      /\ dots' \in Nat
      /\ pc' = "ADCREAD" => taken' = dots' * S + (S - Times(regs'.sampc))
      /\ pc' = "RLOOP3" => taken' = dots' * S + S
      /\ pc' \notin {"PASSVALUES", "SETUP", "ADCREAD", "RLOOP3"} => taken' = dots' * S
  BY <1>4 DEF ScanCounts
<1> USE DEF InLine
<1>6. CASE PASSVALUES
  BY <1>5, <1>6 DEF PASSVALUES, Goto
<1>7. CASE SETUP
  <2>1. pc = "SETUP" /\ pc' = "LOOP1" /\ UNCHANGED <<dots, taken>> /\ Lines' = 0
    BY <1>2, <1>7, CountersMove DEF SETUP, Goto
  <2>2. 0 * P = 0 /\ 0 * S = 0
    OBVIOUS
  <2> QED BY <1>5, <2>1, <2>2
<1>8. CASE LOOP1
  <2>1. pc = "LOOP1" /\ pc' = "SUBLOOP2" /\ UNCHANGED <<dots, taken>>
    BY <1>8 DEF LOOP1, Goto
  <2>2. Lines' = Lines /\ Dots' = 0
    BY <1>8, CountersMove
  <2> QED BY <1>5, <2>1, <2>2
<1>9. CASE SUBLOOP2
  <2>1. pc = "SUBLOOP2" /\ pc' = "LOOP3" /\ UNCHANGED <<dots, taken>>
    BY <1>9 DEF SUBLOOP2, Goto
  <2>2. Lines' = Lines /\ Dots' = Dots
    BY <1>9, CountersMove
  <2> QED BY <1>5, <2>1, <2>2
<1>10. CASE LOOP3
  <2>1. pc = "LOOP3" /\ pc' = "ADCREAD" /\ UNCHANGED <<dots, taken>>
    BY <1>10 DEF LOOP3, Goto
  <2>2. Lines' = Lines /\ Dots' = Dots /\ Times(regs'.sampc) = S
    BY <1>3, <1>10, CountersMove
  <2> QED BY <1>5, <2>1, <2>2
<1>11. CASE ADCREAD
  <2>1. pc = "ADCREAD" /\ "sampc" \in DOMAIN regs /\ regs.sampc \in Words
    <3>1. pc = "ADCREAD"
      BY <1>11 DEF ADCREAD
    <3> QED BY <1>1, <3>1 DEF RegsInv
  <2>2. /\ UNCHANGED dots /\ taken' = taken + 1 /\ regs'.sampc = Minus1(regs.sampc)
        /\ pc' = IF regs'.sampc # 0 THEN "ADCREAD" ELSE "RLOOP3"
    BY <1>2, <1>11, <2>1, AdcReadDoes
  <2>3. Lines' = Lines /\ Dots' = Dots
    BY <1>11, CountersMove
  <2>4. /\ Times(regs.sampc) \in Nat
        /\ regs'.sampc = 0 => Times(regs.sampc) = 1
        /\ regs'.sampc # 0 => Times(regs'.sampc) = Times(regs.sampc) - 1
    BY <2>1, <2>2, TimesIs
  <2>5. PICK t \in Int : t = dots * S
    BY <1>5
  <2>6. taken = t + (S - Times(regs.sampc))
    BY <1>5, <2>1, <2>5
  <2>7. CASE regs'.sampc = 0
    <3>1. taken' = t + S
      BY <2>2, <2>4, <2>6, <2>7
    <3> QED BY <1>5, <2>1, <2>2, <2>3, <2>5, <2>7, <3>1
  <2>8. CASE regs'.sampc # 0
    <3>1. taken' = t + (S - Times(regs'.sampc))
      BY <2>2, <2>4, <2>6, <2>8
    <3> QED BY <1>5, <2>1, <2>2, <2>3, <2>5, <2>8, <3>1
  <2> QED BY <2>7, <2>8
<1>12. CASE RLOOP3
  <2>1. /\ pc = "RLOOP3" /\ UNCHANGED taken /\ dots' = dots + 1
        /\ pc' = IF regs'.pFc # 0 THEN "SUBLOOP2" ELSE "RLOOP2"
    BY <1>12 DEF RLOOP3, Goto
  <2>2. /\ Lines' = Lines
        /\ regs'.pFc # 0 => Dots' = Dots + 1 /\ Dots' < P
        /\ regs'.pFc = 0 => Dots + 1 = P
    BY <1>3, <1>12, CountersMove
  <2>3. taken = dots * S + S /\ dots \in Nat
    BY <1>5, <2>1
  <2>4. (dots + 1) * S = dots * S + S
    BY <2>3
  <2>5. taken' = dots' * S
    BY <2>1, <2>3, <2>4
  <2>6. PICK t \in Int : t = Lines * P
    BY <1>5, <2>1
  <2>7. Lines \in 0 .. L - 1 /\ Dots \in 0 .. P - 1 /\ dots = t + Dots
    BY <1>5, <2>1, <2>6
  <2>8. CASE regs'.pFc = 0
    <3>1. dots' = t + P
      BY <2>1, <2>2, <2>7, <2>8
    <3> QED BY <2>1, <2>2, <2>5, <2>6, <2>7, <2>8, <3>1
  <2>9. CASE regs'.pFc # 0
    <3>1. Dots' = Dots + 1 /\ Dots' \in 0 .. P - 1
      BY <2>2, <2>7, <2>9
    <3> QED BY <2>1, <2>2, <2>5, <2>6, <2>7, <2>9, <3>1
  <2> QED BY <2>8, <2>9
<1>13. CASE RLOOP2
  <2>1. /\ pc = "RLOOP2" /\ UNCHANGED <<dots, taken>>
        /\ pc' = IF regs'.sF # 0 THEN "LOOP1" ELSE "DONE"
    BY <1>13 DEF RLOOP2, Goto
  <2>2. /\ regs'.sF # 0 => Lines' = Lines + 1 /\ Lines' < L
        /\ regs'.sF = 0 => Lines + 1 = L
    BY <1>3, <1>13, CountersMove
  <2>3. Lines \in 0 .. L - 1 /\ dots = Lines * P + P /\ taken = dots * S
    BY <1>5, <2>1
  <2>4. (Lines + 1) * P = Lines * P + P
    BY <2>3
  <2>5. CASE regs'.sF = 0
    <3>1. dots = L * P
      BY <2>2, <2>3, <2>4, <2>5
    <3> QED BY <2>1, <2>3, <2>5, <3>1
  <2>6. CASE regs'.sF # 0
    <3>1. Lines' = Lines + 1 /\ Lines' \in 0 .. L - 1
      BY <2>2, <2>3, <2>6
    <3> QED BY <1>5, <2>1, <2>3, <2>4, <2>6, <3>1
  <2> QED BY <2>5, <2>6
<1>14. CASE DONE
  BY <1>5, <1>14 DEF DONE, Goto
<1> QED BY <1>6, <1>7, <1>8, <1>9, <1>10, <1>11, <1>12, <1>13, <1>14, ScanSteps

\* Counting down towards a stop, round the range of a register.
LEMMA RestLess ==
  ASSUME NEW x \in Words, NEW y \in Words
  PROVE  /\ (x - y) % WordRange \in Nat
         /\ x = y => (x - y) % WordRange = 0
         /\ x # y => (Minus1(x) - y) % WordRange = ((x - y) % WordRange) - 1
<1>1. PICK W \in Nat \ {0} : W = WordRange
  BY ScanAssumption
<1>2. x \in 0 .. W - 1 /\ y \in 0 .. W - 1
  BY <1>1 DEF Words
<1>3. Minus1(x) = (IF x = 0 THEN W ELSE x) - 1
  BY <1>1, <1>2, OneLess DEF Minus1
<1>4. CASE x = y
  <2>1. x - y = 0 * W + 0 /\ 0 \in 0 .. W - 1
    BY <1>2, <1>4
  <2>2. (x - y) % W = 0
    BY <2>1, DivModIs
  <2> QED BY <1>1, <1>4, <2>2
<1>5. CASE x > y
  <2>1. x - y = 0 * W + (x - y) /\ x - y \in 0 .. W - 1
    BY <1>2, <1>5
  <2>2. x - 1 - y = 0 * W + (x - y - 1) /\ x - y - 1 \in 0 .. W - 1
    BY <1>2, <1>5
  <2>3. (x - y) % W = x - y
    BY <2>1, DivModIs
  <2>4. (x - 1 - y) % W = x - y - 1
    BY <2>2, DivModIs
  <2>5. Minus1(x) = x - 1
    BY <1>2, <1>3, <1>5
  <2> QED BY <1>1, <1>2, <1>5, <2>3, <2>4, <2>5
<1>6. CASE x < y
  <2>1. x - y = (-1) * W + (x - y + W) /\ x - y + W \in 0 .. W - 1
    BY <1>2, <1>6
  <2>2. (x - y) % W = x - y + W
    <3> DEFINE c == x - y + W
    <3>1. c \in 0 .. W - 1 /\ -1 \in Int /\ x - y = (-1) * W + c
      BY <2>1
    <3> HIDE DEF c
    <3>2. ((-1) * W + c) % W = c
      BY <3>1, DivModIs
    <3> QED BY <3>1, <3>2 DEF c
  <2>3. CASE x = 0
    <3>1. Minus1(x) - y = 0 * W + (W - 1 - y) /\ W - 1 - y \in 0 .. W - 1
      BY <1>2, <1>3, <2>3
    <3>2. (Minus1(x) - y) % W = W - 1 - y
      BY <3>1, DivModIs
    <3> QED BY <1>1, <1>2, <1>6, <2>2, <2>3, <3>2
  <2>4. CASE x # 0
    <3>1. Minus1(x) - y = (-1) * W + (x - 1 - y + W) /\ x - 1 - y + W \in 0 .. W - 1
      BY <1>2, <1>3, <1>6, <2>4
    <3>2. (Minus1(x) - y) % W = x - 1 - y + W
      <4> DEFINE c == x - 1 - y + W
      <4>1. c \in 0 .. W - 1 /\ -1 \in Int /\ Minus1(x) - y = (-1) * W + c
        BY <3>1
      <4> HIDE DEF c
      <4>2. ((-1) * W + c) % W = c
        BY <4>1, DivModIs
      <4> QED BY <4>1, <4>2 DEF c
    <3> QED BY <1>1, <1>2, <1>6, <2>2, <2>4, <3>2
  <2> QED BY <2>3, <2>4
<1> QED BY <1>2, <1>4, <1>5, <1>6

\* The steps of IV that are still to be taken.
Rest == (regs.Count - started.Stop) % WordRange

\* Each step of the sweep has its samples.
SweepCounts ==
  LET T == (started.Count - started.Stop) % WordRange
      S == Times(started.samp)
  IN /\ pc \in {"PASSVALUES", "SETUP"} => taken = 0
     /\ pc = "STIV" => taken = (T - Rest) * S
     /\ pc = "LOOP3" => taken = (T - Rest - 1) * S
     /\ pc = "ADCREAD" => taken = (T - Rest - 1) * S + (S - Times(regs.sampc))
     /\ pc \in {"DONE", "HALT"} => taken = T * S

\* The parameters of a sweep, as the client gave them and as the registers hold them.
LEMMA SweepFacts ==
  ASSUME RunInv, ValuesInv, RegsInv, mine, Running, image = "IV"
  PROVE  /\ started.Count \in Words /\ started.Stop \in Words /\ started.samp \in Words
         /\ pc # "PASSVALUES" =>
              /\ {"Count", "Stop", "samp"} \subseteq DOMAIN regs /\ regs.Count \in Words
              /\ regs.Stop = started.Stop /\ regs.samp = started.samp
         /\ pc = "SETUP" => regs.Count = started.Count /\ "Start" \in DOMAIN regs
<1>1. /\ {"Count", "Stop", "samp", "Start"} \subseteq ToSet(Program.loads)
      /\ {"Stop", "samp"} \subseteq Kept
  BY LoadedNames
<1>2. /\ ToSet(Program.loads) \subseteq DOMAIN started
      /\ \A f \in DOMAIN started : started[f] \in Words
  BY DEF ValuesInv, Running
<1>3. Loaded
  BY DEF RunInv
<1>4. pc = "SETUP" =>
        /\ \A r \in {"Count", "Stop", "samp", "Start"} : r \in DOMAIN regs /\ regs[r] = started[r]
  BY <1>1, <1>3 DEF Loaded
<1>5. pc \notin {"PASSVALUES", "SETUP"} =>
        /\ {"Count", "Stop", "samp"} \subseteq DOMAIN regs
        /\ regs.Stop = started.Stop /\ regs.samp = started.samp
  BY <1>1, <1>3 DEF Loaded
<1>6. pc # "PASSVALUES" /\ "Count" \in DOMAIN regs => regs.Count \in Words
  BY DEF RegsInv
<1> QED BY <1>1, <1>2, <1>4, <1>5, <1>6

LEMMA SweepCountsSteps ==
  ASSUME RunInv, ValuesInv, LabelInv, RegsInv, mine, image = "IV", SweepCounts, Pru
  PROVE  SweepCounts'
<1>1. Running /\ UNCHANGED <<image, mine, started>> /\ Program' = Program
  BY PruKeeps
<1>2. Program.begin = "STIV" /\ Program.after = "STIV" /\ Program.turns = FALSE
  <2>1. image \in DOMAIN Programs /\ image \notin Scans
    BY <1>1 DEF RunInv, Scans
  <2> QED BY <2>1, OthersAre
<1>3. /\ started.Count \in Words /\ started.Stop \in Words /\ started.samp \in Words
      /\ pc # "PASSVALUES" =>
           /\ {"Count", "Stop", "samp"} \subseteq DOMAIN regs /\ regs.Count \in Words
           /\ regs.Stop = started.Stop /\ regs.samp = started.samp
      /\ pc = "SETUP" => regs.Count = started.Count
  BY <1>1, SweepFacts
<1>4. PICK T \in Nat, S \in Nat \ {0} :
        T = (started.Count - started.Stop) % WordRange /\ S = Times(started.samp)
  BY <1>3, RestLess, TimesIs
<1>5. PICK stop \in Words : stop = started.Stop /\ stop = started'.Stop
  BY <1>1, <1>3
<1>6. Rest = (regs.Count - stop) % WordRange /\ Rest' = (regs'.Count - stop) % WordRange
  BY <1>5 DEF Rest
<1>7. /\ pc \in {"PASSVALUES", "SETUP"} => taken = 0
      /\ pc = "STIV" => taken = (T - Rest) * S
      /\ pc = "LOOP3" => taken = (T - Rest - 1) * S
      /\ pc = "ADCREAD" => taken = (T - Rest - 1) * S + (S - Times(regs.sampc))
      /\ pc \in {"DONE", "HALT"} => taken = T * S
  BY <1>4 DEF SweepCounts
<1> SUFFICES
      /\ pc' \in {"PASSVALUES", "SETUP"} => taken' = 0
      /\ pc' = "STIV" => taken' = (T - Rest') * S
      /\ pc' = "LOOP3" => taken' = (T - Rest' - 1) * S
      /\ pc' = "ADCREAD" => taken' = (T - Rest' - 1) * S + (S - Times(regs'.sampc))
      /\ pc' \in {"DONE", "HALT"} => taken' = T * S
  BY <1>1, <1>4 DEF SweepCounts
<1>8. pc # "PASSVALUES" => Rest \in Nat
  BY <1>3, <1>6, RestLess
<1>9. CASE PASSVALUES
  BY <1>7, <1>9 DEF PASSVALUES, Goto
<1>10. CASE SETUP
  <2>1. pc = "SETUP" /\ pc' = "STIV" /\ taken' = 0
    BY <1>2, <1>7, <1>10 DEF SETUP, Goto
  <2>2. regs'.Count = started.Count
    BY <1>2, <1>3, <1>10, <2>1, SetupDoes
  <2>3. Rest' = T
    BY <1>4, <1>5, <1>6, <2>2
  <2>4. (T - T) * S = 0
    OBVIOUS
  <2> QED BY <2>1, <2>3, <2>4
<1>11. CASE STIV
  <2>1. pc = "STIV"
    BY <1>11 DEF STIV
  <2>2. regs.Count \in Words /\ regs.Stop = stop /\ {"Count", "Stop"} \subseteq DOMAIN regs
    BY <1>3, <1>5, <2>1
  <2>3. taken' = taken
    BY <1>11 DEF STIV
  <2>4. CASE regs.Count = stop
    <3>1. pc' = "DONE"
      BY <1>11, <2>2, <2>4, StivDoes
    <3>2. Rest = 0
      BY <1>6, <2>2, <2>4, RestLess
    <3> QED BY <1>7, <2>1, <2>3, <3>1, <3>2
  <2>5. CASE regs.Count # stop
    <3>1. pc' = "LOOP3" /\ regs'.Count = Minus1(regs.Count)
      BY <1>11, <2>2, <2>5, StivDoes
    <3>2. Rest' = Rest - 1
      BY <1>6, <2>2, <2>5, <3>1, RestLess
    <3>3. T - Rest' - 1 = T - Rest
      BY <1>8, <2>1, <3>2
    <3> QED BY <1>7, <2>1, <2>3, <3>1, <3>3
  <2> QED BY <2>4, <2>5
<1>12. CASE LOOP3
  <2>1. pc = "LOOP3" /\ pc' = "ADCREAD" /\ UNCHANGED <<dots, taken>>
    BY <1>12, Loop3Does
  <2>2. {"Count", "samp"} \subseteq DOMAIN regs /\ regs.samp = started.samp
    BY <1>3, <2>1
  <2>3. regs'.Count = regs.Count /\ regs'.sampc = started.samp
    BY <1>12, <2>2, Loop3Does
  <2>4. Rest' = Rest /\ Times(regs'.sampc) = S
    BY <1>4, <1>6, <2>3
  <2>5. PICK t \in Int : t = (T - Rest - 1) * S
    BY <1>8, <2>1
  <2> QED BY <1>7, <2>1, <2>4, <2>5
<1>13. CASE ADCREAD
  <2>1. pc = "ADCREAD" /\ {"Count", "sampc"} \subseteq DOMAIN regs /\ regs.sampc \in Words
    <3>1. pc = "ADCREAD"
      BY <1>13 DEF ADCREAD
    <3> QED BY <1>1, <1>3, <3>1 DEF RegsInv
  <2>2. /\ taken' = taken + 1 /\ pc' = IF regs'.sampc # 0 THEN "ADCREAD" ELSE "STIV"
        /\ regs'.Count = regs.Count /\ regs'.sampc = Minus1(regs.sampc)
    BY <1>2, <1>13, <2>1, AdcReadDoes
  <2>3. Rest' = Rest
    BY <1>6, <2>2
  <2>4. /\ Times(regs.sampc) \in Nat
        /\ regs'.sampc = 0 => Times(regs.sampc) = 1
        /\ regs'.sampc # 0 => Times(regs'.sampc) = Times(regs.sampc) - 1
    BY <2>1, <2>2, TimesIs
  <2>5. PICK t \in Int : t = (T - Rest - 1) * S
    BY <1>8, <2>1
  <2>6. taken = t + (S - Times(regs.sampc))
    BY <1>7, <2>1, <2>5
  <2>7. (T - Rest) * S = t + S
    BY <1>8, <2>1, <2>5
  <2>8. CASE regs'.sampc = 0
    <3>1. taken' = t + S
      BY <2>2, <2>4, <2>6, <2>8
    <3> QED BY <2>2, <2>3, <2>7, <2>8, <3>1
  <2>9. CASE regs'.sampc # 0
    <3>1. taken' = t + (S - Times(regs'.sampc))
      BY <2>2, <2>4, <2>6, <2>9
    <3> QED BY <2>2, <2>3, <2>5, <2>9, <3>1
  <2> QED BY <2>8, <2>9
<1>14. CASE DONE
  BY <1>7, <1>14 DEF DONE, Goto
<1> QED BY <1>9, <1>10, <1>11, <1>12, <1>13, <1>14, SweepSteps

-----------------------------------------------------------------------------
\* ReadCH takes the samples of one point.
ReadCounts ==
  LET S == Times(started.samp)
  IN /\ pc \in {"PASSVALUES", "SETUP", "LOOP3"} => taken = 0
     /\ pc = "ADCREAD" => taken = S - Times(regs.sampc)
     /\ pc \in {"DONE", "HALT"} => taken = S

LEMMA ReadCountsSteps ==
  ASSUME RunInv, ValuesInv, LabelInv, RegsInv, mine, image = "ReadCH", ReadCounts, Pru
  PROVE  ReadCounts'
<1>1. Running /\ UNCHANGED <<image, mine, started>> /\ Program' = Program
  BY PruKeeps
<1>2. Program.begin = "LOOP3" /\ Program.after = "DONE"
  BY <1>1, OthersAre DEF RunInv
<1>3. "samp" \in Kept /\ "samp" \in ToSet(Program.loads)
  BY LoadedNames
<1>4. started.samp \in Words
  BY <1>1, <1>3 DEF ValuesInv, Running
<1>5. PICK S \in Nat \ {0} : S = Times(started.samp) /\ S = Times(started'.samp)
  BY <1>1, <1>4, TimesIs
<1>6. /\ pc \in {"PASSVALUES", "SETUP", "LOOP3"} => taken = 0
      /\ pc = "ADCREAD" => taken = S - Times(regs.sampc)
      /\ pc \in {"DONE", "HALT"} => taken = S
  BY <1>5 DEF ReadCounts
<1> SUFFICES
      /\ pc' \in {"PASSVALUES", "SETUP", "LOOP3"} => taken' = 0
      /\ pc' = "ADCREAD" => taken' = S - Times(regs'.sampc)
      /\ pc' \in {"DONE", "HALT"} => taken' = S
  BY <1>5 DEF ReadCounts
<1>7. CASE PASSVALUES
  BY <1>6, <1>7 DEF PASSVALUES, Goto
<1>8. CASE SETUP
  BY <1>2, <1>6, <1>8 DEF SETUP, Goto
<1>9. CASE LOOP3
  <2>1. pc = "LOOP3" /\ pc' = "ADCREAD" /\ taken' = taken
    BY <1>9, Loop3Does
  <2>2. regs.samp = started.samp
    BY <1>1, <1>3, <2>1 DEF RunInv, Loaded
  <2>3. Times(regs'.sampc) = S
    BY <1>5, <1>9, <2>2, Loop3Does
  <2> QED BY <1>6, <2>1, <2>3
<1>10. CASE ADCREAD
  <2>1. pc = "ADCREAD" /\ "sampc" \in DOMAIN regs /\ regs.sampc \in Words
    <3>1. pc = "ADCREAD"
      BY <1>10 DEF ADCREAD
    <3> QED BY <1>1, <3>1 DEF RegsInv
  <2>2. /\ taken' = taken + 1 /\ pc' = IF regs'.sampc # 0 THEN "ADCREAD" ELSE "DONE"
        /\ regs'.sampc = Minus1(regs.sampc)
    BY <1>2, <1>10, <2>1, AdcReadDoes
  <2>3. /\ Times(regs.sampc) \in Nat
        /\ regs'.sampc = 0 => Times(regs.sampc) = 1
        /\ regs'.sampc # 0 => Times(regs'.sampc) = Times(regs.sampc) - 1
    BY <2>1, <2>2, TimesIs
  <2> QED BY <1>6, <2>1, <2>2, <2>3
<1>11. CASE DONE
  BY <1>6, <1>11 DEF DONE, Goto
<1> QED BY <1>7, <1>8, <1>9, <1>10, <1>11, ReadSteps

\* Samples taken so far, program by program.
CountsInv ==
  mine /\ pc # "off" =>
    /\ image \in Scans => ScanCounts
    /\ image = "IV" => SweepCounts
    /\ image = "ReadCH" => ReadCounts
    /\ image = "SetV" => taken = 0

\* Strong enough to be kept by every step, and to give AllSamples at HALT.
SampleInv == ParamInv /\ ValuesInv /\ LabelInv /\ RegsInv /\ CountsInv

LEMMA CountsSteps ==
  ASSUME RunInv, ValuesInv, LabelInv, RegsInv, CountsInv, Pru
  PROVE  CountsInv'
<1>1. Running /\ UNCHANGED <<image, mine>>
  BY PruKeeps
<1> SUFFICES ASSUME mine PROVE CountsInv'
  BY <1>1 DEF CountsInv
<1>2. /\ image \in Scans => ScanCounts
      /\ image = "IV" => SweepCounts
      /\ image = "ReadCH" => ReadCounts
      /\ image = "SetV" => taken = 0
  BY <1>1 DEF CountsInv, Running
<1>3. image \in Scans => ScanCounts'
  BY <1>2, ScanCountsSteps
<1>4. image = "IV" => SweepCounts'
  BY <1>2, SweepCountsSteps
<1>5. image = "ReadCH" => ReadCounts'
  BY <1>2, ReadCountsSteps
<1>6. image = "SetV" => taken' = 0
  BY <1>2, SetSteps DEF PASSVALUES, SETUP, DACUPDATE, DONE
<1> QED BY <1>1, <1>3, <1>4, <1>5, <1>6 DEF CountsInv, Scans

LEMMA SampleInit == Init => SampleInv
BY ParamInit, ValuesInit DEF SampleInv, LabelInv, RegsInv, CountsInv, Init

LEMMA SampleKept ==
  ASSUME LabelInv, RegsInv, CountsInv,
         UNCHANGED <<image, pc, regs, dots, taken, started, mine>>
  PROVE  LabelInv' /\ RegsInv' /\ CountsInv'
<1>1. LabelInv'
  BY DEF LabelInv, Inner
<1>2. RegsInv'
  BY DEF RegsInv, Running, Program
<1>3. (ScanCounts => ScanCounts') /\ (SweepCounts => SweepCounts') /\ (ReadCounts => ReadCounts')
  <2>1. Lines' = Lines /\ Dots' = Dots /\ Rest' = Rest
    BY DEF Lines, Dots, Rest
  <2> QED BY <2>1 DEF ScanCounts, SweepCounts, ReadCounts
<1>4. CountsInv'
  BY <1>3 DEF CountsInv
<1> QED BY <1>1, <1>2, <1>4

LEMMA SampleNext == SampleInv /\ [Next]_vars => SampleInv'
<1> SUFFICES ASSUME SampleInv, [Next]_vars PROVE SampleInv'
  OBVIOUS
<1> USE DEF SampleInv
<1>1. ParamInv' /\ ValuesInv'
  BY ParamNext, ValuesNext DEF ParamInv
<1>2. CASE Pru
  <2>1. LabelInv' /\ RegsInv' /\ CountsInv'
    BY <1>2, LabelSteps, RegsSteps, CountsSteps DEF ParamInv
  <2> QED BY <1>1, <2>1
<1>3. CASE Exec
  <2>1. pc' = "PASSVALUES" /\ dots' = 0 /\ taken' = 0
    BY <1>3 DEF Exec
  <2> QED BY <1>1, <2>1 DEF LabelInv, RegsInv, CountsInv, ScanCounts, SweepCounts, ReadCounts,
       InLine
<1>4. CASE ~mine' \/ pc' = "off"
  BY <1>1, <1>4 DEF LabelInv, RegsInv, CountsInv, Running
<1>5. CASE UNCHANGED <<image, pc, regs, dac, dots, taken, started, mine>>
  <2>1. UNCHANGED <<image, pc, regs, dots, taken, started, mine>>
    BY <1>5
  <2> QED BY <1>1, <2>1, SampleKept
<1>6. CASE UNCHANGED vars
  <2>1. UNCHANGED <<image, pc, regs, dots, taken, started, mine>>
    BY <1>6 DEF vars, pru, arm
  <2> QED BY <1>1, <2>1, SampleKept
<1> QED BY <1>2, <1>3, <1>4, <1>5, <1>6, ScanKept

\* A program that has ended has taken the samples of all its points (RLOOP3 and RLOOP2 of the
\* scans, STIV of IV, ADCREAD of ReadCH): sF times pF times samp, a count of 0 standing for the
\* whole range of a register, and for IV as many times samp as Count is away from Stop.
THEOREM SamplesAreAll == Spec => []AllSamples
<1>1. SampleInv => AllSamples
  <2> SUFFICES ASSUME SampleInv, pc = "HALT", mine PROVE AllSamples
    BY DEF AllSamples
  <2>1. image \in DOMAIN Programs
    BY DEF SampleInv, ValuesInv
  <2>2. /\ image \in Scans => ScanCounts
        /\ image = "IV" => SweepCounts
        /\ image = "ReadCH" => ReadCounts
        /\ image = "SetV" => taken = 0
    BY DEF SampleInv, CountsInv
  <2>3. CASE image \in Scans
    <3>1. taken = Times(started.sF) * Times(started.pF) * Times(started.samp)
      BY <2>2, <2>3 DEF ScanCounts
    <3> QED BY <2>3, <3>1 DEF AllSamples, Scans
  <2>4. CASE image = "IV"
    BY <2>2, <2>4 DEF AllSamples, SweepCounts
  <2>5. CASE image = "ReadCH"
    BY <2>2, <2>5 DEF AllSamples, ReadCounts
  <2>6. CASE image = "SetV"
    BY <2>2, <2>6 DEF AllSamples
  <2> QED BY <2>1, <2>3, <2>4, <2>5, <2>6, OthersAre
<1>2. Spec => []SampleInv
  BY SampleInit, SampleNext, PTL DEF Spec
<1> QED BY <1>1, <1>2, PTL

-----------------------------------------------------------------------------
(* The grid.  The DACs take the low half of a register, and so does what   *)
(* is said of the registers that step them.                                *)

\* Equal for a DAC.
Same(x, y) == x % DacRange = y % DacRange

LEMMA SameIs ==
  ASSUME NEW x \in Int, NEW y \in Int
  PROVE  Same(x, y) <=> \E k \in Int : x = y + k * DacRange
<1>1. DacRange \in Nat \ {0}
  BY ScanAssumption
<1>2. Same(x, y) => \E k \in Int : x = y + k * DacRange
  BY <1>1, ModSame DEF Same
<1>3. ASSUME NEW k \in Int, x = y + k * DacRange PROVE Same(x, y)
  BY <1>1, <1>3, SameMod DEF Same
<1> QED BY <1>2, <1>3

LEMMA SamePlus ==
  ASSUME NEW x \in Words, NEW d \in Words, NEW y \in Int, NEW e \in Int, Same(x, y), Same(d, e)
  PROVE  Same(Plus(x, d), y + e)
<1>1. DacRange \in Nat \ {0} /\ WordRange \in Nat \ {0} /\ WordRange % DacRange = 0
  BY ScanAssumption
<1>2. x \in Int /\ d \in Int
  BY WordsAre
<1>3. PICK j \in Int, k \in Int : x = y + j * DacRange /\ d = e + k * DacRange
  BY <1>2, SameIs
<1>4. x + d = y + e + (j + k) * DacRange
  BY <1>1, <1>2, <1>3
<1>5. Same(x + d, y + e)
  <2>1. x + d \in Int /\ y + e \in Int /\ j + k \in Int
    BY <1>2, <1>3
  <2> QED BY <1>4, <2>1, SameIs
<1>6. ((x + d) % WordRange) % DacRange = (x + d) % DacRange
  <2>1. x + d \in Int
    BY <1>2
  <2> QED BY <1>1, <2>1, ModMultiple
<1> QED BY <1>5, <1>6 DEF Same, Plus

\* The sign changes in the low half.
LEMMA InverseIs == ASSUME NEW x \in Words, NEW y \in Int, Same(x, y) PROVE Same(Inverse16(x), -y)
<1>1. PICK m \in Nat \ {0} : m = DacRange
  BY ScanAssumption
<1>2. WordRange \in Nat \ {0} /\ WordRange % m = 0
  BY <1>1, ScanAssumption
<1>3. x \in Int
  BY WordsAre
<1>4. PICK q \in Int, r \in Int : x = m * q + r /\ r = x % m
  <2>1. x = m * (x \div m) + (x % m) /\ x % m \in Int /\ x \div m \in Int
    BY <1>1, <1>3, DivMod0
  <2> QED BY <2>1, Zenon
<1>5. PICK k \in Int : x = y + k * m
  BY <1>1, <1>3, SameIs
<1> DEFINE n == (x - r) + (m - r)
<1>6. n \in Int /\ Inverse16(x) = n % WordRange
  <2>1. Inverse16(x) = ((x - (x % DacRange)) + (DacRange - (x % DacRange))) % WordRange
    BY DEF Inverse16, Plus
  <2>2. x % DacRange = r
    BY <1>1, <1>4
  <2>3. n \in Int
    BY <1>1, <1>3, <1>4
  <2> QED BY <1>1, <2>1, <2>2, <2>3, Zenon
<1>7. (n % WordRange) % m = n % m
  BY <1>1, <1>2, <1>6, ModMultiple
<1>8. n = -y + (2 * q + 1 - k) * m
  <2>1. PICK a \in Int, b \in Int : a = m * q /\ b = k * m
    BY <1>1
  <2>2. (2 * q + 1 - k) * m = 2 * a + m - b
    BY <2>1
  <2>3. x = a + r /\ x = y + b
    BY <1>4, <1>5, <2>1
  <2>4. n = a + m - r
    BY <1>1, <1>4, <2>1, <2>3
  <2>5. PICK c \in Int : c = (2 * q + 1 - k) * m /\ c = 2 * a + m - b
    BY <1>1, <2>1, <2>2
  <2>6. n = -y + c
    <3>1. y = a + r - b
      BY <1>4, <2>1, <2>3
    <3>2. a + m - r = -y + c
      BY <1>1, <1>4, <2>1, <2>5, <3>1
    <3> QED BY <2>4, <3>2
  <2> QED BY <2>5, <2>6
<1>9. Same(n, -y)
  <2>1. 2 * q + 1 - k \in Int /\ -y \in Int
    BY <1>4, <1>5
  <2> QED BY <1>1, <1>6, <1>8, <2>1, SameIs
<1> QED BY <1>1, <1>6, <1>7, <1>9 DEF Same

LEMMA OddOrEven == \A l \in Int : ((l + 1) % 2 = 1 <=> ~(l % 2 = 1)) /\ 0 % 2 = 0
OBVIOUS

\* The labels of a pattern between set-up and its end.
Pattern == InLine \union {"LOOP1", "RLOOP2"}

\* A snake comes back on every second line; the column it has come to on its way.
Back == Program.turns /\ Lines % 2 = 1
Column(c) == IF Back THEN Times(started.pF) - c ELSE c

\* Fx and Fy are at column c of the line.
FxIs(c) == Same(regs.Fx, started.Sx + Lines * started.sdx + Column(c) * started.dx)
FyIs(c) == Same(regs.Fy, started.Sy + Lines * started.sdy + c * started.dy)

\* The snakes OnGrid speaks of go along x and step from line to line along y.
AlongX == Program.turns => started.sdx = 0 /\ started.dy = 0

\* The registers of a scan, by lines and points finished.
GridInv ==
  mine /\ image \in Scans /\ Program.moves /\ AlongX /\ pc \in Pattern =>
    /\ Same(regs.dx, IF Back THEN -started.dx ELSE started.dx) /\ Same(regs.dy, started.dy)
    /\ Same(regs.Sx, started.Sx + Lines * started.sdx)
    /\ Same(regs.Sy, started.Sy + Lines * started.sdy)
    /\ pc = "LOOP1" /\ Program.turns => FxIs(0)
    /\ pc \in InLine => FxIs(Dots) /\ FyIs(Dots)
    /\ pc = "RLOOP2" => FxIs(Times(started.pF))
    /\ Program.turns => /\ regs.SwS = IF Back THEN 1 ELSE 0
                        /\ Same(regs.DX, started.dx) /\ Same(regs.IDX, -started.dx)
                        /\ Same(regs.DY, 0) /\ Same(regs.IDY, 0)
    /\ pc \in {"LOOP3", "ADCREAD"} => dac.A = regs.Fx % DacRange /\ dac.B = regs.Fy % DacRange

LEMMA GridSteps ==
  ASSUME RunInv, ValuesInv, RegsInv, LabelInv, mine, image \in Scans, Program.moves, AlongX,
         GridInv, Pru
  PROVE  GridInv'
<1>1. Running /\ UNCHANGED <<image, mine, started>> /\ Program' = Program
  BY PruKeeps
<1>2. /\ Program.begin = "LOOP1" /\ Program.after = "RLOOP3" /\ Program.turns \in BOOLEAN
      /\ ToSet(Program.loads) = ToSet(ScanLoads) /\ DOMAIN dac = {"A", "B", "C", "D"}
  BY ScansAre DEF ValuesInv
<1>3. PICK x0, y0, sx, sy, dx, dy \in Words, P \in Nat \ {0} :
        /\ x0 = started.Sx /\ y0 = started.Sy /\ sx = started.sdx /\ sy = started.sdy
        /\ dx = started.dx /\ dy = started.dy /\ P = Times(started.pF)
  <2>1. /\ \A f \in {"Sx", "Sy", "sdx", "sdy", "dx", "dy"} : started[f] \in Words
        /\ Times(started.pF) \in Nat \ {0}
    BY <1>1, ScanFacts, TimesIs
  <2> QED BY <2>1
<1>4. /\ x0 = started'.Sx /\ y0 = started'.Sy /\ sx = started'.sdx /\ sy = started'.sdy
      /\ dx = started'.dx /\ dy = started'.dy /\ P = Times(started'.pF)
  BY <1>1, <1>3
<1>5. /\ x0 \in Int /\ y0 \in Int /\ sx \in Int /\ sy \in Int /\ dx \in Int /\ dy \in Int
      /\ Program.turns => sx = 0 /\ dy = 0
  BY <1>3, WordsAre DEF AlongX
<1>6. pc # "PASSVALUES" =>
        /\ \A f \in {"Sx", "Sy", "sdx", "sdy", "dx", "dy", "pF", "sF", "samp"} :
             f \in DOMAIN regs /\ regs[f] \in Words
        /\ regs.sdx = sx /\ regs.sdy = sy
        /\ ToSet(ScanLoads) \subseteq DOMAIN regs
  <2>1. pc # "PASSVALUES" => ToSet(Program.loads) \subseteq DOMAIN regs
    BY <1>1 DEF RunInv, Loaded
  <2> QED BY <1>1, <1>2, <1>3, <2>1, ScanFacts
<1>7. /\ Program.turns /\ pc \in Pattern =>
           Turning \subseteq DOMAIN regs /\ \A r \in Turning : regs[r] \in Words
      /\ pc \in InLine \union {"RLOOP2"} =>
           \A r \in {"Fx", "Fy"} : r \in DOMAIN regs /\ regs[r] \in Words
      /\ pc = "ADCREAD" => "sampc" \in DOMAIN regs
      /\ pc \in InLine \union {"RLOOP2"} => "pFc" \in DOMAIN regs
  BY <1>1 DEF RegsInv, Pattern, InLine, Turning
<1> DEFINE Col(b, c) == IF b THEN P - c ELSE c
           now == Program.turns /\ Lines % 2 = 1
           next == Program.turns /\ Lines' % 2 = 1
<1>8. pc \in Pattern =>
        /\ Same(regs.dx, IF now THEN -dx ELSE dx) /\ Same(regs.dy, dy)
        /\ Same(regs.Sx, x0 + Lines * sx) /\ Same(regs.Sy, y0 + Lines * sy)
        /\ pc = "LOOP1" /\ Program.turns => Same(regs.Fx, x0 + Lines * sx + Col(now, 0) * dx)
        /\ pc \in InLine => /\ Same(regs.Fx, x0 + Lines * sx + Col(now, Dots) * dx)
                            /\ Same(regs.Fy, y0 + Lines * sy + Dots * dy)
        /\ pc = "RLOOP2" => Same(regs.Fx, x0 + Lines * sx + Col(now, P) * dx)
        /\ Program.turns => /\ regs.SwS = IF now THEN 1 ELSE 0
                            /\ Same(regs.DX, dx) /\ Same(regs.IDX, -dx)
                            /\ Same(regs.DY, 0) /\ Same(regs.IDY, 0)
        /\ pc \in {"LOOP3", "ADCREAD"} => dac.A = regs.Fx % DacRange /\ dac.B = regs.Fy % DacRange
  BY <1>3 DEF GridInv, Back, Column, FxIs, FyIs
<1> SUFFICES ASSUME pc' \in Pattern
      PROVE
        /\ Same(regs'.dx, IF next THEN -dx ELSE dx) /\ Same(regs'.dy, dy)
        /\ Same(regs'.Sx, x0 + Lines' * sx) /\ Same(regs'.Sy, y0 + Lines' * sy)
        /\ pc' = "LOOP1" /\ Program.turns => Same(regs'.Fx, x0 + Lines' * sx + Col(next, 0) * dx)
        /\ pc' \in InLine => /\ Same(regs'.Fx, x0 + Lines' * sx + Col(next, Dots') * dx)
                             /\ Same(regs'.Fy, y0 + Lines' * sy + Dots' * dy)
        /\ pc' = "RLOOP2" => Same(regs'.Fx, x0 + Lines' * sx + Col(next, P) * dx)
        /\ Program.turns => /\ regs'.SwS = IF next THEN 1 ELSE 0
                            /\ Same(regs'.DX, dx) /\ Same(regs'.IDX, -dx)
                            /\ Same(regs'.DY, 0) /\ Same(regs'.IDY, 0)
        /\ pc' \in {"LOOP3", "ADCREAD"} =>
             dac'.A = regs'.Fx % DacRange /\ dac'.B = regs'.Fy % DacRange
  BY <1>1, <1>4 DEF GridInv, Back, Column, FxIs, FyIs, Pattern, InLine
<1>9. /\ pc # "PASSVALUES" => Lines \in Int
      /\ SETUP => Lines' = 0
      /\ LOOP1 => Lines' = Lines /\ Dots' = 0
      /\ SUBLOOP2 \/ LOOP3 \/ ADCREAD => Lines' = Lines /\ Dots' = Dots
      /\ RLOOP3 => /\ Lines' = Lines /\ Dots \in Int
                   /\ regs'.pFc # 0 => Dots' = Dots + 1
                   /\ regs'.pFc = 0 => Dots + 1 = P
      /\ RLOOP2 /\ regs'.sF # 0 => Lines' = Lines + 1
  BY <1>3, CountersMove
<1> USE DEF Pattern, InLine
<1>10. CASE PASSVALUES
  BY <1>10 DEF PASSVALUES, Goto
<1>11. CASE SETUP
  <2>1. pc = "SETUP" /\ pc' = "LOOP1"
    BY <1>2, <1>11 DEF SETUP, Goto
  <2>2. regs.Sx = x0 /\ regs.Sy = y0 /\ regs.dx = dx /\ regs.dy = dy
    BY <1>1, <1>3, <2>1, ScanFacts
  <2>3. Lines' = 0 /\ next = FALSE
    BY <1>9, <1>11, OddOrEven
  <2>4. /\ x0 + 0 * sx = x0 /\ y0 + 0 * sy = y0 /\ x0 + 0 * sx + 0 * dx = x0
    BY <1>5
  <2>5. Same(dx, dx) /\ Same(dy, dy) /\ Same(x0, x0) /\ Same(y0, y0)
    BY DEF Same
  <2>6. CASE Program.turns
    <3>1. /\ regs'.DX = dx /\ regs'.IDX = Inverse16(dx)
          /\ regs'.DY = dy /\ regs'.IDY = Inverse16(dy)
          /\ regs'.SwS = 0 /\ regs'.Fx = x0 /\ regs'.Sx = x0 /\ regs'.Sy = y0
          /\ regs'.dx = dx /\ regs'.dy = dy
      BY <1>6, <1>11, <2>1, <2>2, <2>6, SetupDoes
    <3>2. Same(Inverse16(dx), -dx) /\ Same(Inverse16(dy), -dy) /\ -dy = 0 /\ dy = 0
      <4>1. dy = 0
        BY <1>5, <2>6
      <4>2. Same(Inverse16(dx), -dx)
        BY <1>5, <2>5, InverseIs
      <4>3. Same(Inverse16(dy), -dy)
        BY <1>5, <2>5, InverseIs
      <4>4. -dy = 0 - dy
        BY <1>5
      <4>5. 0 - dy = 0
        BY <4>1
      <4> QED BY <4>1, <4>2, <4>3, <4>4, <4>5, Zenon
    <3> QED BY <2>1, <2>3, <2>4, <2>5, <3>1, <3>2
  <2>7. CASE ~Program.turns
    <3>1. regs' = regs
      BY <1>11, <2>7, SetupDoes DEF Scans
    <3> QED BY <2>1, <2>2, <2>3, <2>4, <2>5, <2>7, <3>1
  <2> QED BY <2>6, <2>7
<1>12. CASE LOOP1
  <2>1. /\ pc = "LOOP1" /\ pc' = "SUBLOOP2"
        /\ regs'.Fx = (IF Program.turns THEN regs.Fx ELSE regs.Sx) /\ regs'.Fy = regs.Sy
        /\ \A r \in DOMAIN regs \ {"Fx", "Fy", "pFc"} : regs'[r] = regs[r]
    BY <1>12, Loop1Does
  <2>2. Lines' = Lines /\ Dots' = 0 /\ Lines \in Int
    BY <1>9, <1>12, <2>1
  <2>3. regs'.dx = regs.dx /\ regs'.dy = regs.dy /\ regs'.Sx = regs.Sx /\ regs'.Sy = regs.Sy
    BY <1>6, <2>1
  <2>4. Program.turns => /\ regs'.SwS = regs.SwS /\ regs'.DX = regs.DX /\ regs'.IDX = regs.IDX
                         /\ regs'.DY = regs.DY /\ regs'.IDY = regs.IDY
    BY <1>7, <2>1 DEF Turning
  <2>5. /\ 0 * dy = 0 /\ 0 * dx = 0
        /\ y0 + Lines * sy + 0 * dy = y0 + Lines * sy /\ x0 + Lines * sx + 0 * dx = x0 + Lines * sx
    <3>1. PICK a, b \in Int : a = Lines * sx /\ b = Lines * sy
      BY <1>5, <2>2
    <3>2. 0 * dy = 0 /\ 0 * dx = 0
      BY <1>5
    <3> QED BY <1>5, <3>1, <3>2
  <2>6. Same(regs'.Fx, x0 + Lines * sx + Col(now, 0) * dx)
    <3>1. CASE Program.turns
      BY <1>8, <2>1, <3>1
    <3>2. CASE ~Program.turns
      BY <1>8, <2>1, <2>5, <3>2
    <3> QED BY <3>1, <3>2
  <2>7. Same(regs'.Fy, y0 + Lines * sy + 0 * dy)
    BY <1>8, <2>1, <2>5
  <2> QED BY <1>8, <2>1, <2>2, <2>3, <2>4, <2>6, <2>7
<1>13. CASE SUBLOOP2
  <2>1. /\ pc = "SUBLOOP2" /\ pc' = "LOOP3"
        /\ dac'.A = regs.Fx % DacRange /\ dac'.B = regs.Fy % DacRange
        /\ \A r \in DOMAIN regs : regs'[r] = IF Program.turns /\ r = "DY" THEN 0 ELSE regs[r]
    BY <1>2, <1>13, SubLoop2Does
  <2>2. Lines' = Lines /\ Dots' = Dots
    BY <1>9, <1>13
  <2>3. /\ regs'.dx = regs.dx /\ regs'.dy = regs.dy /\ regs'.Sx = regs.Sx /\ regs'.Sy = regs.Sy
        /\ regs'.Fx = regs.Fx /\ regs'.Fy = regs.Fy
    BY <1>6, <1>7, <2>1
  <2>4. Program.turns => /\ regs'.SwS = regs.SwS /\ regs'.DX = regs.DX /\ regs'.IDX = regs.IDX
                         /\ regs'.DY = 0 /\ regs'.IDY = regs.IDY
    BY <1>7, <2>1 DEF Turning
  <2>5. Same(0, 0)
    BY DEF Same
  <2> QED BY <1>8, <2>1, <2>2, <2>3, <2>4, <2>5
<1>14. CASE LOOP3 \/ ADCREAD
  <2>1. /\ pc \in {"LOOP3", "ADCREAD"} /\ pc' \in {"ADCREAD", "RLOOP3"} /\ dac' = dac
        /\ \A r \in DOMAIN regs \ {"sampc"} : regs'[r] = regs[r]
    <3>1. CASE LOOP3
      BY <3>1, Loop3Does
    <3>2. CASE ADCREAD
      <4>1. "sampc" \in DOMAIN regs
        BY <1>7, <3>2 DEF ADCREAD
      <4> QED BY <1>2, <3>2, <4>1, AdcReadDoes
    <3> QED BY <1>14, <3>1, <3>2
  <2>2. Lines' = Lines /\ Dots' = Dots
    BY <1>9, <1>14
  <2>3. /\ regs'.dx = regs.dx /\ regs'.dy = regs.dy /\ regs'.Sx = regs.Sx /\ regs'.Sy = regs.Sy
        /\ regs'.Fx = regs.Fx /\ regs'.Fy = regs.Fy
    BY <1>6, <1>7, <2>1
  <2>4. Program.turns => /\ regs'.SwS = regs.SwS /\ regs'.DX = regs.DX /\ regs'.IDX = regs.IDX
                         /\ regs'.DY = regs.DY /\ regs'.IDY = regs.IDY
    BY <1>7, <2>1 DEF Turning
  <2> QED BY <1>8, <2>1, <2>2, <2>3, <2>4
<1>15. CASE RLOOP3
  <2>1. pc = "RLOOP3" /\ {"Fx", "Fy", "pFc"} \subseteq DOMAIN regs
    BY <1>7, <1>15 DEF RLOOP3
  <2>2. /\ pc' = IF regs'.pFc # 0 THEN "SUBLOOP2" ELSE "RLOOP2"
        /\ regs'.Fx = Plus(regs.Fx, regs.dx) /\ regs'.Fy = Plus(regs.Fy, regs.dy)
        /\ \A r \in DOMAIN regs \ {"Fx", "Fy", "pFc"} : regs'[r] = regs[r]
    BY <1>15, <2>1, RLoop3Does
  <2>3. /\ Lines' = Lines /\ Lines \in Int /\ Dots \in Int
        /\ regs'.pFc # 0 => Dots' = Dots + 1
        /\ regs'.pFc = 0 => Dots + 1 = P
    BY <1>9, <1>15, <2>1
  <2>4. regs'.dx = regs.dx /\ regs'.dy = regs.dy /\ regs'.Sx = regs.Sx /\ regs'.Sy = regs.Sy
    BY <1>6, <2>1, <2>2
  <2>5. Program.turns => /\ regs'.SwS = regs.SwS /\ regs'.DX = regs.DX /\ regs'.IDX = regs.IDX
                         /\ regs'.DY = regs.DY /\ regs'.IDY = regs.IDY
    BY <1>7, <2>1, <2>2 DEF Turning
  <2>6. Same(regs'.Fx, x0 + Lines * sx + Col(now, Dots + 1) * dx)
    <3> DEFINE e == IF now THEN -dx ELSE dx
               c == Col(now, Dots)
    <3>1. Same(regs.Fx, x0 + Lines * sx + c * dx) /\ Same(regs.dx, e)
      BY <1>8, <2>1
    <3>2. e \in Int /\ c \in Int /\ x0 + Lines * sx + c * dx \in Int
      BY <1>5, <2>3
    <3>3. regs.Fx \in Words /\ regs.dx \in Words
      BY <1>6, <1>7, <2>1
    <3>4. (x0 + Lines * sx + c * dx) + e = x0 + Lines * sx + Col(now, Dots + 1) * dx
      <4>1. PICK a \in Int : a = x0 + Lines * sx
        BY <1>5, <2>3
      <4>2. CASE now
        <5>1. (P - (Dots + 1)) * dx = (P - Dots) * dx - dx
          BY <1>5, <2>3
        <5>2. PICK d \in Int : d = (P - Dots) * dx
          BY <1>5, <2>3
        <5> QED BY <1>5, <4>1, <4>2, <5>1, <5>2
      <4>3. CASE ~now
        <5>1. (Dots + 1) * dx = Dots * dx + dx
          BY <1>5, <2>3
        <5>2. PICK d \in Int : d = Dots * dx
          BY <1>5, <2>3
        <5> QED BY <1>5, <4>1, <4>3, <5>1, <5>2
      <4> QED BY <4>2, <4>3
    <3> HIDE DEF e, c
    <3>5. Same(Plus(regs.Fx, regs.dx), (x0 + Lines * sx + c * dx) + e)
      BY <3>1, <3>2, <3>3, SamePlus
    <3> QED BY <2>2, <3>4, <3>5
  <2>7. Same(regs'.Fy, y0 + Lines * sy + (Dots + 1) * dy)
    <3>1. Same(regs.Fy, y0 + Lines * sy + Dots * dy) /\ Same(regs.dy, dy)
      BY <1>8, <2>1
    <3>2. y0 + Lines * sy + Dots * dy \in Int
      BY <1>5, <2>3
    <3>3. regs.Fy \in Words /\ regs.dy \in Words
      BY <1>6, <1>7, <2>1
    <3>4. (y0 + Lines * sy + Dots * dy) + dy = y0 + Lines * sy + (Dots + 1) * dy
      <4>1. PICK a, d \in Int : a = y0 + Lines * sy /\ d = Dots * dy
        BY <1>5, <2>3
      <4>2. (Dots + 1) * dy = Dots * dy + dy
        BY <1>5, <2>3
      <4> QED BY <1>5, <4>1, <4>2
    <3>5. Same(Plus(regs.Fy, regs.dy), (y0 + Lines * sy + Dots * dy) + dy)
      BY <1>5, <3>1, <3>2, <3>3, SamePlus
    <3> QED BY <2>2, <3>4, <3>5
  <2>8. CASE regs'.pFc # 0
    BY <1>8, <2>1, <2>2, <2>3, <2>4, <2>5, <2>6, <2>7, <2>8
  <2>9. CASE regs'.pFc = 0
    BY <1>8, <2>1, <2>2, <2>3, <2>4, <2>5, <2>6, <2>9
  <2> QED BY <2>8, <2>9
<1>16. CASE RLOOP2
  <2>1. pc = "RLOOP2" /\ ToSet(ScanLoads) \subseteq DOMAIN regs
    BY <1>6, <1>16 DEF RLOOP2
  <2>2. /\ regs'.Sx = Plus(regs.Sx, regs.sdx) /\ regs'.Sy = Plus(regs.Sy, regs.sdy)
        /\ Program.turns /\ "SwS" \in DOMAIN regs =>
              /\ regs.SwS = 0 => regs'.dx = regs.IDX /\ regs'.dy = regs.IDY /\ regs'.SwS = 1
              /\ regs.SwS # 0 => regs'.dx = regs.DX /\ regs'.dy = regs.DY /\ regs'.SwS = 0
        /\ ~Program.turns => regs'.dx = regs.dx /\ regs'.dy = regs.dy
        /\ \A r \in DOMAIN regs \ {"Sx", "Sy", "sF", "dx", "dy", "SwS"} : regs'[r] = regs[r]
        /\ pc' = IF regs'.sF # 0 THEN "LOOP1" ELSE "DONE"
    BY <1>16, <2>1, RLoop2Does
  <2>3. pc' = "LOOP1" /\ Lines' = Lines + 1 /\ Lines \in Int
    BY <1>9, <1>16, <2>1, <2>2
  <2>4. /\ Same(regs'.Sx, x0 + (Lines + 1) * sx) /\ Same(regs'.Sy, y0 + (Lines + 1) * sy)
    <3>1. /\ Same(regs.Sx, x0 + Lines * sx) /\ Same(regs.Sy, y0 + Lines * sy)
          /\ regs.sdx = sx /\ regs.sdy = sy
          /\ regs.Sx \in Words /\ regs.Sy \in Words
      BY <1>6, <1>8, <2>1
    <3>2. Same(sx, sx) /\ Same(sy, sy)
      BY DEF Same
    <3>3. PICK a, b \in Int : a = Lines * sx /\ b = Lines * sy
      BY <1>5, <2>3
    <3>4. x0 + Lines * sx \in Int /\ y0 + Lines * sy \in Int
      BY <1>5, <3>3
    <3>5. /\ Same(Plus(regs.Sx, sx), (x0 + Lines * sx) + sx)
          /\ Same(Plus(regs.Sy, sy), (y0 + Lines * sy) + sy)
      BY <1>5, <3>1, <3>2, <3>4, SamePlus
    <3>6. (Lines + 1) * sx = Lines * sx + sx /\ (Lines + 1) * sy = Lines * sy + sy
      BY <1>5, <2>3
    <3>7. /\ (x0 + Lines * sx) + sx = x0 + (Lines + 1) * sx
          /\ (y0 + Lines * sy) + sy = y0 + (Lines + 1) * sy
      BY <1>5, <3>3, <3>6
    <3> QED BY <2>2, <3>1, <3>5, <3>7
  <2>5. CASE ~Program.turns
    BY <1>8, <2>1, <2>2, <2>3, <2>4, <2>5
  <2>6. CASE Program.turns
    <3>1. /\ regs'.Fx = regs.Fx /\ regs'.DX = regs.DX /\ regs'.IDX = regs.IDX
          /\ regs'.DY = regs.DY /\ regs'.IDY = regs.IDY
      BY <1>7, <2>1, <2>2, <2>6 DEF Turning
    <3>2. next <=> ~now
      BY <2>3, <2>6, OddOrEven
    <3>3. sx = 0 /\ dy = 0 /\ Lines * sx = 0 /\ (Lines + 1) * sx = 0
      BY <1>5, <2>3, <2>6
    <3>4. Col(next, 0) = Col(now, P)
      BY <3>2
    <3>5. Same(regs'.Fx, x0 + (Lines + 1) * sx + Col(next, 0) * dx)
      BY <1>8, <2>1, <3>1, <3>3, <3>4
    <3>6. /\ Same(regs'.dx, IF next THEN -dx ELSE dx) /\ Same(regs'.dy, dy)
          /\ regs'.SwS = IF next THEN 1 ELSE 0
      <4>1. "SwS" \in DOMAIN regs
        BY <1>7, <2>1, <2>6 DEF Turning
      <4>2. CASE now
        BY <1>8, <2>1, <2>2, <2>6, <3>2, <3>3, <4>1, <4>2
      <4>3. CASE ~now
        BY <1>8, <2>1, <2>2, <2>6, <3>2, <3>3, <4>1, <4>3
      <4> QED BY <4>2, <4>3
    <3> QED BY <1>8, <2>1, <2>3, <2>4, <2>6, <3>1, <3>5, <3>6
  <2> QED BY <2>5, <2>6
<1>17. CASE DONE
  BY <1>17 DEF DONE, Goto
<1> QED BY <1>10, <1>11, <1>12, <1>13, <1>14, <1>15, <1>16, <1>17, ScanSteps

LEMMA GridKept ==
  ASSUME GridInv, UNCHANGED <<image, pc, regs, dac, started, mine>>
  PROVE  GridInv'
<1>1. Lines' = Lines /\ Dots' = Dots /\ Program' = Program
  BY DEF Lines, Dots, Program
<1>2. Back' = Back /\ AlongX' = AlongX
  BY <1>1 DEF Back, AlongX
<1> QED BY <1>1, <1>2 DEF GridInv, Column, FxIs, FyIs, Pattern, InLine

\* Strong enough to be kept by every step, and to give OnGrid at ADCREAD.
PointInv == SampleInv /\ GridInv

LEMMA PointInit == Init => PointInv
BY SampleInit DEF PointInv, GridInv, Init

LEMMA PointNext == PointInv /\ [Next]_vars => PointInv'
<1> SUFFICES ASSUME PointInv, [Next]_vars PROVE PointInv'
  OBVIOUS
<1> USE DEF PointInv
<1>1. SampleInv'
  BY SampleNext
<1>2. CASE Pru
  <2>1. UNCHANGED <<image, mine, started>> /\ Program' = Program
    BY <1>2, PruKeeps
  <2>2. AlongX' = AlongX
    BY <2>1 DEF AlongX
  <2>3. CASE mine /\ image \in Scans /\ Program.moves /\ AlongX
    BY <1>1, <1>2, <2>3, GridSteps DEF SampleInv, ParamInv
  <2>4. CASE ~(mine /\ image \in Scans /\ Program.moves /\ AlongX)
    BY <1>1, <2>1, <2>2, <2>4 DEF GridInv
  <2> QED BY <2>3, <2>4
<1>3. CASE Exec
  <2>1. pc' = "PASSVALUES"
    BY <1>3 DEF Exec
  <2> QED BY <1>1, <2>1 DEF GridInv, Pattern, InLine
<1>4. CASE ~mine' \/ pc' = "off"
  BY <1>1, <1>4 DEF GridInv, Pattern, InLine
<1>5. CASE UNCHANGED <<image, pc, regs, dac, dots, taken, started, mine>>
  BY <1>1, <1>5, GridKept
<1>6. CASE UNCHANGED vars
  BY <1>1, <1>6, GridKept DEF vars, pru, arm
<1> QED BY <1>2, <1>3, <1>4, <1>5, <1>6, ScanKept

\* The DACs stand on the grid the client asked for whenever samples are taken (SETUP, LOOP1,
\* RLOOP3, RLOOP2 and SWitchN of SPIScan.p, SnakeScan.p and TRIGScanDACOUT.p), whatever the
\* steps, the counts and the ranges of registers and DACs.
THEOREM PointsAreOnGrid == Spec => []OnGrid
<1>1. PointInv => OnGrid
  <2> SUFFICES ASSUME PointInv, pc = "ADCREAD", mine, Program.moves,
                      Program.turns => started.sdx = 0 /\ started.dy = 0
               PROVE  LET P == Times(started.pF)
                          l == dots \div P
                          c == dots % P
                          i == IF Program.turns /\ ~(l % 2 = 0) THEN P - c ELSE c
                      IN /\ dac.A = (started.Sx + l * started.sdx + i * started.dx) % DacRange
                         /\ dac.B = (started.Sy + l * started.sdy + i * started.dy) % DacRange
    BY DEF OnGrid
  <2> USE DEF PointInv, SampleInv
  <2>1. image \in Scans /\ AlongX /\ Running
    <3>1. image \in DOMAIN Programs
      BY DEF ValuesInv
    <3>2. image \in Scans
      BY <3>1, OthersAre
    <3> QED BY <3>2 DEF AlongX, Running
  <2>2. PICK P \in Nat \ {0} : P = Times(started.pF)
    BY <2>1, ScanFacts, TimesIs DEF ParamInv
  <2>3. Lines \in Int /\ Dots \in 0 .. P - 1 /\ dots = Lines * P + Dots
    <3>1. Times(started.sF) \in Nat
      BY <2>1, ScanFacts, TimesIs DEF ParamInv
    <3>2. ScanCounts
      BY <2>1 DEF CountsInv
    <3> QED BY <2>2, <3>1, <3>2 DEF ScanCounts, InLine
  <2>4. dots \div P = Lines /\ dots % P = Dots
    BY <2>3, DivModIs
  <2>5. dac.A = regs.Fx % DacRange /\ dac.B = regs.Fy % DacRange /\ FxIs(Dots) /\ FyIs(Dots)
    BY <2>1 DEF GridInv, Pattern, InLine
  <2>6. Lines % 2 = 1 <=> ~(Lines % 2 = 0)
    BY <2>3
  <2>7. Column(Dots) = IF Program.turns /\ ~(Lines % 2 = 0) THEN P - Dots ELSE Dots
    BY <2>2, <2>6 DEF Column, Back
  <2>8. /\ dac.A = (started.Sx + Lines * started.sdx + Column(Dots) * started.dx) % DacRange
        /\ dac.B = (started.Sy + Lines * started.sdy + Dots * started.dy) % DacRange
    BY <2>5 DEF FxIs, FyIs, Same
  <2>9. Column(Dots) * started.dy = Dots * started.dy
    <3>1. Column(Dots) \in Int /\ Dots \in Int
      BY <2>2, <2>3, <2>7
    <3>2. CASE Program.turns
      BY <2>1, <3>1, <3>2 DEF AlongX
    <3>3. CASE ~Program.turns
      BY <2>7, <3>3
    <3> QED BY <3>2, <3>3
  <2> QED BY <2>2, <2>4, <2>7, <2>8, <2>9
<1>2. Spec => []PointInv
  BY PointInit, PointNext, PTL DEF Spec
<1> QED BY <1>1, <1>2, PTL
=============================================================================
