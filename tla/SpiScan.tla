------------------------------- MODULE SpiScan -------------------------------
(***************************************************************************)
(* The UDP server of SPIScan.c on the ARM, together with the PRU programs  *)
(* it starts.  A client sends datagrams; each command stops the program    *)
(* that was started before, arms the DMA, writes the parameters to the PRU *)
(* and starts the program of the command.  The server never waits for the  *)
(* program to end; it may be killed and started again while one runs.      *)
(***************************************************************************)
EXTENDS ScanProgram

CONSTANTS
  Datagrams,      \* what clients send: [cmd, words], the words after the command
  MaxDatagrams,   \* bound: datagrams received, but for STOP_SCAN
  MaxKills        \* bound: times the server is killed

\* Every word is read with %8x into an unsigned int.
ASSUME DatagramAssumption ==
  \A d \in Datagrams : \A i \in DOMAIN d.words : d.words[i] \in Words

VARIABLES
  server,      \* what the server does next; "dead" when no server runs
  cmd,         \* the local of LOCAL_udp_listen, not initialised
  structs,     \* the five parameter structures
  scanning,    \* a program has been started and not stopped
  dma,         \* what the DMA was last armed with: bcnt and ccnt
  datagrams, kills,
  started,     \* history: the structure the running program was started for
  mine         \* history: it was started by the server that runs now

arm == <<server, cmd, structs, scanning, dma, datagrams, kills, started, mine>>
vars == <<dram, pru, arm>>

-----------------------------------------------------------------------------
Commands ==
  [START_SCAN    |-> [struct |-> "scan",  image |-> "SPIScan"],
   SNAKE_SCAN    |-> [struct |-> "snake", image |-> "SnakeScan"],
   TRIG_SCAN     |-> [struct |-> "scan",  image |-> "TRIGScan"],
   TRIG_SCAN_DAC |-> [struct |-> "scan",  image |-> "TRIGScanDACOUT"],
   IV_SCAN       |-> [struct |-> "IV",    image |-> "IV"],
   SET_V         |-> [struct |-> "setV",  image |-> "SetV"],
   READ_CH       |-> [struct |-> "rCH",   image |-> "ReadCH"]]

Command == Commands[cmd]
Starts(c) == c \in DOMAIN Commands

\* A datagram whose first word cannot be read leaves cmd as it is.
Unreadable == "unreadable"
AnyCommand == DOMAIN Commands \union {"STOP_SCAN", "unknown"}

\* Local_pru_Data_Mem and its four variants: the fields written from word 0 on.
ScanWords == <<"Sx", "Sy", "sdx", "sdy", "dx", "dy", "pF", "sF",
               "samp", "CH", "DVAR", "OS", "XFER">>
SnakeWords == ScanWords \o <<"iDX", "iDY">>
IVWords == <<"nStep", "pStep", "Count", "Start", "Stop", "Min", "Max", "STEP",
             "samp", "CH", "DVAR", "OS", "XFER">>
SetVWords == <<"V1", "V2", "CTRL">>
ReadCHWords == <<"samp", "CH", "DVAR", "OS", "XFER">>

DataMem == [scan |-> ScanWords, snake |-> SnakeWords, IV |-> IVWords,
            setV |-> SetVWords, rCH |-> ReadCHWords]

\* The order in which sscanf fills the structures.
Fields == [scan  |-> ScanWords \o <<"CCNT">>,
           snake |-> ScanWords \o <<"CCNT", "iDX", "iDY">>,
           IV    |-> IVWords \o <<"CCNT">>,
           setV  |-> SetVWords,
           rCH   |-> ReadCHWords \o <<"CCNT">>]

Zeroed == [s \in DOMAIN Fields |-> [f \in ToSet(Fields[s]) |-> 0]]

\* A datagram that is too short leaves the last fields as they are.
Scanned(s, words) ==
  [f \in DOMAIN structs[s] |->
     LET i == CHOOSE k \in DOMAIN Fields[s] : Fields[s][k] = f
     IN IF i \in DOMAIN words THEN words[i] ELSE structs[s][f]]

-----------------------------------------------------------------------------
Server(from, to) == server = from /\ server' = to

First(c) == IF c = "SET_V" THEN "open" ELSE "dma"

\* recvfrom, sscanf and the switch.
Receive(d) ==
  /\ server = "listen"
  /\ IF d.cmd = "STOP_SCAN" THEN UNCHANGED datagrams
     ELSE datagrams < MaxDatagrams /\ datagrams' = datagrams + 1
  /\ cmd' = IF d.cmd = Unreadable THEN cmd ELSE d.cmd
  /\ structs' = IF Starts(cmd') /\ d.cmd # Unreadable
                THEN [structs EXCEPT ![Commands[cmd'].struct] = Scanned(Commands[cmd'].struct, d.words)]
                ELSE structs
  /\ server' = CASE cmd' \notin DOMAIN Commands \union {"STOP_SCAN"} -> "listen"
                 [] Starts(cmd') /\ scanning = 0                     -> First(cmd')
                 [] cmd' = "STOP_SCAN" /\ scanning = 0               -> "listen"
                 [] OTHER                                            -> "clear"
  /\ UNCHANGED <<dram, pru, scanning, dma, kills, started, mine>>

\* prussdrv_pru_clear_event (PRU0_ARM_INTERRUPT).
ClearEvent ==
  /\ Server("clear", "disable") /\ event' = FALSE
  /\ UNCHANGED <<dram, image, pc, regs, dac, dots, taken>>
  /\ UNCHANGED <<cmd, structs, scanning, dma, datagrams, kills, started, mine>>

\* Mutant: the program is not stopped.
DisableNot ==
  /\ Server("disable", "exit")
  /\ UNCHANGED <<dram, pru>>
  /\ UNCHANGED <<cmd, structs, scanning, dma, datagrams, kills, started, mine>>

\* prussdrv_pru_disable.
Disable ==
  /\ Server("disable", "exit") /\ pc' = "off"
  /\ UNCHANGED <<dram, image, regs, dac, event, dots, taken>>
  /\ UNCHANGED <<cmd, structs, scanning, dma, datagrams, kills, started, mine>>

\* prussdrv_exit; STOP_SCAN is then done.
Exit ==
  /\ Server("exit", IF cmd = "STOP_SCAN" THEN "listen" ELSE First(cmd))
  /\ scanning' = IF cmd = "STOP_SCAN" THEN 0 ELSE scanning
  /\ UNCHANGED <<dram, pru, cmd, structs, dma, datagrams, kills, started, mine>>

\* write_ioctl: MTY_START with the block size and count of the command.
WriteIoctl ==
  /\ Server("dma", "open")
  /\ LET s == structs[Command.struct] IN dma' = [bcnt |-> s.CH, ccnt |-> s.CCNT]
  /\ UNCHANGED <<dram, pru, cmd, structs, scanning, datagrams, kills, started, mine>>

\* prussdrv_init and prussdrv_open.
Open ==
  /\ Server("open", "intc")
  /\ UNCHANGED <<dram, pru, cmd, structs, scanning, dma, datagrams, kills, started, mine>>

\* prussdrv_pruintc_init.
IntcInit ==
  /\ Server("intc", "zero") /\ event' = FALSE
  /\ UNCHANGED <<dram, image, pc, regs, dac, dots, taken>>
  /\ UNCHANGED <<cmd, structs, scanning, dma, datagrams, kills, started, mine>>

\* LOCAL_exampleInit.
ExampleInit ==
  /\ Server("zero", "store") /\ dram' = [a \in Addresses |-> 0]
  /\ UNCHANGED <<pru, cmd, structs, scanning, dma, datagrams, kills, started, mine>>

\* Mutant: the words of IV are written in the order of the registers of IV.hp.
StoreByRegister ==
  /\ Server("store", "exec")
  /\ LET s == structs[Command.struct]
         fields == IF cmd = "IV_SCAN" THEN <<"pStep", "nStep">> \o SubSeq(IVWords, 3, 13)
                   ELSE DataMem[Command.struct]
     IN dram' = [a \in Addresses |-> IF a + 1 \in DOMAIN fields THEN s[fields[a + 1]] ELSE dram[a]]
  /\ UNCHANGED <<pru, cmd, structs, scanning, dma, datagrams, kills, started, mine>>

Store ==
  /\ Server("store", "exec")
  /\ LET s == structs[Command.struct]
         fields == DataMem[Command.struct]
     IN dram' = [a \in Addresses |-> IF a + 1 \in DOMAIN fields THEN s[fields[a + 1]] ELSE dram[a]]
  /\ UNCHANGED <<pru, cmd, structs, scanning, dma, datagrams, kills, started, mine>>

\* prussdrv_exec_program: disable, load, enable.
Exec ==
  /\ Server("exec", "listen")
  /\ image' = Command.image /\ pc' = "PASSVALUES" /\ regs' = [r \in {} |-> 0]
  /\ scanning' = 1
  /\ started' = structs[Command.struct] /\ mine' = TRUE
  /\ dots' = 0 /\ taken' = 0
  /\ UNCHANGED <<dram, dac, event, cmd, structs, dma, datagrams, kills>>

\* The DMA device or the uio device is not there: exit or a fault.
Fail ==
  /\ server \in {"dma", "open"} /\ server' = "dead" /\ mine' = FALSE
  /\ UNCHANGED <<dram, pru, cmd, structs, scanning, dma, datagrams, kills, started>>

\* The loop has no other end than a signal.
Kill ==
  /\ server # "dead" /\ kills < MaxKills /\ kills' = kills + 1
  /\ server' = "dead" /\ mine' = FALSE
  /\ UNCHANGED <<dram, pru, cmd, structs, scanning, dma, datagrams, started>>

Restart ==
  /\ Server("dead", "listen")
  /\ cmd' \in AnyCommand /\ structs' = Zeroed /\ scanning' = 0
  /\ UNCHANGED <<dram, pru, dma, datagrams, kills, started, mine>>

Pru ==
  /\ Step \/ Trigger
  /\ UNCHANGED <<dram, arm>>

Init ==
  /\ ScanInit
  /\ server = "listen" /\ cmd \in AnyCommand /\ structs = Zeroed /\ scanning = 0
  /\ dma = [bcnt |-> 0, ccnt |-> 0] /\ datagrams = 0 /\ kills = 0
  /\ started = Zeroed.setV /\ mine = FALSE

Next ==
  \/ \E d \in Datagrams : Receive(d)
  \/ ClearEvent \/ Disable \/ Exit \/ WriteIoctl \/ Open \/ IntcInit
  \/ ExampleInit \/ Store \/ Exec \/ Fail \/ Kill \/ Restart
  \/ Pru

\* A PRU that is enabled goes on, until it needs the trigger.
Spec == Init /\ [][Next]_vars /\ WF_vars(Step /\ UNCHANGED <<dram, arm>>)

-----------------------------------------------------------------------------
\* Registers that hold a parameter from PASSVALUES to HALT.
Kept == ToSet(Program.loads) \ {"Sx", "Sy", "sF", "dx", "dy", "Count", "STEP"}

\* A program works with the parameters of its own command, all of them and to
\* its end, and its samples go to a DMA armed for that command: the client's
\* order of the words, the structures, the data memory and the LBCOs agree, and
\* nothing of a later datagram reaches a program that runs (SPIScan.c:225-310,
\* 391-710; PASSVALUES of each .p).
OwnParameters ==
  Running /\ mine /\ pc # "PASSVALUES" =>
    /\ \A r \in IF pc = "SETUP" THEN DOMAIN regs ELSE Kept : regs[r] = started[r]
    /\ image # "SetV" => dma = [bcnt |-> started.CH, ccnt |-> started.CCNT]

\* A count of 0 is decremented first, so it stands for the whole range.
Times(n) == IF n = 0 THEN WordRange ELSE n

\* The DACs stand on the grid the client asked for whenever samples are taken:
\* point c of line l is at (Sx + l sdx + c dx, Sy + l sdy + c dy).  A snake along
\* x comes back over the columns 1 to pF of the way out (LOOP1 to RLOOP2).
OnGrid ==
  pc = "ADCREAD" /\ mine /\ Program.moves =>
    LET pF == Times(started.pF)
        l  == dots \div pF
        c  == dots % pF
        At(i, j) == [A |-> (started.Sx + j * started.sdx + i * started.dx) % DacRange,
                     B |-> (started.Sy + j * started.sdy + i * started.dy) % DacRange]
        here == [A |-> dac.A, B |-> dac.B]
    IN IF ~Program.turns THEN here = At(c, l)
       ELSE started.sdx = 0 /\ started.dy = 0 =>
              here = At(IF l % 2 = 0 THEN c ELSE pF - c, l)

\* A program that has ended has taken the samples of all its points.
AllSamples ==
  pc = "HALT" /\ mine =>
    taken = CASE image \in {"SPIScan", "SnakeScan", "TRIGScan", "TRIGScanDACOUT"} ->
                   Times(started.sF) * Times(started.pF) * Times(started.samp)
              [] image = "IV" ->
                   ((started.Count - started.Stop) % WordRange) * Times(started.samp)
              [] image = "ReadCH" -> Times(started.samp)
              [] image = "SetV"   -> 0

\* From prussdrv_exit to the start of the next program.
Preparing == {"exit", "dma", "open", "intc", "zero", "store"}

\* After STOP_SCAN, and while the server prepares the next program, the one it
\* started before neither moves the outputs nor takes a sample (SPIScan.c:397-403,
\* 569-580).  A program left by a server that was killed is not covered.
StoppedMeansStill ==
  [][mine /\ ((server = "listen" /\ scanning = 0) \/ server \in Preparing)
       => UNCHANGED <<dac, taken>>]_vars

\* Every program ends, is stopped or comes to wait for the trigger, whatever the
\* counts in its parameters.
ScanEnds == []<>(~Running \/ AwaitsTrigger)

\* "Need to switch change sign of dy and dx if we are in the fast axis.  It should
\* work for both positive and negative values of dx and dy" (SnakeScan.p:294-295):
\* every line steps by the two steps asked for, or by their negatives on the way
\* back.
SnakeTurns ==
  pc = "SUBLOOP2" /\ mine /\ Program.turns =>
    LET sign == IF (dots \div Times(started.pF)) % 2 = 0 THEN 1 ELSE -1
    IN /\ (regs.dx - sign * started.dx) % DacRange = 0
       /\ (regs.dy - sign * started.dy) % DacRange = 0
=============================================================================
