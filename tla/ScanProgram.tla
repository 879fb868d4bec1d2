----------------------------- MODULE ScanProgram -----------------------------
(***************************************************************************)
(* The PRU programs of SPIScan: they read their parameters from the data   *)
(* memory the ARM has filled, step the DAC outputs through a pattern, and  *)
(* take ADC samples at each point.  The converters and the SPI controllers *)
(* are always ready in the end; their waits are part of the steps.         *)
(***************************************************************************)
EXTENDS Integers, Sequences, SequencesExt

CONSTANTS
  WordRange,   \* number of values of a register (2^32)
  DacRange     \* number of values of a DAC, the low half of a register (2^16)

ASSUME ScanAssumption ==
  /\ DacRange \in Nat \ {0, 1} /\ WordRange \in Nat \ {0}
  /\ WordRange % DacRange = 0

VARIABLES
  dram,    \* the data memory, word by word
  image,   \* the program in the instruction memory
  pc,      \* where it is; "off" while the PRU is disabled
  regs,    \* its registers, by the names of the .hp files
  dac,     \* what the four DAC outputs hold
  event,   \* PRU0_ARM_INTERRUPT is pending
  dots,    \* history: points of the pattern finished
  taken    \* history: samples taken

pru == <<image, pc, regs, dac, event, dots, taken>>

Words == 0 .. WordRange - 1
Addresses == 0 .. 14

-----------------------------------------------------------------------------
(* What the programs are made of: the registers LBCO fills from word 0 on, *)
(* whether they wait for the trigger, whether they move the DACs along the *)
(* pattern, whether they turn at the end of a line, the label they begin   *)
(* at after set-up and the label they go on at after sampling.             *)

ScanLoads == <<"Sx", "Sy", "sdx", "sdy", "dx", "dy", "pF", "sF",
               "samp", "CH", "DVAR", "OS", "XFER">>

SPIScan == [loads |-> ScanLoads, trigger |-> FALSE, moves |-> TRUE, turns |-> FALSE,
            begin |-> "LOOP1", after |-> "RLOOP3"]

SnakeScan == [loads |-> ScanLoads, trigger |-> FALSE, moves |-> TRUE, turns |-> TRUE,
              begin |-> "LOOP1", after |-> "RLOOP3"]

TRIGScan == [loads |-> ScanLoads, trigger |-> TRUE, moves |-> FALSE, turns |-> FALSE,
             begin |-> "LOOP1", after |-> "RLOOP3"]

TRIGScanDACOUT == [loads |-> ScanLoads, trigger |-> TRUE, moves |-> TRUE, turns |-> FALSE,
                   begin |-> "LOOP1", after |-> "RLOOP3"]

\* Min and Max are the registers MinV and MaxV.
IV == [loads |-> <<"nStep", "pStep", "Count", "Start", "Stop", "Min", "Max", "STEP",
                   "samp", "CH", "DVAR", "OS", "XFER">>,
       trigger |-> FALSE, moves |-> FALSE, turns |-> FALSE, begin |-> "STIV", after |-> "STIV"]

SetV == [loads |-> <<"V1", "V2", "CTRL">>,
         trigger |-> FALSE, moves |-> FALSE, turns |-> FALSE, begin |-> "DACUPDATE", after |-> "DONE"]

ReadCH == [loads |-> <<"samp", "CH", "DVAR", "OS", "XFER">>,
           trigger |-> FALSE, moves |-> FALSE, turns |-> FALSE, begin |-> "LOOP3", after |-> "DONE"]

Programs == [SPIScan |-> SPIScan, SnakeScan |-> SnakeScan, TRIGScan |-> TRIGScan,
             TRIGScanDACOUT |-> TRIGScanDACOUT, IV |-> IV, SetV |-> SetV, ReadCH |-> ReadCH]

Program == Programs[image]

-----------------------------------------------------------------------------
Plus(n, d) == (n + d) % WordRange
Minus1(n) == (n - 1) % WordRange

\* XOR with 0xffff and ADD 1: the sign changes in the low half only.
Inverse16(n) == Plus(n - (n % DacRange), DacRange - (n % DacRange))

Goto(label) == pc' = label

\* The registers after MOVs into some of them.
Assign(values) ==
  [r \in DOMAIN values \union DOMAIN regs |-> IF r \in DOMAIN values THEN values[r] ELSE regs[r]]

PASSVALUES ==
  /\ pc = "PASSVALUES" /\ Goto("SETUP")
  /\ LET loads == Program.loads
     IN regs' = [r \in ToSet(loads) |-> dram[(CHOOSE i \in DOMAIN loads : loads[i] = r) - 1]]
  /\ UNCHANGED <<image, dac, event, dots, taken>>

\* SETUPDXDY of the snake, MOV V1, Start of IV.
SETUP ==
  /\ pc = "SETUP" /\ Goto(Program.begin)
  /\ regs' = CASE Program.turns ->
                    Assign([DX |-> regs.dx, IDX |-> Inverse16(regs.dx),
                           DY |-> regs.dy, IDY |-> Inverse16(regs.dy),
                           SwS |-> 0, Fx |-> regs.Sx, Fy |-> regs.Sy])
               [] image = "IV" -> Assign([V1 |-> regs.Start])
               [] OTHER        -> regs
  /\ UNCHANGED <<image, dac, event, dots, taken>>

\* LOOP1 and the start of LOOP2.  The snake goes on from where Fx is.
LOOP1 ==
  /\ pc = "LOOP1" /\ Goto("SUBLOOP2")
  /\ regs' = Assign([Fx |-> IF Program.turns THEN regs.Fx ELSE regs.Sx,
                    Fy |-> regs.Sy, pFc |-> regs.pF])
  /\ UNCHANGED <<image, dac, event, dots, taken>>

\* DACUPDATE.  Its delays count r24 down to 0, which is the snake's DY.
SUBLOOP2 ==
  /\ pc = "SUBLOOP2" /\ Goto("LOOP3")
  /\ dac' = IF Program.moves
            THEN [dac EXCEPT !.A = regs.Fx % DacRange, !.B = regs.Fy % DacRange]
            ELSE dac
  /\ regs' = IF Program.turns THEN [regs EXCEPT !.DY = 0] ELSE regs
  /\ UNCHANGED <<image, event, dots, taken>>

\* Mutant: the sample count is not set again for the next point.
LOOP3NoReset ==
  /\ pc = "LOOP3" /\ Goto("ADCREAD")
  /\ regs' = IF "sampc" \in DOMAIN regs THEN regs ELSE Assign([sampc |-> regs.samp])
  /\ UNCHANGED <<image, dac, event, dots, taken>>

\* A triggered program goes on when the pin r31.t14 is low.
LOOP3 ==
  /\ pc = "LOOP3" /\ Goto("ADCREAD")
  /\ regs' = Assign([sampc |-> regs.samp])
  /\ UNCHANGED <<image, dac, event, dots, taken>>

ADCREAD ==
  /\ pc = "ADCREAD"
  /\ taken' = taken + 1
  /\ regs' = [regs EXCEPT !.sampc = Minus1(@)]
  /\ Goto(IF regs'.sampc # 0 THEN "ADCREAD" ELSE Program.after)
  /\ UNCHANGED <<image, dac, event, dots>>

RLOOP3 ==
  /\ pc = "RLOOP3"
  /\ dots' = dots + 1
  /\ LET moved == IF Program.moves
                  THEN [regs EXCEPT !.Fx = Plus(@, regs.dx), !.Fy = Plus(@, regs.dy)]
                  ELSE regs
     IN regs' = [moved EXCEPT !.pFc = Minus1(@)]
  /\ Goto(IF regs'.pFc # 0 THEN "SUBLOOP2" ELSE "RLOOP2")
  /\ UNCHANGED <<image, dac, event, taken>>

\* Mutant: the snake takes the same turn at the end of every line.
SwitchAlwaysN(r) ==
  [r EXCEPT !.dx = r.IDX, !.dy = r.IDY, !.SwS = 1]

\* SWitchN and SWitchP.
Switch(r) ==
  IF r.SwS = 0
  THEN [r EXCEPT !.dx = r.IDX, !.dy = r.IDY, !.SwS = 1]
  ELSE [r EXCEPT !.dx = r.DX, !.dy = r.DY, !.SwS = 0]

RLOOP2 ==
  /\ pc = "RLOOP2"
  /\ LET turned == IF Program.turns THEN Switch(regs) ELSE regs
         moved  == IF Program.moves
                   THEN [turned EXCEPT !.Sx = Plus(@, regs.sdx), !.Sy = Plus(@, regs.sdy)]
                   ELSE turned
     IN regs' = [moved EXCEPT !.sF = Minus1(@)]
  /\ Goto(IF regs'.sF # 0 THEN "LOOP1" ELSE "DONE")
  /\ UNCHANGED <<image, dac, event, dots, taken>>

\* Mutant: SETnSTEP and SETpSTEP jump back to the tests.
STIVTestsAgain ==
  /\ pc = "STIV"
  /\ IF regs.Stop = regs.Count
     THEN Goto("DONE") /\ UNCHANGED <<regs, dac>>
     ELSE IF regs.Count \in {regs.Max, regs.Min}
     THEN /\ regs' = [regs EXCEPT !.STEP = IF regs.Count = regs.Max THEN regs.nStep ELSE regs.pStep]
          /\ Goto("STIV") /\ UNCHANGED dac
     ELSE /\ dac' = [dac EXCEPT !.C = regs.V1 % DacRange]
          /\ regs' = [regs EXCEPT !.V1 = Plus(@, regs.STEP), !.Count = Minus1(@)]
          /\ Goto("LOOP3")
  /\ UNCHANGED <<image, event, dots, taken>>

\* The sweep of IV: the step changes when Count meets Max, and else Min.
STIV ==
  /\ pc = "STIV"
  /\ IF regs.Stop = regs.Count
     THEN Goto("DONE") /\ UNCHANGED <<regs, dac>>
     ELSE LET step == CASE regs.Max = regs.Count -> regs.nStep
                        [] regs.Max # regs.Count /\ regs.Min = regs.Count -> regs.pStep
                        [] OTHER -> regs.STEP
          IN /\ dac' = [dac EXCEPT !.C = regs.V1 % DacRange]
             /\ regs' = [regs EXCEPT !.STEP = step, !.V1 = Plus(@, step), !.Count = Minus1(@)]
             /\ Goto("LOOP3")
  /\ UNCHANGED <<image, event, dots, taken>>

\* DACUPDATE of SetV: bits 0 and 1 of CTRL select the outputs.
DACUPDATE ==
  /\ pc = "DACUPDATE" /\ Goto("DONE")
  /\ dac' = [dac EXCEPT !.C = IF regs.CTRL % 2 = 1 THEN regs.V1 % DacRange ELSE @,
                        !.D = IF (regs.CTRL \div 2) % 2 = 1 THEN regs.V2 % DacRange ELSE @]
  /\ UNCHANGED <<image, regs, event, dots, taken>>

DONE ==
  /\ pc = "DONE" /\ Goto("HALT") /\ event' = TRUE
  /\ UNCHANGED <<image, regs, dac, dots, taken>>

AwaitsTrigger == pc = "LOOP3" /\ Program.trigger
Running == pc \notin {"off", "HALT"}

\* The steps a program takes by itself, and the one it needs the trigger for.
Step ==
  \/ PASSVALUES \/ SETUP \/ LOOP1 \/ SUBLOOP2 \/ ADCREAD
  \/ RLOOP3 \/ RLOOP2 \/ STIV \/ DACUPDATE \/ DONE
  \/ ~AwaitsTrigger /\ LOOP3

Trigger == AwaitsTrigger /\ LOOP3

ScanInit ==
  /\ image = "none" /\ pc = "off" /\ regs = [r \in {} |-> 0]
  /\ dac = [A |-> 0, B |-> 0, C |-> 0, D |-> 0] /\ event = FALSE
  /\ dram = [a \in Addresses |-> 0]
  /\ dots = 0 /\ taken = 0
=============================================================================
