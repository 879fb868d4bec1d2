------------------------------ MODULE PruEvents ------------------------------
(***************************************************************************)
(* The event calls of prussdrv used the way the library offers them: main  *)
(* opens a host interrupt, initialises the controller, starts PRU0 and     *)
(* calls prussdrv_pru_send_wait_clear_event once per round.  PRU0 answers  *)
(* as the PRU programs of the examples do: WBS, clear, work, send.         *)
(***************************************************************************)
EXTENDS PruIntc

CONSTANT Rounds
ASSUME RoundsAssumption == Rounds \in Nat \ {0}

VARIABLES
  main,      \* program counter of the main thread
  step,      \* next register write of prussdrv_pruintc_init
  round,     \* calls of send_wait_clear completed
  seen,      \* interrupt count this descriptor has read
  pru,       \* program counter of PRU0
  answers,   \* history: answers sent by PRU0
  wakes      \* history: returns of prussdrv_pru_wait_event

roundsVars == <<intc, main, step, round, seen, pru, answers, wakes>>

RoundsTypeOK ==
  /\ IntcOK
  /\ main \in {"open", "init", "exec", "send", "wait", "enable", "clear", "done"}
  /\ step \in 1 .. Len(Writes) + 1
  /\ round \in 0 .. Rounds /\ seen \in Nat
  /\ pru \in {"off", "poll", "ack", "reply"}
  /\ answers \in Nat /\ wakes \in Nat

RoundsInit ==
  /\ IntcInit
  /\ main = "open" /\ step = 1 /\ round = 0 /\ seen = 0
  /\ pru = "off" /\ answers = 0 /\ wakes = 0

-----------------------------------------------------------------------------
Main(from, to) == main = from /\ main' = to

\* The descriptor counts from the moment it is opened.
Open == /\ Main("open", "init")
        /\ seen' = irqs[EVTOUT0]
        /\ UNCHANGED <<intc, step, round, pru, answers, wakes>>

IntcWrite == /\ main = "init"
             /\ Write(Writes[step]) /\ step' = step + 1
             /\ main' = IF step = Len(Writes) THEN "exec" ELSE "init"
             /\ UNCHANGED <<round, seen, pru, answers, wakes>>

Exec == /\ Main("exec", "send") /\ pru' = "poll"
        /\ UNCHANGED <<intc, step, round, seen, answers, wakes>>

SendEvent == /\ Main("send", "wait") /\ Raise("arm_pru0")
             /\ UNCHANGED <<step, round, seen, pru, answers, wakes>>

\* read blocks until the count differs from what the descriptor has seen.
Wake == /\ Main("wait", "enable")
        /\ irqs[EVTOUT0] # seen
        /\ seen' = irqs[EVTOUT0] /\ wakes' = wakes + 1
        /\ UNCHANGED <<intc, step, round, pru, answers>>

\* Mutant: the host interrupt stays disabled after a wait.
EnableNever == /\ Main("enable", "clear")
                 /\ UNCHANGED <<intc, step, round, seen, pru, answers, wakes>>

\* wait_event ends by enabling the host again, before the event is cleared.
EnableAgain == /\ Main("enable", "clear") /\ EnableHost(EVTOUT0)
            /\ UNCHANGED <<step, round, seen, pru, answers, wakes>>

\* Mutant: the wrong event is acknowledged.
ClearOther == /\ main = "clear" /\ Clear("pru1_arm")
              /\ round' = round + 1
              /\ main' = IF round' = Rounds THEN "done" ELSE "send"
              /\ UNCHANGED <<step, seen, pru, answers, wakes>>

ClearEvent == /\ main = "clear" /\ Clear("pru0_arm")
              /\ round' = round + 1
              /\ main' = IF round' = Rounds THEN "done" ELSE "send"
              /\ UNCHANGED <<step, seen, pru, answers, wakes>>

-----------------------------------------------------------------------------
Pru(from, to) == pru = from /\ pru' = to

Poll  == /\ Pru("poll", "ack") /\ Raised(PRU0)
         /\ UNCHANGED <<intc, main, step, round, seen, answers, wakes>>
Ack   == /\ Pru("ack", "reply") /\ Clear("arm_pru0")
         /\ UNCHANGED <<main, step, round, seen, answers, wakes>>
Reply == /\ Pru("reply", "poll") /\ Raise("pru0_arm") /\ answers' = answers + 1
         /\ UNCHANGED <<main, step, round, seen, wakes>>

Kernel == /\ \E h \in ArmHosts : Interrupt(h)
          /\ UNCHANGED <<main, step, round, seen, pru, answers, wakes>>

MainStep == Open \/ IntcWrite \/ Exec \/ SendEvent \/ Wake \/ EnableAgain \/ ClearEvent
PruStep == Poll \/ Ack \/ Reply
RoundsNext == MainStep \/ PruStep \/ Kernel

RoundsSpec == RoundsInit /\ [][RoundsNext]_roundsVars

\* The ARM and the PRU run on their own; the kernel takes pending interrupts.
FairRoundsSpec == RoundsSpec /\ WF_roundsVars(MainStep) /\ WF_roundsVars(PruStep) /\ WF_roundsVars(Kernel)

-----------------------------------------------------------------------------
\* Whatever was pending when the program started, the first wait returns only
\* after PRU0 has answered: pruintc_init clears the events before it enables
\* the hosts (prussdrv.c:395-405).
FirstWakeIsReal == wakes > 0 => answers > 0

\* One answer wakes main at most twice: enabling the host before the event is
\* cleared costs one interrupt more, never a storm (prussdrv.c:425-436).
AtMostTwoWakes == irqs[EVTOUT0] <= 2 * answers /\ wakes <= 2 * answers

\* An answer is not lost for good although main may clear it unseen: every
\* call of send_wait_clear returns (prussdrv.c:441-450).
AllRoundsEnd == <>(main = "done")

\* "Wait until PRU0 has finished execution" (PRU_PRUtoPRU_Interrupt.c:171): a
\* wait returns once per answer.
WaitMeansAnswer == wakes <= answers
=============================================================================
