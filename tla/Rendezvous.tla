------------------------------ MODULE Rendezvous ------------------------------
(***************************************************************************)
(* What the PRU-to-PRU example promises, without interrupts: PRU0 asks,    *)
(* PRU1 does its part, then PRU0 does its own, and only then is the result *)
(* judged, once, as a success.  The example may be abandoned and begun     *)
(* again at any point.                                                     *)
(***************************************************************************)
VARIABLES asked, first, second, verdict

Init == asked = FALSE /\ first = FALSE /\ second = FALSE /\ verdict = "none"

Ask    == ~asked /\ asked' = TRUE /\ UNCHANGED <<first, second, verdict>>
First  == asked /\ ~first /\ first' = TRUE /\ UNCHANGED <<asked, second, verdict>>
Second == first /\ ~second /\ second' = TRUE /\ UNCHANGED <<asked, first, verdict>>
Judge  == /\ second /\ verdict = "none" /\ verdict' = "passed"
          /\ UNCHANGED <<asked, first, second>>
Again  == asked' = FALSE /\ first' = FALSE /\ second' = FALSE /\ verdict' = "none"

Next == Ask \/ First \/ Second \/ Judge \/ Again

vars == <<asked, first, second, verdict>>
Spec == Init /\ [][Next]_vars
=============================================================================
