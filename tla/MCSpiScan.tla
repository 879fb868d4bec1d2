------------------------------ MODULE MCSpiScan ------------------------------
(***************************************************************************)
(* Instance: registers of 3 bits, DACs of 2.  The datagrams hold scans of  *)
(* one to three lines, with steps of both signs, a count of 0, a datagram  *)
(* that is too short and one that is empty.                                *)
(***************************************************************************)
EXTENDS SpiScan

D(c, words) == [cmd |-> c, words |-> words]

\*                        Sx Sy sdx sdy dx dy pF sF samp CH DVAR OS XFER CCNT
MCDatagrams ==
  { D("START_SCAN",    <<2, 5, 1,  7,  3, 1, 2, 3, 1,   2, 4,   6, 0,   5>>),
    D("START_SCAN",    <<7, 1, 0,  1,  7, 0, 0, 1>>),
    D("TRIG_SCAN",     <<1, 2, 3,  4,  5, 6, 2, 1, 2,   7, 0,   3, 1,   6>>),
    D("TRIG_SCAN_DAC", <<6, 3, 2,  1,  1, 7, 1, 2, 1,   4, 5,   2, 3,   1>>),
    D("SNAKE_SCAN",    <<1, 6, 0,  1,  3, 0, 3, 3, 1,   5, 1,   7, 2,   4, 6, 2>>),
    D("SNAKE_SCAN",    <<3, 0, 0,  0,  0, 1, 2, 3, 1,   1, 6,   5, 4,   2, 7, 3>>),
    D("IV_SCAN",       <<7, 1, 4,  2,  0, 3, 1, 6, 1,   3, 2,   5, 4,   3>>),
    D("SET_V",         <<3, 6, 2>>),
    D("READ_CH",       <<2, 6, 3,  1,  5, 7>>),
    D("STOP_SCAN",     <<>>),
    D(Unreadable,      <<>>) }
=============================================================================
