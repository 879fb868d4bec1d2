---------------------------- MODULE PruIntc_proofs ----------------------------
(***************************************************************************)
(* What prussdrv_pruintc_init does to the controller, write by write: the  *)
(* facts the proofs about its users share.                                 *)
(***************************************************************************)
EXTENDS PruIntc, TLAPS

\* Channel n is the one the tables give event e.
Routed(e, n) == \E i \in DOMAIN SysevtMap : SysevtMap[i] = <<e, n>>

\* While the registers are zeroed and or-ed into, an event goes to its own
\* channel or to channel 0, and a channel to its own host or to host 0.
Routing ==
  /\ cmr \in [Events -> Numbers] /\ hmr \in [Numbers -> Numbers]
  /\ \A e \in Events : cmr[e] = Zero \/ Routed(e, cmr[e])
  /\ \A c \in Numbers : hmr[c] = Zero \/ hmr[c] = c

\* The place of the write that clears the pending events.
Clearing == 14

LEMMA RoutedType ==
  /\ \A e, n : Routed(e, n) => e \in Events /\ n \in Numbers
  /\ \A e \in Events : \E n \in Numbers : Routed(e, n)
  /\ \A e, n, m : Routed(e, n) /\ Routed(e, m) => n = m
  /\ \A e : Routed(e, EVTOUT0) => e = "pru0_arm"
  /\ \A e : Routed(e, EVTOUT1) => e = "pru1_arm"
<1>1. \A e, n : Routed(e, n) <=>
        \/ e = "pru0_pru1" /\ n = One
        \/ e = "pru1_pru0" /\ n = Zero
        \/ e = "pru0_arm" /\ n = Two
        \/ e = "pru1_arm" /\ n = Three
        \/ e = "arm_pru0" /\ n = Zero
        \/ e = "arm_pru1" /\ n = One
  <2>1. DOMAIN SysevtMap = 1 .. 6
    BY DEF SysevtMap
  <2>2. /\ SysevtMap[1] = <<"pru0_pru1", One>> /\ SysevtMap[2] = <<"pru1_pru0", Zero>>
        /\ SysevtMap[3] = <<"pru0_arm", Two>> /\ SysevtMap[4] = <<"pru1_arm", Three>>
        /\ SysevtMap[5] = <<"arm_pru0", Zero>> /\ SysevtMap[6] = <<"arm_pru1", One>>
    BY DEF SysevtMap
  <2>3. \A i : i \in 1 .. 6 <=> i = 1 \/ i = 2 \/ i = 3 \/ i = 4 \/ i = 5 \/ i = 6
    OBVIOUS
  <2>4. \A e, n : Routed(e, n) <=>
          \/ SysevtMap[1] = <<e, n>> \/ SysevtMap[2] = <<e, n>> \/ SysevtMap[3] = <<e, n>>
          \/ SysevtMap[4] = <<e, n>> \/ SysevtMap[5] = <<e, n>> \/ SysevtMap[6] = <<e, n>>
    BY <2>1, <2>3 DEF Routed
  <2> QED BY <2>2, <2>4
<1>2. Zero # Two /\ One # Two /\ Three # Two /\ Zero # Three /\ One # Three
      /\ Two # Three
  <2>1. /\ 0 \notin Zero /\ 1 \notin Zero /\ 0 \in One /\ 1 \notin One
        /\ 0 \notin Two /\ 1 \in Two /\ 0 \in Three /\ 1 \in Three
    BY DEF Zero, One, Two, Three
  <2> QED BY <2>1
<1>3. {Zero, One, Two, Three} \subseteq Numbers
  BY DEF Zero, One, Two, Three, Numbers
<1>4. \A e, n : Routed(e, n) => e \in Events /\ n \in Numbers
  BY <1>1, <1>3 DEF Events
<1>5. \A e \in Events : \E n \in Numbers : Routed(e, n)
  BY <1>1, <1>3 DEF Events
<1>6. \A e, n, m : Routed(e, n) /\ Routed(e, m) => n = m
  BY <1>1
<1>7. \A e : Routed(e, EVTOUT0) => e = "pru0_arm"
  BY <1>1, <1>2 DEF EVTOUT0
<1>8. \A e : Routed(e, EVTOUT1) => e = "pru1_arm"
  BY <1>1, <1>2 DEF EVTOUT1
<1> QED BY <1>4, <1>5, <1>6, <1>7, <1>8

\* w is u followed by v, and m and n are their lengths.
Chained(S, w, u, v, m, n) ==
  /\ w \in Seq(S) /\ Len(w) = m + n
  /\ \A i \in 1 .. m : w[i] = u[i]
  /\ \A i \in 1 .. n : w[i + m] = v[i]

LEMMA Joined ==
  ASSUME NEW S, NEW u, NEW v, NEW m, NEW n, u \in Seq(S), v \in Seq(S),
         m \in Nat, n \in Nat, Len(u) = m, Len(v) = n
  PROVE  Chained(S, u \o v, u, v, m, n)
BY DEF Chained

LEMMA TablesType ==
  /\ \A i \in 1 .. 6 : Routed(SysevtMap[i][1], SysevtMap[i][2])
  /\ \A i \in 1 .. 4 : HostMap[i][1] \in Numbers /\ HostMap[i][2] = HostMap[i][1]
<1>1. DOMAIN SysevtMap = 1 .. 6
  BY DEF SysevtMap
<1>2. \A i \in 1 .. 6 : SysevtMap[i] = << SysevtMap[i][1], SysevtMap[i][2] >>
  BY DEF SysevtMap
<1>3. \A i \in 1 .. 4 : HostMap[i][1] \in Numbers /\ HostMap[i][2] = HostMap[i][1]
  BY DEF HostMap, Numbers, PRU0, PRU1, EVTOUT0, EVTOUT1, Zero, One, Two, Three
<1> QED BY <1>1, <1>2, <1>3 DEF Routed

\* The writes, one by one.
LEMMA WritesAre ==
  /\ Len(Writes) = 19
  /\ \A s \in 1 .. 19 :
       \/ s = 1 /\ Writes[s] = W("cmr0", Zero, Zero)
       \/ \E i \in 1 .. 6 : s = i + 1 /\ Writes[s] = W("cmr", SysevtMap[i][1], SysevtMap[i][2])
       \/ s = 8 /\ Writes[s] = W("hmr0", Zero, Zero)
       \/ \E i \in 1 .. 4 : s = i + 8 /\ Writes[s] = W("hmr", HostMap[i][1], HostMap[i][2])
       \/ s = 13 /\ Writes[s] = W("esr", Zero, Zero)
       \/ s = 14 /\ Writes[s] = W("secr", Zero, Zero)
       \/ \E i \in 1 .. 4 : s = i + 14 /\ Writes[s] = W("hieisr", Zero, HostList[i])
       \/ s = 19 /\ Writes[s] = W("ger", Zero, Zero)
<1> DEFINE A == << W("cmr0", Zero, Zero) >>
           B == [i \in DOMAIN SysevtMap |-> W("cmr", SysevtMap[i][1], SysevtMap[i][2])]
           C == << W("hmr0", Zero, Zero) >>
           D == [i \in DOMAIN HostMap |-> W("hmr", HostMap[i][1], HostMap[i][2])]
           E == << W("esr", Zero, Zero), W("secr", Zero, Zero) >>
           F == [i \in DOMAIN HostList |-> W("hieisr", Zero, HostList[i])]
           G == << W("ger", Zero, Zero) >>
           Any == [reg : {"cmr0", "cmr", "hmr0", "hmr", "esr", "secr", "hieisr", "ger"},
                   of : Events \union Numbers, to : Numbers]
<1>1. DOMAIN SysevtMap = 1 .. 6 /\ DOMAIN HostMap = 1 .. 4 /\ DOMAIN HostList = 1 .. 4
  BY DEF SysevtMap, HostMap, HostList
<1>2. \A x, y, z : W(x, y, z).reg = x /\ W(x, y, z).of = y /\ W(x, y, z).to = z
  BY DEF W
<1>3. Zero \in Numbers /\ \A i \in 1 .. 4 : HostList[i] \in Numbers
  BY DEF HostList, Numbers, PRU0, PRU1, EVTOUT0, EVTOUT1, Zero, One, Two, Three
<1>4. \A i \in 1 .. 6 : Routed(SysevtMap[i][1], SysevtMap[i][2])
  <2>1. \A i \in 1 .. 6 : SysevtMap[i] = << SysevtMap[i][1], SysevtMap[i][2] >>
    BY DEF SysevtMap
  <2> QED BY <1>1, <2>1 DEF Routed
<1>5. \A i \in 1 .. 4 : HostMap[i][1] \in Numbers /\ HostMap[i][2] = HostMap[i][1]
  BY DEF HostMap, Numbers, PRU0, PRU1, EVTOUT0, EVTOUT1, Zero, One, Two, Three
<1>6. A \in Seq(Any) /\ B \in Seq(Any) /\ C \in Seq(Any) /\ D \in Seq(Any)
      /\ E \in Seq(Any) /\ F \in Seq(Any) /\ G \in Seq(Any)
  <2>1. \A i \in 1 .. 6 : SysevtMap[i][1] \in Events /\ SysevtMap[i][2] \in Numbers
    BY <1>4, RoutedType
  <2> QED BY <1>1, <1>3, <1>5, <2>1 DEF W
<1>7. /\ Len(A) = 1 /\ Len(B) = 6 /\ Len(C) = 1 /\ Len(D) = 4
      /\ Len(E) = 2 /\ Len(F) = 4 /\ Len(G) = 1
  BY <1>1
<1>8. Writes = A \o B \o C \o D \o E \o F \o G
  BY DEF Writes
<1>9. /\ \A i \in 1 .. 6 : B[i] = W("cmr", SysevtMap[i][1], SysevtMap[i][2])
      /\ \A i \in 1 .. 4 : D[i] = W("hmr", HostMap[i][1], HostMap[i][2])
      /\ \A i \in 1 .. 4 : F[i] = W("hieisr", Zero, HostList[i])
      /\ A[1] = W("cmr0", Zero, Zero) /\ C[1] = W("hmr0", Zero, Zero)
      /\ E[1] = W("esr", Zero, Zero) /\ E[2] = W("secr", Zero, Zero)
      /\ G[1] = W("ger", Zero, Zero)
  BY <1>1
<1> HIDE DEF A, B, C, D, E, F, G, Any
<1>10. /\ 1 \in Nat /\ 2 \in Nat /\ 4 \in Nat /\ 6 \in Nat /\ 7 \in Nat
       /\ 8 \in Nat /\ 12 \in Nat /\ 14 \in Nat /\ 18 \in Nat
  OBVIOUS
<1> DEFINE AB == A \o B
<1>11. Chained(Any, AB, A, B, 1, 6)
  BY <1>6, <1>7, <1>10, Joined, Zenon DEF AB
<1> HIDE DEF AB
<1>12. AB \in Seq(Any) /\ Len(AB) = 7
  BY <1>11 DEF Chained
<1> DEFINE AC == AB \o C
<1>13. Chained(Any, AC, AB, C, 7, 1)
  BY <1>6, <1>7, <1>10, <1>12, Joined, Zenon DEF AC
<1> HIDE DEF AC
<1>14. AC \in Seq(Any) /\ Len(AC) = 8
  BY <1>13 DEF Chained
<1> DEFINE AD == AC \o D
<1>15. Chained(Any, AD, AC, D, 8, 4)
  BY <1>6, <1>7, <1>10, <1>14, Joined, Zenon DEF AD
<1> HIDE DEF AD
<1>16. AD \in Seq(Any) /\ Len(AD) = 12
  BY <1>15 DEF Chained
<1> DEFINE AE == AD \o E
<1>17. Chained(Any, AE, AD, E, 12, 2)
  BY <1>6, <1>7, <1>10, <1>16, Joined, Zenon DEF AE
<1> HIDE DEF AE
<1>18. AE \in Seq(Any) /\ Len(AE) = 14
  BY <1>17 DEF Chained
<1> DEFINE AF == AE \o F
<1>19. Chained(Any, AF, AE, F, 14, 4)
  BY <1>6, <1>7, <1>10, <1>18, Joined, Zenon DEF AF
<1> HIDE DEF AF
<1>20. AF \in Seq(Any) /\ Len(AF) = 18
  BY <1>19 DEF Chained
<1> DEFINE AG == AF \o G
<1>21. Chained(Any, AG, AF, G, 18, 1)
  BY <1>6, <1>7, <1>10, <1>20, Joined, Zenon DEF AG
<1> HIDE DEF AG
<1>22. AG \in Seq(Any) /\ Len(AG) = 19
  BY <1>21 DEF Chained
<1>23. Writes = AG
  BY <1>8 DEF AG, AF, AE, AD, AC, AB
<1>24. Len(Writes) = 19
  BY <1>22, <1>23
<1>25. /\ Writes[1] = A[1] /\ Writes[8] = C[1] /\ Writes[13] = E[1] /\ Writes[14] = E[2]
       /\ Writes[19] = G[1]
       /\ \A i \in 1 .. 6 : Writes[i + 1] = B[i]
       /\ \A i \in 1 .. 4 : Writes[i + 8] = D[i]
       /\ \A i \in 1 .. 4 : Writes[i + 14] = F[i]
  <2>1. Writes[19] = G[1] /\ \A i \in 1 .. 18 : Writes[i] = AF[i]
    BY <1>21, <1>23 DEF Chained
  <2>2. /\ \A i \in 1 .. 14 : Writes[i] = AE[i]
        /\ \A i \in 1 .. 4 : Writes[i + 14] = F[i]
    BY SMTT(20), <1>19, <2>1 DEF Chained
  <2>3. /\ \A i \in 1 .. 12 : Writes[i] = AD[i]
        /\ Writes[13] = E[1] /\ Writes[14] = E[2]
    BY SMTT(20), <1>17, <2>2 DEF Chained
  <2>4. /\ \A i \in 1 .. 8 : Writes[i] = AC[i]
        /\ \A i \in 1 .. 4 : Writes[i + 8] = D[i]
    BY <1>15, <2>3 DEF Chained
  <2>5. Writes[8] = C[1] /\ \A i \in 1 .. 7 : Writes[i] = AB[i]
    BY <1>13, <2>4 DEF Chained
  <2>6. Writes[1] = A[1] /\ \A i \in 1 .. 6 : Writes[i + 1] = B[i]
    BY <1>11, <2>5 DEF Chained
  <2> QED BY <2>1, <2>2, <2>3, <2>4, <2>5, <2>6
<1>26. \A s \in 1 .. 19 :
         \/ s = 1 /\ Writes[s] = W("cmr0", Zero, Zero)
         \/ \E i \in 1 .. 6 : s = i + 1 /\ Writes[s] = W("cmr", SysevtMap[i][1], SysevtMap[i][2])
         \/ s = 8 /\ Writes[s] = W("hmr0", Zero, Zero)
         \/ \E i \in 1 .. 4 : s = i + 8 /\ Writes[s] = W("hmr", HostMap[i][1], HostMap[i][2])
         \/ s = 13 /\ Writes[s] = W("esr", Zero, Zero)
         \/ s = 14 /\ Writes[s] = W("secr", Zero, Zero)
         \/ \E i \in 1 .. 4 : s = i + 14 /\ Writes[s] = W("hieisr", Zero, HostList[i])
         \/ s = 19 /\ Writes[s] = W("ger", Zero, Zero)
  <2>1. \A s \in 1 .. 19 : \/ s \in {1, 8, 13, 14, 19}
                           \/ \E i \in 1 .. 6 : s = i + 1
                           \/ \E i \in 1 .. 4 : s = i + 8
                           \/ \E i \in 1 .. 4 : s = i + 14
    <3>1. \A s \in 1 .. 19 : \/ s \in {1, 8, 13, 14, 19}
                             \/ s - 1 \in 1 .. 6 /\ s = (s - 1) + 1
                             \/ s - 8 \in 1 .. 4 /\ s = (s - 8) + 8
                             \/ s - 14 \in 1 .. 4 /\ s = (s - 14) + 14
      OBVIOUS
    <3> QED BY <3>1
  <2> QED BY <1>9, <1>25, <2>1
<1> QED BY <1>24, <1>26

\* The writes, by what each register is given.
LEMMA WritesType ==
  /\ Len(Writes) = 19
  /\ \A s \in 1 .. 19 :
       LET w == Writes[s] IN
       /\ w.reg \in {"cmr0", "cmr", "hmr0", "hmr", "esr", "secr", "hieisr", "ger"}
       /\ w.reg = "cmr" => Routed(w.of, w.to)
       /\ w.reg = "hmr" => w.of \in Numbers /\ w.to = w.of
       /\ w.reg = "secr" <=> s = Clearing
       /\ w.reg = "hieisr" => s > Clearing
<1>1. \A x, y, z : W(x, y, z).reg = x /\ W(x, y, z).of = y /\ W(x, y, z).to = z
  BY DEF W
<1> QED BY <1>1, WritesAre, TablesType DEF Clearing

\* No write of pruintc_init changes the way of an event.
LEMMA RoutingKept ==
  ASSUME Routing, NEW s \in 1 .. 19, Write(Writes[s])
  PROVE  Routing'
<1> DEFINE w == Writes[s]
<1>1. /\ w.reg = "cmr" => Routed(w.of, w.to)
      /\ w.reg = "hmr" => w.of \in Numbers /\ w.to = w.of
  BY WritesType
<1>2. Zero \in Numbers /\ \A n : Zero \union n = n /\ n \union n = n
  BY DEF Zero, Numbers
<1>3. \/ cmr' = [e \in Events |-> Zero]
      \/ w.reg = "cmr" /\ cmr' = [cmr EXCEPT ![w.of] = @ \union w.to]
      \/ cmr' = cmr
  BY DEF Write, Remap
<1>4. \/ hmr' = [c \in Numbers |-> Zero]
      \/ w.reg = "hmr" /\ hmr' = [hmr EXCEPT ![w.of] = @ \union w.to]
      \/ hmr' = hmr
  BY DEF Write, Remap
<1> HIDE DEF w
<1>5. cmr' \in [Events -> Numbers] /\ \A e \in Events : cmr'[e] = Zero \/ Routed(e, cmr'[e])
  <2>1. CASE w.reg = "cmr" /\ cmr' = [cmr EXCEPT ![w.of] = @ \union w.to]
    <3>1. Routed(w.of, w.to) /\ w.of \in Events /\ w.to \in Numbers
      BY <1>1, <2>1, RoutedType
    <3>2. cmr[w.of] \union w.to = w.to
      BY <1>2, <3>1, RoutedType DEF Routing
    <3>3. cmr' = [cmr EXCEPT ![w.of] = w.to]
      BY <2>1, <3>2
    <3> QED BY <3>1, <3>3 DEF Routing
  <2> QED BY <1>2, <1>3, <2>1 DEF Routing
<1>6. hmr' \in [Numbers -> Numbers] /\ \A c \in Numbers : hmr'[c] = Zero \/ hmr'[c] = c
  <2>1. CASE w.reg = "hmr" /\ hmr' = [hmr EXCEPT ![w.of] = @ \union w.to]
    <3>1. hmr[w.of] \union w.to = w.to /\ w.of \in Numbers /\ w.to = w.of
      BY <1>1, <1>2, <2>1 DEF Routing
    <3>2. hmr' = [hmr EXCEPT ![w.of] = w.to]
      BY <2>1, <3>1
    <3> QED BY <3>1, <3>2 DEF Routing
  <2> QED BY <1>2, <1>4, <2>1 DEF Routing
<1> QED BY <1>5, <1>6 DEF Routing

\* The controller of any start routes events as the tables do.
LEMMA RoutingInit == AfterReset \/ LeftOver => Routing
<1>1. Zero \in Numbers
  BY DEF Zero, Numbers
<1>2. CASE AfterReset
  BY <1>1, <1>2 DEF AfterReset, Routing
<1>3. CASE LeftOver
  <2>1. \A e \in Events : Routed(e, MappedTo(e)) /\ MappedTo(e) \in Numbers
    BY RoutedType DEF MappedTo, Routed
  <2> QED BY <1>3, <2>1 DEF LeftOver, Routing
<1> QED BY <1>2, <1>3

\* The ARM is interrupted for the answer of a PRU and for nothing else.
LEMMA RaisedBy ==
  ASSUME Routing, raw \subseteq Events
  PROVE  /\ Raised(EVTOUT0) => EVTOUT0 \in hostOn /\ "pru0_arm" \in raw
         /\ Raised(EVTOUT1) => EVTOUT1 \in hostOn /\ "pru1_arm" \in raw
<1>1. EVTOUT0 # Zero /\ EVTOUT1 # Zero
  BY DEF EVTOUT0, EVTOUT1, Zero, Two, Three
<1>2. ASSUME NEW e \in Events, NEW h, h # Zero, hmr[cmr[e]] = h
      PROVE  Routed(e, h)
  <2>1. cmr[e] \in Numbers /\ hmr[cmr[e]] = cmr[e]
    BY <1>2 DEF Routing
  <2> QED BY <1>2, <2>1 DEF Routing
<1> QED BY <1>1, <1>2, RoutedType DEF Raised

\* The first n registers have been written.
Mapped(n) ==
  /\ \A i \in 1 .. 6 : i + 1 <= n => cmr[SysevtMap[i][1]] = SysevtMap[i][2]
  /\ \A i \in 1 .. 4 : i + 8 <= n => hmr[HostMap[i][1]] = HostMap[i][2]

LEMMA MappedStep ==
  ASSUME Routing, NEW s \in 1 .. 19, Mapped(s - 1), Write(Writes[s])
  PROVE  Mapped(s)'
<1> DEFINE w == Writes[s]
<1>1. /\ w.reg = "cmr0" => s = 1
      /\ w.reg = "hmr0" => s = 8
      /\ \A i \in 1 .. 6 : s = i + 1 => w.reg = "cmr" /\ w.of = SysevtMap[i][1] /\ w.to = SysevtMap[i][2]
      /\ \A i \in 1 .. 4 : s = i + 8 => w.reg = "hmr" /\ w.of = HostMap[i][1] /\ w.to = HostMap[i][2]
      /\ w.reg = "cmr" => Routed(w.of, w.to)
      /\ w.reg = "hmr" => w.of \in Numbers /\ w.to = w.of
  <2>1. \A x, y, z : W(x, y, z).reg = x /\ W(x, y, z).of = y /\ W(x, y, z).to = z
    BY DEF W
  <2> QED BY <2>1, WritesAre, WritesType
<1>2. /\ w.reg \notin {"cmr0", "cmr"} => cmr' = cmr
      /\ w.reg = "cmr" => cmr' = [cmr EXCEPT ![w.of] = @ \union w.to]
      /\ w.reg \notin {"hmr0", "hmr"} => hmr' = hmr
      /\ w.reg = "hmr" => hmr' = [hmr EXCEPT ![w.of] = @ \union w.to]
  BY DEF Write, Remap
<1>3. \A n : Zero \union n = n /\ n \union n = n
  BY DEF Zero
<1> HIDE DEF w
<1>4. w.reg = "cmr" => cmr' = [cmr EXCEPT ![w.of] = w.to] /\ w.of \in Events
  <2>1. w.reg = "cmr" => w.of \in Events /\ cmr[w.of] \union w.to = w.to
    BY <1>1, <1>3, RoutedType DEF Routing
  <2> QED BY <1>2, <2>1
<1>5. w.reg = "hmr" => hmr' = [hmr EXCEPT ![w.of] = w.to] /\ w.of \in Numbers /\ w.to = w.of
  <2>1. w.reg = "hmr" => w.of \in Numbers /\ w.to = w.of /\ hmr[w.of] \union w.to = w.to
    BY <1>1, <1>3 DEF Routing
  <2> QED BY <1>2, <2>1
<1>6. ASSUME NEW i \in 1 .. 6, i + 1 <= s
      PROVE  cmr'[SysevtMap[i][1]] = SysevtMap[i][2]
  <2>1. Routed(SysevtMap[i][1], SysevtMap[i][2]) /\ SysevtMap[i][1] \in Events
    BY TablesType, RoutedType
  <2>2. CASE w.reg = "cmr" /\ w.of = SysevtMap[i][1]
    <3>1. w.to = SysevtMap[i][2]
      BY <1>1, <2>1, <2>2, RoutedType
    <3> QED BY <1>4, <2>1, <2>2, <3>1 DEF Routing
  <2>3. CASE ~(w.reg = "cmr" /\ w.of = SysevtMap[i][1])
    <3>1. s # i + 1 /\ w.reg # "cmr0"
      BY <1>1, <1>6, <2>3
    <3>2. cmr[SysevtMap[i][1]] = SysevtMap[i][2]
      BY <1>6, <3>1 DEF Mapped
    <3>3. cmr'[SysevtMap[i][1]] = cmr[SysevtMap[i][1]]
      BY <1>2, <1>4, <2>1, <2>3, <3>1 DEF Routing
    <3> QED BY <3>2, <3>3
  <2> QED BY <2>2, <2>3
<1>7. ASSUME NEW i \in 1 .. 4, i + 8 <= s
      PROVE  hmr'[HostMap[i][1]] = HostMap[i][2]
  <2>1. HostMap[i][1] \in Numbers /\ HostMap[i][2] = HostMap[i][1]
    BY TablesType
  <2>2. CASE w.reg = "hmr" /\ w.of = HostMap[i][1]
    BY <1>5, <2>1, <2>2 DEF Routing
  <2>3. CASE ~(w.reg = "hmr" /\ w.of = HostMap[i][1])
    <3>1. s # i + 8 /\ w.reg # "hmr0"
      BY <1>1, <1>7, <2>3
    <3>2. hmr[HostMap[i][1]] = HostMap[i][2]
      BY <1>7, <3>1 DEF Mapped
    <3>3. hmr'[HostMap[i][1]] = hmr[HostMap[i][1]]
      BY <1>2, <1>5, <2>1, <2>3, <3>1 DEF Routing
    <3> QED BY <3>2, <3>3
  <2> QED BY <2>2, <2>3
<1> QED BY <1>6, <1>7 DEF Mapped

\* With the registers written, PRU0 wakes for PRU1 and PRU1 for PRU0.
LEMMA PrusWake ==
  ASSUME Routing, Mapped(19), raw \subseteq {"pru0_pru1", "pru1_pru0", "pru0_arm", "pru1_arm"}
  PROVE  /\ Raised(PRU0) => "pru1_pru0" \in raw
         /\ Raised(PRU1) => "pru0_pru1" \in raw
<1>1. /\ SysevtMap[1] = <<"pru0_pru1", One>> /\ SysevtMap[2] = <<"pru1_pru0", Zero>>
      /\ SysevtMap[3] = <<"pru0_arm", Two>> /\ SysevtMap[4] = <<"pru1_arm", Three>>
  BY DEF SysevtMap
<1>2. /\ HostMap[1] = <<Zero, PRU0>> /\ HostMap[2] = <<One, PRU1>>
      /\ HostMap[3] = <<Two, EVTOUT0>> /\ HostMap[4] = <<Three, EVTOUT1>>
  BY DEF HostMap
<1>3. /\ cmr["pru0_pru1"] = One /\ cmr["pru1_pru0"] = Zero
      /\ cmr["pru0_arm"] = Two /\ cmr["pru1_arm"] = Three
  BY <1>1 DEF Mapped
<1>4. hmr[Zero] = Zero /\ hmr[One] = One /\ hmr[Two] = Two /\ hmr[Three] = Three
  BY <1>2 DEF Mapped, PRU0, PRU1, EVTOUT0, EVTOUT1
<1>5. Zero # One /\ Zero # Two /\ Zero # Three /\ One # Two /\ One # Three
  <2>1. /\ 0 \notin Zero /\ 1 \notin Zero /\ 0 \in One /\ 1 \notin One
        /\ 1 \in Two /\ 1 \in Three
    BY DEF Zero, One, Two, Three
  <2> QED BY <2>1
<1> QED BY <1>3, <1>4, <1>5 DEF Raised, PRU0, PRU1
=============================================================================
