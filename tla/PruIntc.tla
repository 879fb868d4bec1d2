------------------------------- MODULE PruIntc -------------------------------
(***************************************************************************)
(* The PRU interrupt controller as prussdrv programs it, and the part of   *)
(* the uio kernel driver that prussdrv relies on.  Both are outside the    *)
(* repository; their behaviour is what the register writes of prussdrv.c   *)
(* and the PRU programs take for granted.                                  *)
(*                                                                         *)
(* A channel or host number is the set of the bits that are 1 in it, so    *)
(* that the "or" of __prussintc_set_cmr and _set_hmr is a union.           *)
(***************************************************************************)
EXTENDS Naturals, Sequences

VARIABLES
  raw,       \* pending system events (SRSR, SECR)
  enabled,   \* enabled system events (ESR)
  cmr, hmr,  \* event to channel, channel to host
  hostOn,    \* host interrupts enabled (HIER, through HIEISR and HIDISR)
  ger,       \* global enable
  irqs       \* per ARM host: interrupts the uio device has counted

intc == <<raw, enabled, cmr, hmr, hostOn, ger, irqs>>
mapping == <<enabled, cmr, hmr, ger>>

\* pruss_intc_mapping.h: the events, and channels and hosts 0 to 3.
Events == {"pru0_pru1", "pru1_pru0", "pru0_arm", "pru1_arm", "arm_pru0", "arm_pru1"}
Zero == {}   One == {0}   Two == {1}   Three == {0, 1}
Numbers == SUBSET {0, 1}
PRU0 == Zero   PRU1 == One   EVTOUT0 == Two   EVTOUT1 == Three
Hosts == {PRU0, PRU1, EVTOUT0, EVTOUT1}
ArmHosts == {EVTOUT0, EVTOUT1}

IntcOK ==
  /\ raw \subseteq Events /\ enabled \subseteq Events
  /\ cmr \in [Events -> Numbers] /\ hmr \in [Numbers -> Hosts]
  /\ hostOn \subseteq Hosts /\ ger \in BOOLEAN
  /\ irqs \in [ArmHosts -> Nat]

-----------------------------------------------------------------------------
\* PRUSS_INTC_INITDATA.
SysevtMap == << <<"pru0_pru1", One>>, <<"pru1_pru0", Zero>>, <<"pru0_arm", Two>>,
                <<"pru1_arm", Three>>, <<"arm_pru0", Zero>>, <<"arm_pru1", One>> >>
HostMap == << <<Zero, PRU0>>, <<One, PRU1>>, <<Two, EVTOUT0>>, <<Three, EVTOUT1>> >>
HostList == <<PRU0, PRU1, EVTOUT0, EVTOUT1>>

MappedTo(e) == CHOOSE n \in Numbers : \E i \in DOMAIN SysevtMap : SysevtMap[i] = <<e, n>>

\* prussdrv_pruintc_init, register write by register write.
W(reg, of, to) == [reg |-> reg, of |-> of, to |-> to]
Writes ==
     << W("cmr0", Zero, Zero) >>
  \o [i \in DOMAIN SysevtMap |-> W("cmr", SysevtMap[i][1], SysevtMap[i][2])]
  \o << W("hmr0", Zero, Zero) >>
  \o [i \in DOMAIN HostMap |-> W("hmr", HostMap[i][1], HostMap[i][2])]
  \o << W("esr", Zero, Zero), W("secr", Zero, Zero) >>
  \o [i \in DOMAIN HostList |-> W("hieisr", Zero, HostList[i])]
  \o << W("ger", Zero, Zero) >>

\* The mapping registers are zeroed, then or-ed into.
Remap(w) ==
  /\ cmr' = CASE w.reg = "cmr0" -> [e \in Events |-> Zero]
              [] w.reg = "cmr"  -> [cmr EXCEPT ![w.of] = @ \union w.to]
              [] OTHER          -> cmr
  /\ hmr' = CASE w.reg = "hmr0" -> [c \in Numbers |-> Zero]
              [] w.reg = "hmr"  -> [hmr EXCEPT ![w.of] = @ \union w.to]
              [] OTHER          -> hmr

\* Mutant: pending events are not cleared.
WriteKeepsEvents(w) ==
  /\ Remap(w)
  /\ enabled' = IF w.reg = "esr" THEN enabled \union Events ELSE enabled
  /\ hostOn' = IF w.reg = "hieisr" THEN hostOn \union {w.to} ELSE hostOn
  /\ ger' = (ger \/ w.reg = "ger")
  /\ UNCHANGED <<raw, irqs>>

Write(w) ==
  /\ Remap(w)
  /\ enabled' = IF w.reg = "esr" THEN enabled \union Events ELSE enabled
  /\ raw' = IF w.reg = "secr" THEN raw \ Events ELSE raw
  /\ hostOn' = IF w.reg = "hieisr" THEN hostOn \union {w.to} ELSE hostOn
  /\ ger' = (ger \/ w.reg = "ger")
  /\ UNCHANGED irqs

-----------------------------------------------------------------------------
\* The controller raises a host while an event mapped to it is pending.
Raised(h) ==
  /\ ger /\ h \in hostOn
  /\ \E e \in raw \intersect enabled : hmr[cmr[e]] = h

\* SRSR, or a PRU writing r31: the event is latched, once.
Raise(e) == raw' = raw \union {e} /\ UNCHANGED <<mapping, hostOn, irqs>>

\* SECR, or SICR written by a PRU.
Clear(e) == raw' = raw \ {e} /\ UNCHANGED <<mapping, hostOn, irqs>>

\* HIEISR.
EnableHost(h) == hostOn' = hostOn \union {h} /\ UNCHANGED <<raw, mapping, irqs>>

\* The kernel takes the interrupt of a host: it disables the host and counts.
Interrupt(h) ==
  /\ Raised(h)
  /\ hostOn' = hostOn \ {h}
  /\ irqs' = [irqs EXCEPT ![h] = @ + 1]
  /\ UNCHANGED <<raw, mapping>>

\* Before a program starts: the controller after reset, or as an earlier
\* program left it, with any events pending but no ARM interrupt outstanding.
AfterReset ==
  /\ enabled = {} /\ hostOn = {} /\ ger = FALSE
  /\ cmr = [e \in Events |-> Zero] /\ hmr = [c \in Numbers |-> Zero]

LeftOver ==
  /\ enabled = Events /\ ger = TRUE
  /\ cmr = [e \in Events |-> MappedTo(e)] /\ hmr = [c \in Numbers |-> c]
  /\ hostOn \in SUBSET Hosts
  /\ \A h \in ArmHosts : ~Raised(h)

IntcInit ==
  /\ raw \in SUBSET {"pru0_arm", "pru1_arm", "arm_pru0", "pru0_pru1", "pru1_pru0"}
  /\ AfterReset \/ LeftOver
  /\ irqs = [h \in ArmHosts |-> 0]
=============================================================================
