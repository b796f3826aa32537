---------------------------- MODULE VChargeProofs ----------------------------
(***************************************************************************)
(* Proofs about VCharge for every number of changes of the supply and of   *)
(* faults.                                                                 *)
(***************************************************************************)
EXTENDS VCharge, TLAPS

\* The daemon before it has looked at anything.
LEMMA InitInv == Init => ChargeInv
<1> SUFFICES ASSUME Init PROVE ChargeInv
  OBVIOUS
<1>1. TypeOK
  <2>1. changes \in 0..MaxChanges /\ events \in 0..changes /\ faults \in 0..MaxFaults
    BY VChargeAssumption, SMT DEF Init
  <2>2. FlagsOK
    BY Zenon DEF Init, FlagsOK
  <2> QED BY <2>1, <2>2 DEF Init, TypeOK
<1>2. UsbSeen /\ AcSeen /\ UsbLooked
  BY DEF Init, UsbSeen, AcSeen, UsbLooked
<1>3. ModemTold
  BY DEF Init, ModemTold
<1> QED BY <1>1, <1>2, <1>3 DEF ChargeInv

\* A change of the supply leaves an event that is still to come, its own or,
\* when that is dropped, one of the full queue.
LEMMA PlugInv == ChargeInv /\ Plug => ChargeInv'
<1> SUFFICES ASSUME ChargeInv, Plug PROVE ChargeInv'
  OBVIOUS
<1> USE VChargeAssumption DEF Plug, seen, modem, ChargeInv
<1>1. FlagsOK'
  BY DEF TypeOK, FlagsOK
<1>a. events' > 0 /\ events' \in 0..changes' /\ faults' \in 0..MaxFaults
  BY DEF TypeOK
<1>2. TypeOK'
  BY <1>1, <1>a DEF TypeOK
<1>3. ModemTold'
  BY DEF ModemTold, Online
<1> QED BY <1>a, <1>2, <1>3 DEF UsbSeen, AcSeen, UsbLooked

\* Looking at the supply, before the loop and after a uevent.
LEMMA LooksInv ==
  ASSUME ChargeInv, InitUsb \/ InitAc \/ NextEvent \/ Recv \/ LookUsb \/ LookAc
  PROVE  ChargeInv'
<1> USE DEF InitUsb, InitAc, NextEvent, Recv, LookUsb, LookAc, seen, kernel, modem, ChargeInv
<1>1. FlagsOK'
  BY DEF TypeOK, FlagsOK
<1>2. TypeOK'
  BY <1>1, VChargeAssumption DEF TypeOK
<1>3. UsbSeen' /\ AcSeen' /\ UsbLooked'
  BY DEF TypeOK, UsbSeen, AcSeen, UsbLooked
<1>4. ModemTold'
  BY DEF TypeOK, FlagsOK, ModemTold, Online
<1> QED BY <1>2, <1>3, <1>4

\* The commands to the modem: what is told is what was seen, or it is misled.
LEMMA CommandsInv ==
  ASSUME ChargeInv, FirstCommand \/ Notify
  PROVE  ChargeInv'
<1> USE DEF FirstCommand, Notify, seen, kernel,
        modem, ChargeInv
<1>1. FlagsOK'
  BY DEF TypeOK, FlagsOK, Sent, get_nv, write_nv, Online
<1>2. TypeOK'
  BY <1>1, VChargeAssumption DEF TypeOK, Sent, get_nv, write_nv
<1>3. UsbSeen' /\ AcSeen' /\ UsbLooked'
  BY DEF TypeOK, UsbSeen, AcSeen, UsbLooked
<1>4. ModemTold'
  BY DEF TypeOK, FlagsOK, ModemTold, Online, Sent
<1> QED BY <1>2, <1>3, <1>4

\* The calibration changes neither what was seen nor what was told.
LEMMA CalibratesInv ==
  ASSUME ChargeInv, AskAdc \/ ReadAnswer \/ ReadGarbage \/ ReadBroken \/ UpdateFails \/ UpdateDone
  PROVE  ChargeInv'
<1> USE DEF AskAdc, ReadAnswer, ReadGarbage, ReadBroken, UpdateFails, UpdateDone, seen, kernel,
            modem, ChargeInv
<1>1. FlagsOK'
  BY DEF TypeOK, FlagsOK
<1>2. TypeOK'
  BY <1>1, VChargeAssumption DEF TypeOK
<1>3. UsbSeen' /\ AcSeen' /\ UsbLooked'
  BY DEF TypeOK, UsbSeen, AcSeen, UsbLooked
<1>4. ModemTold'
  BY DEF TypeOK, FlagsOK, ModemTold, Online
<1> QED BY <1>2, <1>3, <1>4

\* A broken pipe is opened again and everything is looked at anew.
LEMMA ReopensInv ==
  ASSUME ChargeInv, Open \/ err_handle \/ ModemRestarts
  PROVE  ChargeInv'
<1> USE DEF Open, err_handle, ModemRestarts, seen, kernel, modem, ChargeInv
<1>1. FlagsOK'
  BY DEF TypeOK, FlagsOK
<1>2. TypeOK'
  <2>1. CASE Open \/ err_handle
    BY <1>1, <2>1 DEF TypeOK
  <2>2. CASE ModemRestarts
    BY <1>1, <2>2, VChargeAssumption DEF TypeOK
  <2> QED BY <2>1, <2>2
<1>3. UsbSeen' /\ AcSeen' /\ UsbLooked'
  BY DEF TypeOK, UsbSeen, AcSeen, UsbLooked
<1>4. ModemTold'
  BY DEF TypeOK, FlagsOK, ModemTold, Online
<1> QED BY <1>2, <1>3, <1>4

\* Every step keeps the invariant.
LEMMA NextInv == ChargeInv /\ [Next]_vars => ChargeInv'
<1> SUFFICES ASSUME ChargeInv, [Next]_vars PROVE ChargeInv'
  OBVIOUS
<1>1. CASE UNCHANGED vars
  BY <1>1 DEF vars, seen, kernel, modem, ChargeInv, TypeOK, FlagsOK, UsbSeen, AcSeen, UsbLooked,
              ModemTold, Online
<1> QED BY <1>1, PlugInv, LooksInv, CommandsInv, CalibratesInv, ReopensInv DEF Next, Daemon

\* The inductive invariant holds in every behaviour.
THEOREM ChargeInvariant == Spec => []ChargeInv
  BY InitInv, NextInv, PTL DEF Spec

\* vcharged knows what is plugged in when it waits and no uevent is left,
\* however the supply changed between the two files it reads (vcharge.c lines
\* 46-96).
THEOREM SupplyKnown == Spec => []KnowsSupply
<1>1. ChargeInv => KnowsSupply
  BY DEF ChargeInv, UsbSeen, AcSeen, KnowsSupply
<1> QED BY <1>1, ChargeInvariant, PTL

\* The modem charges if and only if a charger is there, outside the cases
\* ChargeFollows names (vcharge.c lines 60-113).
THEOREM ChargeCorrect == Spec => []ChargeFollows
<1>1. ChargeInv => ChargeFollows
  <2> SUFFICES ASSUME ChargeInv, pc = "wait", events = 0, pipe = "up", ~misled
               PROVE  charging = Plugged
    BY DEF ChargeFollows
  <2>1. charging = Online
    BY DEF ChargeInv, ModemTold
  <2>2. pre_usb_online = (supply = "usb") /\ pre_ac_online = (supply = "ac")
    BY DEF ChargeInv, UsbSeen, AcSeen
  <2>3. supply \in {"none", "usb", "ac"}
    BY DEF ChargeInv, TypeOK
  <2> QED BY <2>1, <2>2, <2>3 DEF Online, Plugged
<1> QED BY <1>1, ChargeInvariant, PTL
=============================================================================
