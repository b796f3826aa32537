------------------------------- MODULE VCharge -------------------------------
(***************************************************************************)
(* vcharged (src/common/apps/vcharge/vcharge.c and battery.c): tells the   *)
(* modem over /dev/vbpipe3 to start and to stop charging when a charger    *)
(* comes and goes, and takes the calibration of the battery from it.       *)
(*                                                                         *)
(* The kernel queues a uevent for every change of the supply, or drops it  *)
(* when the queue of the socket is full and marks the socket; the daemon   *)
(* looks at usb/online and ac/online one after the other once it has taken *)
(* one.  The phone has one connector: it passes through "none" between usb *)
(* and ac.  need_notify is not initialised before its first use.  The      *)
(* values of the calibration and of the switch point are left out; kept is *)
(* whether battery.c finds EINVAL in errno, which get_nv may have left.    *)
(* Bounds: MaxChanges of the supply, MaxFaults of the modem, the socket    *)
(* and the nodes.                                                          *)
(***************************************************************************)
EXTENDS Integers

CONSTANTS MaxChanges, MaxFaults

ASSUME VChargeAssumption == MaxChanges \in Nat /\ MaxFaults \in Nat

VARIABLES
  pc,
  pre_usb_online, pre_ac_online, usb_online,
  need_notify, need_start,
  einval,             \* errno = EINVAL
  buf,                \* shared by uevents and the answers of the modem
  nv,                 \* /data/.battery_nv: "missing", "empty", "good" or "bad"
  supply, events,     \* the connector and the uevents of the socket
  overrun,            \* a uevent was dropped: poll() gives POLLIN|POLLERR
  pipe, charging,     \* the modem: "up" or "broken", and what it was told
  misled,             \* history: the last command contradicts what was seen
  changes, faults

seen == <<pre_usb_online, pre_ac_online, usb_online, need_notify, need_start>>
kernel == <<supply, events, overrun, changes>>
modem == <<pipe, charging, misled>>
vars == <<pc, seen, einval, buf, nv, kernel, modem, faults>>

\* uevent_init comes before anything is read.
Init ==
  /\ pc = "open" /\ pre_usb_online = FALSE /\ pre_ac_online = FALSE /\ usb_online = FALSE
  /\ need_notify \in BOOLEAN /\ need_start = FALSE
  /\ einval = FALSE /\ buf = "empty" /\ nv \in {"missing", "good"}
  /\ supply \in {"none", "usb", "ac"} /\ events = 0 /\ overrun = FALSE
  /\ changes = 0 /\ faults = 0
  /\ pipe = "up" /\ charging = FALSE /\ misled = FALSE

Plugged == supply # "none"
Online == pre_usb_online \/ pre_ac_online

\* vcharge_write: the modem gets the command, or errno is set.
Sent(start) ==
  /\ charging' = IF pipe = "up" THEN start ELSE charging
  /\ UNCHANGED pipe

\* get_nv creates the file, and hands its value to the driver, which may
\* refuse it.
get_nv ==
  /\ nv' = IF nv = "missing" THEN "empty" ELSE nv
  /\ einval' = (nv = "bad" \/ (einval /\ pipe = "up"))

\* write_nv writes over the start of the file: what is left of a longer value
\* makes it a bad one.
write_nv ==
  /\ IF nv \in {"good", "bad"} THEN nv' \in {"good", "bad"}
     ELSE nv' = IF nv = "empty" THEN "good" ELSE nv
  /\ einval' = (einval /\ pipe = "up")

-----------------------------------------------------------------------------
(* The daemon.                                                              *)

\* open() may have failed a number of times, which sets errno.
Open ==
  /\ pc = "open" /\ pc' = "init_usb"
  /\ pipe' = "up" /\ einval' \in {einval, FALSE}
  /\ UNCHANGED <<seen, buf, nv, kernel, charging, misled, faults>>

InitUsb ==
  /\ pc = "init_usb" /\ pc' = "init_ac"
  /\ pre_usb_online' = (supply = "usb")
  /\ UNCHANGED <<pre_ac_online, usb_online, need_notify, need_start, einval, buf, nv, kernel,
                 modem, faults>>

InitAc ==
  /\ pc = "init_ac" /\ pc' = "first"
  /\ pre_ac_online' = (supply = "ac")
  /\ UNCHANGED <<pre_usb_online, usb_online, need_notify, need_start, einval, buf, nv, kernel,
                 modem, faults>>

\* Mutant of FirstCommand: nothing is sent for a charger that is already there.
FirstCommand_NoStart ==
  /\ pc = "first" /\ pc' = "ask"
  /\ UNCHANGED <<seen, einval, buf, nv, kernel, modem, faults>>

\* No command is sent when no charger is there, also to a modem that charges.
FirstCommand ==
  /\ pc = "first"
  /\ IF Online
     THEN /\ Sent(TRUE) /\ get_nv /\ misled' = FALSE
          /\ pc' = IF pipe = "up" THEN "ask" ELSE "err"
     ELSE /\ pc' = "ask" /\ misled' = charging
          /\ UNCHANGED <<pipe, charging, nv, einval>>
  /\ UNCHANGED <<seen, buf, kernel, faults>>

\* battery_calibration
AskAdc ==
  /\ pc = "ask"
  /\ pc' = IF pipe = "up" THEN "answer" ELSE "err"
  /\ einval' = (einval /\ pipe = "up")
  /\ UNCHANGED <<seen, buf, nv, kernel, modem, faults>>

\* parse_data: fails if errno is EINVAL.
ReadAnswer ==
  /\ pc = "answer" /\ pipe = "up"
  /\ buf' = "answer" /\ pc' = IF einval THEN "err" ELSE "update"
  /\ UNCHANGED <<seen, einval, nv, kernel, modem, faults>>

\* An answer that does not have the form.
ReadGarbage ==
  /\ pc = "answer" /\ pipe = "up" /\ faults < MaxFaults /\ faults' = faults + 1
  /\ buf' = "garbage" /\ pc' = "err"
  /\ UNCHANGED <<seen, einval, nv, kernel, modem>>

\* read() fails, or returns 0: an earlier answer in buf is then parsed again.
ReadBroken ==
  /\ pc = "answer" /\ pipe = "broken"
  /\ \/ pc' = "err" /\ einval' = FALSE
     \/ pc' = (IF buf = "answer" /\ ~einval THEN "update" ELSE "err") /\ UNCHANGED einval
  /\ UNCHANGED <<seen, buf, nv, kernel, modem, faults>>

\* update_battery_node, tried until the nodes are there.
UpdateFails ==
  /\ pc = "update" /\ faults < MaxFaults /\ faults' = faults + 1
  /\ UNCHANGED <<pc, seen, einval, buf, nv, kernel, modem>>

UpdateDone ==
  /\ pc = "update" /\ pc' = "wait"
  /\ UNCHANGED <<seen, einval, buf, nv, kernel, modem, faults>>

\* uevent_next_event: poll() must give POLLIN and nothing else.  Once the socket
\* is marked it never does, and the loop spins.
NextEvent ==
  /\ pc = "wait" /\ events > 0 /\ ~overrun /\ pc' = "recv"
  /\ UNCHANGED <<seen, einval, buf, nv, kernel, modem, faults>>

\* recv() takes a uevent.  A mark set since poll() makes it fail, and is gone.
Recv ==
  /\ pc = "recv" /\ overrun' = FALSE
  /\ IF overrun THEN pc' = "wait" /\ UNCHANGED <<events, buf>>
     ELSE events > 0 /\ events' = events - 1 /\ buf' = "event" /\ pc' = "usb"
  /\ UNCHANGED <<seen, einval, nv, supply, changes, modem, faults>>

LookUsb ==
  /\ pc = "usb" /\ pc' = "ac"
  /\ usb_online' = (supply = "usb")
  /\ UNCHANGED <<pre_usb_online, pre_ac_online, need_notify, need_start, einval, buf, nv, kernel,
                 modem, faults>>

\* A change of ac decides over a change of usb.
LookAc ==
  LET ac_online == supply = "ac"
      usbChanged == usb_online # pre_usb_online
      acChanged == ac_online # pre_ac_online
  IN /\ pc = "ac" /\ pc' = "notify"
     /\ pre_usb_online' = usb_online /\ pre_ac_online' = ac_online
     /\ need_notify' = (need_notify \/ usbChanged \/ acChanged)
     /\ need_start' = IF acChanged THEN ac_online
                      ELSE IF usbChanged THEN usb_online ELSE need_start
     /\ UNCHANGED <<usb_online, einval, buf, nv, kernel, modem, faults>>

\* Mutant of Notify: the uevents that came since are thrown away.
Notify_Drains ==
  /\ pc = "notify" /\ events' = 0 /\ need_notify' = FALSE
  /\ IF need_notify
     THEN /\ Sent(need_start) /\ (IF need_start THEN get_nv ELSE write_nv)
          /\ misled' = (need_start # Online)
          /\ pc' = IF pipe = "up" THEN "wait" ELSE "err"
     ELSE pc' = "wait" /\ UNCHANGED <<nv, einval, modem>>
  /\ UNCHANGED <<pre_usb_online, pre_ac_online, usb_online, need_start, buf, supply, overrun,
                 changes, faults>>

Notify ==
  /\ pc = "notify" /\ need_notify' = FALSE
  /\ IF need_notify
     THEN /\ Sent(need_start) /\ (IF need_start THEN get_nv ELSE write_nv)
          /\ misled' = (need_start # Online)
          /\ pc' = IF pipe = "up" THEN "wait" ELSE "err"
     ELSE pc' = "wait" /\ UNCHANGED <<nv, einval, modem>>
  /\ UNCHANGED <<pre_usb_online, pre_ac_online, usb_online, need_start, buf, kernel, faults>>

\* Mutant of err_handle: the daemon, a oneshot service, ends.
err_handle_Exits ==
  /\ pc = "err" /\ pc' = "exited"
  /\ UNCHANGED <<seen, einval, buf, nv, kernel, modem, faults>>

err_handle ==
  /\ pc = "err" /\ pc' = "open"
  /\ UNCHANGED <<seen, einval, buf, nv, kernel, modem, faults>>

\* What the daemon does without waiting for the modem.
Daemon ==
  \/ Open \/ InitUsb \/ InitAc \/ FirstCommand
  \/ AskAdc \/ ReadBroken \/ UpdateFails \/ UpdateDone
  \/ NextEvent \/ Recv \/ LookUsb \/ LookAc \/ Notify \/ err_handle

-----------------------------------------------------------------------------
(* The environment.                                                         *)

\* The supply changes.  A queue that is full is not empty.
Plug ==
  /\ changes < MaxChanges /\ changes' = changes + 1
  /\ supply' \in IF Plugged THEN {"none"} ELSE {"usb", "ac"}
  /\ \/ events' = events + 1 /\ UNCHANGED <<overrun, faults>>
     \/ /\ events > 0 /\ faults < MaxFaults /\ faults' = faults + 1
        /\ overrun' = TRUE /\ UNCHANGED events
  /\ UNCHANGED <<pc, seen, einval, buf, nv, modem>>

\* A restarted modem has forgotten the command; the pipe fails until it is
\* opened again.
ModemRestarts ==
  /\ pipe = "up" /\ faults < MaxFaults /\ faults' = faults + 1
  /\ pipe' = "broken" /\ charging' = FALSE
  /\ UNCHANGED <<pc, seen, einval, buf, nv, kernel, misled>>

Next == Daemon \/ ReadAnswer \/ ReadGarbage \/ Plug \/ ModemRestarts

Spec == Init /\ [][Next]_vars

\* The daemon goes on; nothing is assumed of the connector and the modem, which
\* may never answer.
FairSpec == Spec /\ WF_vars(Daemon)

-----------------------------------------------------------------------------
(* Properties.                                                             *)

FlagsOK ==
  /\ pre_usb_online \in BOOLEAN /\ pre_ac_online \in BOOLEAN /\ usb_online \in BOOLEAN
  /\ need_notify \in BOOLEAN /\ need_start \in BOOLEAN /\ einval \in BOOLEAN
  /\ charging \in BOOLEAN /\ misled \in BOOLEAN /\ overrun \in BOOLEAN

TypeOK ==
  /\ pc \in {"open", "init_usb", "init_ac", "first", "ask", "answer", "update", "wait",
             "recv", "usb", "ac", "notify", "err"}
  /\ FlagsOK
  /\ buf \in {"empty", "answer", "garbage", "event"} /\ nv \in {"missing", "empty", "good", "bad"}
  /\ supply \in {"none", "usb", "ac"} /\ pipe \in {"up", "broken"}
  /\ changes \in 0..MaxChanges /\ events \in 0..changes /\ faults \in 0..MaxFaults

\* When vcharged waits and the kernel has no more to tell it knows what is
\* plugged in, whatever changed between the two files it reads, during a
\* calibration or while it reopened the pipe (vcharge.c lines 46-96).
KnowsSupply ==
  pc = "wait" /\ events = 0 =>
    pre_usb_online = (supply = "usb") /\ pre_ac_online = (supply = "ac")

\* The modem then charges if and only if a charger is plugged in (vcharge.c
\* lines 60-113), except where the code has no defence: a restart of the modem
\* that it has not noticed, a command that contradicts what it has seen (usb
\* taken for ac at one look, need_notify not initialised), and a charger that
\* went while the pipe was being reopened.
ChargeFollows ==
  pc = "wait" /\ events = 0 /\ pipe = "up" /\ ~misled => charging = Plugged

\* What keeps the two above.  What was read is what is plugged in, unless a
\* uevent is still to come or the daemon is about to look again: ...
UsbSeen == events = 0 /\ pc \notin {"open", "init_usb", "usb", "ac", "err"} =>
             pre_usb_online = (supply = "usb")
AcSeen == events = 0 /\ pc \notin {"open", "init_usb", "init_ac", "usb", "ac", "err"} =>
            pre_ac_online = (supply = "ac")
UsbLooked == events = 0 /\ pc = "ac" => usb_online = (supply = "usb")
\* ... and the modem was told so, or is about to be.
ModemTold ==
  /\ pc \in {"ask", "answer", "update", "wait", "recv", "usb", "ac", "notify"}
  /\ pc = "notify" => ~need_notify
  /\ pipe = "up" /\ ~misled
  => charging = Online

\* The inductive invariant of vcharged.
ChargeInv == TypeOK /\ UsbSeen /\ AcSeen /\ UsbLooked /\ ModemTold

\* Where the daemon stays for good: in vcharge_read, which has no timeout,
\* before a modem that does not answer (vcharge.c line 332); in the loop of
\* uevent_next_event on a marked socket (line 164); and where parse_data refuses
\* every answer for the EINVAL of get_nv in errno (battery.c line 32), which a
\* refused value in the file brings back whenever the pipe is opened.
Stuck ==
  \/ pc = "answer" /\ pipe = "up"
  \/ pc = "wait" /\ overrun
  \/ /\ pc \in {"open", "init_usb", "init_ac", "first", "ask", "answer", "err"}
     /\ einval \/ (nv = "bad" /\ Online)

\* Every change of the supply is looked at in the end, through broken pipes,
\* unusable answers, missing nodes and dropped uevents, unless the daemon is
\* stuck for ever in one of those places (vcharge.c lines 46-118).
EventsServed == [](events > 0 => <>(events = 0) \/ <>[]Stuck)
=============================================================================
