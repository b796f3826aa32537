------------------------------- MODULE AudioHw -------------------------------
(***************************************************************************)
(* The audio HAL (src/common/libs/audio/audio_hw.c, with                   *)
(* vb_control_parameters.c): one output and one input stream, the voice    *)
(* call the modem (cp) controls over /dev/vbpipe6, and the thread that     *)
(* applies the devices to the mixer.                                       *)
(*                                                                         *)
(* Threads: "play" calls the output stream, "rec" the input stream, "call" *)
(* is vbc_ctrl_thread_routine; the routing thread has its own variables.   *)
(* Locks: adev->lock (adev), in->lock (inl), out->lock (outl).  What       *)
(* device_lock protects is one step here.  A step is what a thread does    *)
(* between two points where it waits, or where it touches state without    *)
(* the lock that protects it: out_write reads call_connected, and in_read  *)
(* and out_write go to standby, after they have released adev->lock.  A    *)
(* thread that waits for adev->lock before its first step holds no lock    *)
(* and has changed nothing: its call starts when it gets it.               *)
(*                                                                         *)
(* Built as for this board: no _VOICE_CALL_VIA_LINEIN.  Sound, volumes,    *)
(* mutes and resamplers are left out; the input has an echo canceller, and *)
(* mediaserver is not restarted during a call.                             *)
(* Bound: no call starts with MaxSem signals to the routing thread pending.*)
(***************************************************************************)
EXTENDS Integers

CONSTANTS
  MaxSem,
  OutRoutes,  \* routes given to the output: "speaker", "sco", "none"
  InDevices   \* devices given to the input: "mic", "voice"

ASSUME AudioAssumption ==
  /\ MaxSem \in Nat \ {0}
  /\ OutRoutes \subseteq {"speaker", "sco", "none"} /\ InDevices \subseteq {"mic", "voice"}

Threads == {"play", "rec", "call"}
Devices == [out : OutRoutes \cup {"speaker", "none"}, in : InDevices \cup {"none"}]
NoDevice == [out |-> "none", in |-> "none"]

VARIABLES
  pc, op,           \* per thread: where it is, and the call or command it carries out
  tmp,              \* per thread: devices it has read and is about to write
  adev, inl, outl,  \* owners of the locks
  mode, devices,
  routed,           \* the mixer has what devices says
  sem,              \* device_switch_sem
  call_start, call_connected, call_prestop, is_exit,
  vbc_2arm,         \* private_ctl.vbc_switch
  active_output, o_standby, o_pcm,
  active_input, i_standby, i_pcm, i_device,
  echo_reference,   \* adev->echo_reference and in->echo_reference, set together
  rpc, cur_devices, \* routing thread
  cp                \* a call of the modem is up

\* Where each thread can be, and what it can be carrying out.
PlayPlaces == {"idle", "out", "started", "writing", "w_mm", "w_voice", "set", "o1", "ov", "o2"}
RecPlaces == {"idle", "in", "echo", "open", "failed", "reading", "i1", "i2", "i3"}
CallPlaces ==
  {"idle", "adev", "f_out", "o1", "ov", "o2", "f_in", "i1", "i2", "i3", "f_done", "rsp"}
Places == PlayPlaces \cup RecPlaces \cup CallPlaces
Operations ==
  OutRoutes \cup {"none", "write", "standby", "read", "open", "close", "switch", "eof"}

threadVars == <<pc, op, tmp>>
locks == <<adev, inl, outl>>
routeVars == <<mode, devices, routed, sem>>
callVars == <<call_start, call_connected, call_prestop, is_exit, vbc_2arm, cp>>
outVars == <<active_output, o_standby, o_pcm>>
inVars == <<active_input, i_standby, i_pcm, i_device, echo_reference>>
routing == <<rpc, cur_devices>>
vars == <<threadVars, locks, routeVars, callVars, outVars, inVars, routing>>

\* adev_open, while no call is up.  Its select_devices_signal is lost: it comes
\* before the routing thread's sem_init.
Init ==
  /\ pc = [t \in Threads |-> "idle"] /\ op = [t \in Threads |-> "none"]
  /\ tmp = [t \in Threads |-> NoDevice]
  /\ adev = "free" /\ inl = "free" /\ outl = "free"
  /\ mode = "normal" /\ devices = [out |-> "speaker", in |-> "none"] /\ sem = 0
  /\ call_start = FALSE /\ call_connected = FALSE /\ call_prestop = FALSE /\ is_exit = FALSE
  /\ cp = FALSE /\ vbc_2arm = TRUE
  /\ active_output = FALSE /\ o_standby = TRUE /\ o_pcm = "none"
  /\ active_input = FALSE /\ i_standby = TRUE /\ i_pcm = "none"
  /\ i_device \in InDevices /\ echo_reference = FALSE
  /\ rpc = "wait" /\ cur_devices = NoDevice /\ routed = FALSE

Goto(t, label) == pc' = [pc EXCEPT ![t] = label]
Free(lock, t) == IF lock = t THEN "free" ELSE lock
\* A stream's call returns: its locks are released.
Return(t) ==
  /\ Goto(t, "idle") /\ op' = [op EXCEPT ![t] = "none"]
  /\ adev' = Free(adev, t) /\ inl' = Free(inl, t) /\ outl' = Free(outl, t)

\* select_devices_signal
Post == sem' = sem + 1

\* adev->devices gets a value; the mixer keeps the old one until the routing thread
\* sets it.  Of the mixer only this is kept: whether it has been set to devices
\* since they last changed.
SetDevices(d) == devices' = d /\ routed' = (routed /\ d = devices)

-----------------------------------------------------------------------------
(* do_output_standby, by a thread that holds out->lock.                     *)

\* The codec's device is closed and active_output cleared ...
OutClose(t) ==
  /\ pc[t] = "o1" /\ Goto(t, "ov")
  /\ o_pcm' = (IF o_pcm = "mm" THEN "none" ELSE o_pcm) /\ active_output' = FALSE
  /\ UNCHANGED <<op, tmp, locks, routeVars, callVars, o_standby, inVars, routing>>

\* ... before the modem's is closed: out_write comes here without adev->lock.
OutCloseVoice(t) ==
  /\ pc[t] = "ov" /\ Goto(t, "o2") /\ o_pcm' = "none"
  /\ UNCHANGED <<op, tmp, locks, routeVars, callVars, active_output, o_standby, inVars, routing>>

\* Mutant of OutStandby: force_all_standby keeps out->lock.
OutStandby_KeepsLock(t) ==
  /\ pc[t] = "o2" /\ o_standby' = TRUE
  /\ IF t = "call" THEN Goto(t, "f_in") /\ UNCHANGED <<op, locks>> ELSE Return(t)
  /\ UNCHANGED <<tmp, routeVars, callVars, active_output, o_pcm, inVars, routing>>

OutStandby(t) ==
  /\ pc[t] = "o2" /\ o_standby' = TRUE
  /\ IF t = "call" THEN Goto(t, "f_in") /\ outl' = "free" /\ UNCHANGED <<op, adev, inl>>
     ELSE Return(t)
  /\ UNCHANGED <<tmp, routeVars, callVars, active_output, o_pcm, inVars, routing>>

(* do_input_standby, by a thread that holds in->lock.  devices is read and   *)
(* written in two steps: in_read comes here without adev->lock.              *)

InClose(t) ==
  /\ pc[t] = "i1"
  /\ i_pcm' = "none" /\ active_input' = FALSE
  /\ IF mode # "call" THEN Goto(t, "i2") /\ tmp' = [tmp EXCEPT ![t] = devices]
     ELSE Goto(t, "i3") /\ UNCHANGED tmp
  /\ UNCHANGED <<op, locks, routeVars, callVars, outVars, i_standby, i_device, echo_reference,
                 routing>>

InDevicesOff(t) ==
  /\ pc[t] = "i2" /\ Goto(t, "i3")
  /\ SetDevices([tmp[t] EXCEPT !.in = "none"]) /\ Post
  /\ tmp' = [tmp EXCEPT ![t] = NoDevice]
  /\ UNCHANGED <<op, locks, mode, callVars, outVars, inVars, routing>>

\* put_echo_reference: remove_echo_reference takes and releases the lock of an
\* active output.
InStandby(t) ==
  /\ pc[t] = "i3" /\ (echo_reference /\ active_output => outl = "free")
  /\ echo_reference' = FALSE /\ i_standby' = TRUE
  /\ IF t = "call" THEN Goto(t, "f_done") /\ inl' = "free" /\ UNCHANGED <<op, adev, outl>>
     ELSE Return(t)
  /\ UNCHANGED <<tmp, routeVars, callVars, outVars, active_input, i_pcm, i_device, routing>>

DoStandby(t) ==
  \/ OutClose(t) \/ OutCloseVoice(t) \/ OutStandby(t)
  \/ InClose(t) \/ InDevicesOff(t) \/ InStandby(t)

-----------------------------------------------------------------------------
(* The output stream.                                                       *)

unchangedPlay == <<tmp, mode, devices, routed, callVars, inVars, routing>>

\* A call of the output stream, up to adev->lock: out_write, out_standby or
\* out_set_parameters with a route.
OutCall ==
  /\ pc["play"] = "idle" /\ sem < MaxSem /\ adev = "free"
  /\ \E o \in {"write", "standby"} \cup OutRoutes : op' = [op EXCEPT !["play"] = o]
  /\ Goto("play", "out") /\ adev' = "play"
  /\ UNCHANGED <<unchangedPlay, inl, outl, sem, outVars>>

OutLocked(o) == pc["play"] = "out" /\ outl = "free" /\ op["play"] = o

out_bypass_data ==
  \/ ~call_start /\ (devices.out = "sco" \/ ~vbc_2arm)
  \/ call_start /\ ~call_connected
  \/ call_prestop

WriteBypassed ==
  /\ OutLocked("write") /\ out_bypass_data /\ Return("play")
  /\ UNCHANGED <<unchangedPlay, sem, outVars>>

\* Both locks are held, adev->lock is released.
Writing(label) ==
  /\ Goto("play", label) /\ outl' = "play" /\ adev' = "free" /\ UNCHANGED <<op, inl>>

\* Mutant of start_output_stream: the routing thread is not told.
start_output_stream_NoSignal(pcm) ==
  /\ o_pcm' = pcm /\ active_output' = (call_connected \/ pcm # "none") /\ UNCHANGED sem

\* A voice device that cannot be opened is no error.
start_output_stream(pcm) ==
  /\ o_pcm' = pcm /\ active_output' = (call_connected \/ pcm # "none")
  /\ IF call_start THEN UNCHANGED sem ELSE Post

WriteStarts ==
  /\ OutLocked("write") /\ ~out_bypass_data /\ o_standby
  /\ \E pcm \in {IF call_connected THEN "voice" ELSE "mm", "none"} :
       /\ start_output_stream(pcm)
       /\ IF pcm = "none" /\ ~call_connected THEN Return("play") /\ UNCHANGED o_standby
          ELSE Writing("started") /\ o_standby' = FALSE
  /\ UNCHANGED unchangedPlay

WriteGoesOn ==
  /\ OutLocked("write") /\ ~out_bypass_data /\ ~o_standby /\ Writing("writing")
  /\ UNCHANGED <<unchangedPlay, sem, outVars>>

\* The test of call_connected, without adev->lock.  In a call without a voice
\* device out_write sleeps, and then fails unless it has just started (ret = 0).
WriteTests ==
  /\ pc["play"] \in {"started", "writing"}
  /\ IF ~call_connected THEN Goto("play", "w_mm") /\ UNCHANGED <<op, locks>>
     ELSE IF o_pcm = "voice" THEN Goto("play", "w_voice") /\ UNCHANGED <<op, locks>>
     ELSE IF pc["play"] = "started" THEN Return("play")
     ELSE Goto("play", "o1") /\ UNCHANGED <<op, locks>>
  /\ UNCHANGED <<unchangedPlay, sem, outVars>>

WriteDone ==
  /\ pc["play"] \in {"w_mm", "w_voice"} /\ Return("play")
  /\ UNCHANGED <<unchangedPlay, sem, outVars>>

\* The write fails: do_output_standby, with out->lock only.
WriteFails ==
  /\ pc["play"] \in {"w_mm", "w_voice"} /\ Goto("play", "o1")
  /\ UNCHANGED <<unchangedPlay, op, locks, sem, outVars>>

out_standby ==
  /\ OutLocked("standby")
  /\ IF o_standby THEN Return("play")
     ELSE Goto("play", "o1") /\ outl' = "play" /\ UNCHANGED <<op, adev, inl>>
  /\ UNCHANGED <<unchangedPlay, sem, outVars>>

\* out_set_parameters with a route: devices is read ...
out_set_parameters(v) ==
  /\ OutLocked(v)
  /\ IF (devices.out # v /\ v # "none") \/ mode = "call"
     THEN /\ Goto("play", "set") /\ outl' = "play" /\ tmp' = [tmp EXCEPT !["play"] = devices]
          /\ UNCHANGED <<op, adev, inl>>
     ELSE Return("play") /\ UNCHANGED tmp
  /\ UNCHANGED <<routeVars, callVars, outVars, inVars, routing>>

\* ... and written.
SetOutDevice ==
  /\ pc["play"] = "set" /\ Return("play")
  /\ SetDevices([tmp["play"] EXCEPT !.out = op["play"]])
  /\ IF call_start THEN UNCHANGED sem ELSE Post
  /\ tmp' = [tmp EXCEPT !["play"] = NoDevice]
  /\ UNCHANGED <<mode, callVars, outVars, inVars, routing>>

Play ==
  \/ OutCall \/ WriteBypassed \/ WriteStarts \/ WriteGoesOn \/ WriteTests \/ WriteDone
  \/ WriteFails \/ out_standby \/ SetOutDevice \/ \E v \in OutRoutes : out_set_parameters(v)

-----------------------------------------------------------------------------
(* The input stream.                                                        *)

unchangedRec == <<tmp, mode, callVars, outVars, routing>>

\* A call of the input stream, up to adev->lock: in_read, or in_standby and the
\* standby of in_add_audio_effect and in_remove_audio_effect.
InCall ==
  /\ pc["rec"] = "idle" /\ sem < MaxSem /\ adev = "free"
  /\ \E o \in {"read", "standby"} : op' = [op EXCEPT !["rec"] = o]
  /\ Goto("rec", "in") /\ adev' = "rec"
  /\ UNCHANGED <<unchangedRec, inl, outl, devices, routed, sem, inVars>>

InLocked(o) == pc["rec"] = "in" /\ inl = "free" /\ op["rec"] = o
TakeIn(label) == Goto("rec", label) /\ inl' = "rec" /\ UNCHANGED <<op, adev, outl>>

in_bypass_data == ~call_start /\ mode = "call" /\ i_device = "voice"

ReadBypassed ==
  /\ InLocked("read") /\ in_bypass_data /\ Return("rec")
  /\ UNCHANGED <<unchangedRec, devices, routed, sem, inVars>>

\* start_input_stream up to get_echo_reference ...
start_input_stream ==
  /\ InLocked("read") /\ ~in_bypass_data /\ i_standby
  /\ active_input' = TRUE
  /\ IF call_start THEN UNCHANGED <<devices, routed, sem>>
     ELSE SetDevices([devices EXCEPT !.in = i_device]) /\ Post
  /\ TakeIn("echo")
  /\ UNCHANGED <<unchangedRec, i_standby, i_pcm, i_device, echo_reference>>

\* ... which tells an active output of it under out->lock ...
get_echo_reference ==
  /\ pc["rec"] = "echo" /\ Goto("rec", "open")
  /\ IF echo_reference \/ ~active_output THEN UNCHANGED echo_reference
     ELSE outl = "free" /\ echo_reference' \in BOOLEAN
  /\ UNCHANGED <<unchangedRec, op, locks, devices, routed, sem, active_input, i_standby, i_pcm,
                 i_device>>

\* ... and the device is opened, or cannot be.
OpenInput ==
  /\ pc["rec"] = "open" /\ adev' = "free"
  /\ \/ /\ Goto("rec", "reading") /\ UNCHANGED active_input
        /\ i_standby' = FALSE /\ i_pcm' = IF call_start THEN "voice" ELSE "mic"
     \/ Goto("rec", "failed") /\ active_input' = FALSE /\ UNCHANGED <<i_standby, i_pcm>>
  /\ UNCHANGED <<unchangedRec, op, inl, outl, devices, routed, sem, i_device, echo_reference>>

ReadGoesOn ==
  /\ InLocked("read") /\ ~in_bypass_data /\ ~i_standby
  /\ Goto("rec", "reading") /\ inl' = "rec" /\ adev' = "free" /\ UNCHANGED <<op, outl>>
  /\ UNCHANGED <<unchangedRec, devices, routed, sem, inVars>>

ReadDone ==
  /\ pc["rec"] = "reading" /\ Return("rec")
  /\ UNCHANGED <<unchangedRec, devices, routed, sem, inVars>>

\* The read or the start fails: do_input_standby, with in->lock only, which
\* leaves a stream that is in standby alone.
ReadFails ==
  /\ pc["rec"] \in {"reading", "failed"}
  /\ IF i_standby THEN Return("rec") ELSE Goto("rec", "i1") /\ UNCHANGED <<op, locks>>
  /\ UNCHANGED <<unchangedRec, devices, routed, sem, inVars>>

in_standby ==
  /\ InLocked("standby")
  /\ IF i_standby THEN Return("rec") ELSE TakeIn("i1")
  /\ UNCHANGED <<unchangedRec, devices, routed, sem, inVars>>

\* With adev->lock in->lock is free: it is held by this thread or under adev->lock.
in_set_parameters ==
  /\ pc["rec"] = "idle" /\ adev = "free" /\ sem < MaxSem
  /\ \E v \in InDevices \ {i_device} :
       i_device' = v /\ SetDevices([devices EXCEPT !.in = v])
  /\ Post
  /\ UNCHANGED <<unchangedRec, pc, op, locks, active_input, i_standby, i_pcm, echo_reference>>

Rec ==
  \/ InCall \/ ReadBypassed \/ start_input_stream \/ get_echo_reference \/ OpenInput
  \/ ReadGoesOn \/ ReadDone \/ ReadFails \/ in_standby \/ in_set_parameters

-----------------------------------------------------------------------------
(* vbc_ctrl_thread_routine.                                                 *)

unchangedCall == <<tmp, inl, outl, mode, devices, sem, outVars, inVars, routing>>

Command == pc["call"] = "idle" /\ ~is_exit
Handle(o) == op' = [op EXCEPT !["call"] = o] /\ Goto("call", "adev")
CallIdle == op' = [op EXCEPT !["call"] = "none"] /\ Goto("call", "idle")

HalOpen ==
  /\ Command /\ ~cp /\ cp' = TRUE /\ Handle("open")
  /\ UNCHANGED <<unchangedCall, adev, call_start, call_connected, call_prestop, is_exit,
                 vbc_2arm, routed>>

\* Mutant of HalClose: the call is taken for over at once.
HalClose_NotConnected ==
  /\ Command /\ cp /\ cp' = FALSE
  /\ call_prestop' = TRUE /\ vbc_2arm' = TRUE /\ call_connected' = FALSE
  /\ IF call_start THEN Handle("close") ELSE Goto("call", "rsp") /\ UNCHANGED op
  /\ UNCHANGED <<unchangedCall, adev, call_start, is_exit, routed>>

HalClose ==
  /\ Command /\ cp /\ cp' = FALSE
  /\ call_prestop' = TRUE /\ vbc_2arm' = TRUE
  /\ IF call_start THEN Handle("close") ELSE Goto("call", "rsp") /\ UNCHANGED op
  /\ UNCHANGED <<unchangedCall, adev, call_start, call_connected, is_exit, routed>>

\* SetParas_Switch_Incall; when it fails the thread ends after the command.
SwitchCtrl ==
  /\ Command /\ cp /\ Handle("switch")
  /\ \/ vbc_2arm' \in BOOLEAN /\ UNCHANGED is_exit
     \/ is_exit' = TRUE /\ UNCHANGED vbc_2arm
  /\ UNCHANGED <<unchangedCall, adev, call_start, call_connected, call_prestop, cp, routed>>

\* SET_MODE, SET_GAIN and DEVICE_CTRL: routes and gains of the call.
SetParas ==
  /\ Command /\ cp /\ routed' = FALSE /\ is_exit' \in BOOLEAN
  /\ UNCHANGED <<unchangedCall, pc, op, adev, call_start, call_connected, call_prestop, vbc_2arm,
                 cp>>

\* read() returns 0: the modem has crashed.  The pipe is opened again.
CpCrash ==
  /\ Command /\ cp' = FALSE
  /\ IF call_start THEN vbc_2arm' = TRUE /\ Handle("eof") ELSE UNCHANGED <<vbc_2arm, pc, op>>
  /\ UNCHANGED <<unchangedCall, adev, call_start, call_connected, call_prestop, is_exit, routed>>

CallLockDev ==
  /\ pc["call"] = "adev" /\ adev = "free"
  /\ IF op["call"] = "switch" THEN call_connected' = TRUE /\ CallIdle /\ UNCHANGED adev
     ELSE adev' = "call" /\ Goto("call", "f_out") /\ UNCHANGED <<op, call_connected>>
  /\ UNCHANGED <<unchangedCall, call_start, call_prestop, is_exit, vbc_2arm, cp, routed>>

unchangedForce == <<op, tmp, adev, routeVars, callVars, outVars, inVars, routing>>

\* Mutant of ForceOut: an output that plays is left alone.
ForceOut_Skipped ==
  /\ pc["call"] = "f_out" /\ Goto("call", "f_in")
  /\ UNCHANGED <<unchangedForce, inl, outl>>

\* force_all_standby
ForceOut ==
  /\ pc["call"] = "f_out"
  /\ IF ~active_output THEN Goto("call", "f_in") /\ UNCHANGED outl
     ELSE /\ outl = "free"
          /\ IF o_standby THEN Goto("call", "f_in") /\ UNCHANGED outl
             ELSE Goto("call", "o1") /\ outl' = "call"
  /\ UNCHANGED <<unchangedForce, inl>>

ForceIn ==
  /\ pc["call"] = "f_in"
  /\ IF ~active_input THEN Goto("call", "f_done") /\ UNCHANGED inl
     ELSE /\ inl = "free"
          /\ IF i_standby THEN Goto("call", "f_done") /\ UNCHANGED inl
             ELSE Goto("call", "i1") /\ inl' = "call"
  /\ UNCHANGED <<unchangedForce, outl>>

\* HAL_OPEN goes on: a device of the modem that cannot be opened ends the
\* thread, after call_start is set.
StartCall ==
  /\ pc["call"] = "f_done" /\ op["call"] = "open"
  /\ call_start' = TRUE /\ is_exit' \in BOOLEAN
  /\ adev' = "free" /\ CallIdle
  /\ UNCHANGED <<unchangedCall, call_connected, call_prestop, vbc_2arm, cp, routed>>

EndCall ==
  /\ pc["call"] = "f_done" /\ op["call"] \in {"close", "eof"}
  /\ call_start' = FALSE /\ call_connected' = FALSE
  /\ adev' = "free" /\ op' = [op EXCEPT !["call"] = "none"]
  /\ Goto("call", IF op["call"] = "close" THEN "rsp" ELSE "idle")
  /\ UNCHANGED <<unchangedCall, call_prestop, is_exit, vbc_2arm, cp, routed>>

CloseAnswered ==
  /\ pc["call"] = "rsp" /\ Goto("call", "idle")
  /\ call_prestop' = FALSE
  /\ UNCHANGED <<unchangedCall, op, adev, call_start, call_connected, is_exit, vbc_2arm, cp,
                 routed>>

Call ==
  \/ HalOpen \/ HalClose \/ SwitchCtrl \/ SetParas \/ CpCrash
  \/ CallLockDev \/ ForceOut \/ ForceIn \/ StartCall \/ EndCall \/ CloseAnswered

-----------------------------------------------------------------------------
(* The routing thread and the mode.                                         *)

\* stream_routing_thread_entry: sem_wait, and do_select_devices up to the lock.
RoutingWoken ==
  /\ rpc = "wait" /\ sem > 0
  /\ sem' = sem - 1 /\ rpc' = "apply" /\ cur_devices' = devices
  /\ UNCHANGED <<threadVars, locks, mode, devices, routed, callVars, outVars, inVars>>

\* do_select_devices, under device_lock.
do_select_devices ==
  /\ rpc = "apply" /\ rpc' = "wait" /\ cur_devices' = NoDevice
  /\ IF call_start THEN UNCHANGED routed ELSE routed' = (cur_devices = devices)
  /\ UNCHANGED <<threadVars, locks, mode, devices, sem, callVars, outVars, inVars>>

adev_set_mode ==
  /\ adev = "free" /\ mode' = IF mode = "call" THEN "normal" ELSE "call"
  /\ UNCHANGED <<threadVars, locks, devices, routed, sem, callVars, outVars, inVars, routing>>

Next ==
  \/ Play \/ Rec \/ Call
  \/ \E t \in Threads : DoStandby(t)
  \/ RoutingWoken \/ do_select_devices \/ adev_set_mode

Spec == Init /\ [][Next]_vars

-----------------------------------------------------------------------------
(* Properties.                                                             *)

TypeOK ==
  /\ pc \in [Threads -> Places] /\ op \in [Threads -> Operations] /\ tmp \in [Threads -> Devices]
  /\ mode \in {"normal", "call"} /\ devices \in Devices /\ sem \in Nat
  /\ adev \in Threads \cup {"free"} /\ inl \in {"rec", "call", "free"}
  /\ outl \in {"play", "call", "free"}
  /\ o_pcm \in {"none", "mm", "voice"} /\ i_pcm \in {"none", "mic", "voice"}
  /\ i_device \in InDevices
  /\ rpc \in {"wait", "apply"} /\ cur_devices \in Devices

FlagsOK ==
  /\ call_start \in BOOLEAN /\ call_connected \in BOOLEAN /\ call_prestop \in BOOLEAN
  /\ is_exit \in BOOLEAN /\ vbc_2arm \in BOOLEAN /\ cp \in BOOLEAN
  /\ active_output \in BOOLEAN /\ o_standby \in BOOLEAN
  /\ active_input \in BOOLEAN /\ i_standby \in BOOLEAN /\ echo_reference \in BOOLEAN
  /\ routed \in BOOLEAN

\* out_write uses the device it finds open, although it tests call_connected
\* after it has released adev->lock, and in_read never reads a closed one
\* (audio_hw.c lines 1143-1222 and 1827-1840 against the call thread).
UsesOpenPcm ==
  /\ pc["play"] = "w_mm" => o_pcm = "mm"
  /\ pc["play"] = "w_voice" => o_pcm = "voice"
  /\ pc["rec"] = "reading" => i_pcm # "none"

\* Once a command of the modem has been carried out no stream is left on the
\* device of the other side: outside a call nothing plays to or records from
\* the modem, in one nothing holds the codec's device
\* (vb_control_parameters.c lines 854-911: the streams are put to standby
\* before call_start changes).  One exception: an out_write that has failed has
\* cleared active_output and is about to close the modem's device without
\* adev->lock (audio_hw.c lines 945-949 from 1238), so that the end of the call
\* passes it by; it closes the device in its next step.
PcmMatchesCall ==
  adev = "free" =>
    /\ o_pcm = "mm" => ~call_start
    /\ o_pcm = "voice" => (call_start /\ call_connected) \/ pc["play"] = "ov"
    /\ (i_pcm = "mic" => ~call_start) /\ (i_pcm = "voice" => call_start)

\* Who a thread waits for.
WaitsFor(t) ==
  CASE pc[t] = "adev" -> adev
    [] \/ pc[t] = "out" \/ (pc[t] = "f_out" /\ active_output)
       \/ (pc[t] = "i3" /\ echo_reference /\ active_output)
       \/ (pc[t] = "echo" /\ ~echo_reference /\ active_output) -> outl
    [] pc[t] = "in" \/ (pc[t] = "f_in" /\ active_input) -> inl
    [] OTHER -> "free"

\* "when multiple mutexes have to be acquired, always respect the following
\* order: hw device > in stream > out stream" (audio_hw.c line 317): threads
\* never wait for each other in a circle, also where a stream goes to standby
\* without adev->lock or the input takes out->lock for the echo reference.
NoLockCycle == \A S \in (SUBSET Threads) \ {{}} : \E t \in S : WaitsFor(t) \notin S

\* What plays or records outside a call does so on the devices last set, once
\* the routing thread has nothing more to do, although it reads them without a
\* lock, drops what it is told during a call and is told nothing by
\* out_set_parameters then (audio_hw.c lines 539-609 and 1037).
RouteFollows ==
  rpc = "wait" /\ sem = 0 /\ ~call_start /\ (o_pcm = "mm" \/ i_pcm = "mic") => routed

\* adev->devices loses its output device only to out_set_parameters: it is
\* changed under adev->lock, and do_input_standby "must be called with hw
\* device and input stream mutexes locked" (audio_hw.c line 1369).
OutputRouteKept == [][devices'.out # devices.out => pc["play"] = "set"]_vars

-----------------------------------------------------------------------------
(* The inductive invariant the proofs of AudioHwProofs use.                 *)

\* Each thread is in its own code, and carries out its own operations.
InPlace ==
  /\ pc["play"] \in PlayPlaces /\ pc["rec"] \in RecPlaces /\ pc["call"] \in CallPlaces
  /\ pc["play"] \in {"started", "writing", "w_mm", "w_voice"} => op["play"] = "write"
  /\ pc["play"] = "set" => op["play"] \in OutRoutes
  /\ pc["rec"] \in {"echo", "open", "failed", "reading"} => op["rec"] = "read"

\* Which lock is held where.  A stream goes to standby with adev->lock when it
\* is told to, and without it when a transfer has failed.
LocksHeld ==
  /\ adev = "play" <=>
       \/ pc["play"] \in {"out", "set"}
       \/ pc["play"] \in {"o1", "ov", "o2"} /\ op["play"] = "standby"
  /\ adev = "rec" <=>
       \/ pc["rec"] \in {"in", "echo", "open"}
       \/ pc["rec"] \in {"i1", "i2", "i3"} /\ op["rec"] = "standby"
  /\ adev = "call" <=> pc["call"] \notin {"idle", "adev", "rsp"}
  /\ outl = "play" <=> pc["play"] \notin {"idle", "out"}
  /\ outl = "call" <=> pc["call"] \in {"o1", "ov", "o2"}
  /\ inl = "rec" <=> pc["rec"] \notin {"idle", "in"}
  /\ inl = "call" <=> pc["call"] \in {"i1", "i2", "i3"}

\* A call of the modem is up only once HAL_OPEN is done, and down before the
\* settings of the call are taken back.
CallOrder ==
  /\ call_connected => call_start
  /\ pc["call"] = "idle" /\ cp => call_start
  /\ pc["call"] = "adev" /\ op["call"] = "switch" => call_start
  /\ pc["call"] \notin {"idle", "rsp"} /\ op["call"] \in {"close", "eof"} => ~cp
  /\ pc["call"] = "rsp" => ~cp

\* The output is active from its start to its close, and open then on the
\* device of the side that has the call; the modem's may be open for one step
\* more.  One that the call thread has put to standby stays there as long as it
\* has adev->lock.
OutputState ==
  /\ active_output => ~o_standby
  /\ ~o_standby => active_output \/ pc["play"] \in {"ov", "o2"} \/ pc["call"] \in {"ov", "o2"}
  /\ pc["play"] \in {"started", "writing", "w_mm", "w_voice", "o1"} => active_output
  /\ pc["play"] \in {"ov", "o2"} => ~active_output
  /\ pc["call"] \in {"ov", "o2", "f_in", "i1", "i2", "i3", "f_done"} => ~active_output
  /\ ~active_output =>
       o_pcm = "none" \/ (o_pcm = "voice" /\ (pc["play"] = "ov" \/ pc["call"] = "ov"))
  /\ active_output /\ ~call_connected => o_pcm = "mm" /\ ~call_start
  /\ active_output /\ call_connected => o_pcm # "mm"

\* The same of the input, which is active before its device is open.
InputState ==
  /\ active_input => (i_standby <=> pc["rec"] \in {"echo", "open"})
  /\ ~i_standby => \/ active_input
                   \/ pc["rec"] \in {"i2", "i3"} \/ pc["call"] \in {"i2", "i3"}
  /\ pc["rec"] \in {"echo", "open", "reading", "i1"} => active_input
  /\ pc["rec"] \in {"failed", "i2", "i3"} \/ pc["call"] \in {"i2", "i3", "f_done"} =>
       ~active_input
  /\ pc["rec"] = "failed" => i_standby
  /\ i_pcm = "none" <=> ~active_input \/ i_standby
  /\ i_pcm = "mic" => ~call_start
  /\ i_pcm = "voice" => call_start

\* Outside a call what the routing thread has applied, or is about to, are the
\* devices, unless it has been told to look again.
RouteState ==
  ~call_start /\ sem = 0
    /\ (o_pcm = "mm" \/ i_pcm = "mic" \/ pc["rec"] \in {"echo", "open"})
    => IF rpc = "wait" THEN routed ELSE cur_devices = devices

AudioInv ==
  /\ TypeOK /\ FlagsOK /\ InPlace /\ LocksHeld /\ CallOrder
  /\ OutputState /\ InputState /\ RouteState /\ UsesOpenPcm
=============================================================================
