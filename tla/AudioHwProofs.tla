---------------------------- MODULE AudioHwProofs ----------------------------
(***************************************************************************)
(* Proofs about the audio HAL.  The inductive invariant is AudioInv of     *)
(* AudioHw: which lock is held at which place, what being active, in       *)
(* standby and open have to do with each other for each stream, and what   *)
(* the routing thread has still to apply.                                  *)
(***************************************************************************)
EXTENDS AudioHw, TLAPS

\* The initial state.
LEMMA InitInv == Init => AudioInv
<1> SUFFICES ASSUME Init PROVE AudioInv
  OBVIOUS
<1> USE AudioAssumption DEF Init, Threads
<1>1. TypeOK
  BY DEF TypeOK, Places, PlayPlaces, RecPlaces, CallPlaces, Operations, Devices, NoDevice
<1>2. FlagsOK
  BY DEF FlagsOK
<1>3. InPlace /\ LocksHeld /\ CallOrder
  BY DEF InPlace, LocksHeld, CallOrder, PlayPlaces, RecPlaces, CallPlaces
<1>4. OutputState /\ InputState /\ RouteState /\ UsesOpenPcm
  BY DEF OutputState, InputState, RouteState, UsesOpenPcm
<1> QED BY <1>1, <1>2, <1>3, <1>4 DEF AudioInv

\* The codec's device is closed, and the output is not active.
LEMMA OutCloseInv ==
  ASSUME AudioInv, NEW t \in Threads, OutClose(t)
  PROVE  AudioInv'
<1> USE AudioAssumption DEF AudioInv, OutClose, Goto, Threads, PlayPlaces, RecPlaces,
        CallPlaces, threadVars, locks, routeVars, callVars, outVars, inVars, routing
<1>1. TypeOK'
  BY DEF TypeOK, Places, Operations, Devices, NoDevice, InPlace
<1>2. FlagsOK'
  BY DEF FlagsOK
<1>3. InPlace'
  BY DEF TypeOK, InPlace
<1>4. LocksHeld'
  BY DEF TypeOK, InPlace, LocksHeld
<1>5. CallOrder'
  BY DEF TypeOK, InPlace, LocksHeld, CallOrder
<1>6. OutputState'
  BY DEF TypeOK, FlagsOK, InPlace, LocksHeld, CallOrder, OutputState
<1>7. InputState'
  BY DEF TypeOK, FlagsOK, InPlace, LocksHeld, CallOrder, InputState
<1>8. RouteState'
  BY DEF TypeOK, FlagsOK, InPlace, LocksHeld, CallOrder, OutputState, InputState, RouteState
<1>9. UsesOpenPcm'
  BY DEF TypeOK, FlagsOK, InPlace, LocksHeld, OutputState, InputState, UsesOpenPcm
<1> QED BY <1>1, <1>2, <1>3, <1>4, <1>5, <1>6, <1>7, <1>8, <1>9

\* The modem's device is closed.
LEMMA OutCloseVoiceInv ==
  ASSUME AudioInv, NEW t \in Threads, OutCloseVoice(t)
  PROVE  AudioInv'
<1> USE AudioAssumption DEF AudioInv, OutCloseVoice, Goto, Threads, PlayPlaces,
        RecPlaces, CallPlaces, threadVars, locks, routeVars, callVars, outVars, inVars, routing
<1>1. TypeOK'
  BY DEF TypeOK, Places, Operations, Devices, NoDevice, InPlace
<1>2. FlagsOK'
  BY DEF FlagsOK
<1>3. InPlace'
  BY DEF TypeOK, InPlace
<1>4. LocksHeld'
  BY DEF TypeOK, InPlace, LocksHeld
<1>5. CallOrder'
  BY DEF TypeOK, InPlace, LocksHeld, CallOrder
<1>6. OutputState'
  BY DEF TypeOK, FlagsOK, InPlace, LocksHeld, CallOrder, OutputState
<1>7. InputState'
  BY DEF TypeOK, FlagsOK, InPlace, LocksHeld, CallOrder, InputState
<1>8. RouteState'
  BY DEF TypeOK, FlagsOK, InPlace, LocksHeld, CallOrder, OutputState, InputState, RouteState
<1>9. UsesOpenPcm'
  BY DEF TypeOK, FlagsOK, InPlace, LocksHeld, OutputState, InputState, UsesOpenPcm
<1> QED BY <1>1, <1>2, <1>3, <1>4, <1>5, <1>6, <1>7, <1>8, <1>9

\* The output is in standby.
LEMMA OutStandbyInv ==
  ASSUME AudioInv, NEW t \in Threads, OutStandby(t)
  PROVE  AudioInv'
<1> USE AudioAssumption DEF AudioInv, OutStandby, Goto, Return, Free, Threads, PlayPlaces,
        RecPlaces, CallPlaces, threadVars, locks, routeVars, callVars, outVars, inVars,
        routing
<1>1. TypeOK'
  BY DEF TypeOK, Places, Operations, Devices, NoDevice, InPlace
<1>2. FlagsOK'
  BY DEF FlagsOK
<1>3. InPlace'
  BY DEF TypeOK, InPlace
<1>4. LocksHeld'
  BY DEF TypeOK, InPlace, LocksHeld
<1>5. CallOrder'
  BY DEF TypeOK, InPlace, LocksHeld, CallOrder
<1>6. OutputState'
  BY DEF TypeOK, FlagsOK, InPlace, LocksHeld, CallOrder, OutputState
<1>7. InputState'
  BY DEF TypeOK, FlagsOK, InPlace, LocksHeld, CallOrder, InputState
<1>8. RouteState'
  BY DEF TypeOK, FlagsOK, InPlace, LocksHeld, CallOrder, OutputState, InputState, RouteState
<1>9. UsesOpenPcm'
  BY DEF TypeOK, FlagsOK, InPlace, LocksHeld, OutputState, InputState, UsesOpenPcm
<1> QED BY <1>1, <1>2, <1>3, <1>4, <1>5, <1>6, <1>7, <1>8, <1>9

\* The input's device is closed.
LEMMA InCloseInv ==
  ASSUME AudioInv, NEW t \in Threads, InClose(t)
  PROVE  AudioInv'
<1> USE AudioAssumption DEF AudioInv, InClose, Goto, Threads, PlayPlaces, RecPlaces,
        CallPlaces, threadVars, locks, routeVars, callVars, outVars, inVars, routing
<1>1. TypeOK'
  BY DEF TypeOK, Places, Operations, Devices, NoDevice, InPlace
<1>2. FlagsOK'
  BY DEF FlagsOK
<1>3. InPlace'
  BY DEF TypeOK, InPlace
<1>4. LocksHeld'
  BY DEF TypeOK, InPlace, LocksHeld
<1>5. CallOrder'
  BY DEF TypeOK, InPlace, LocksHeld, CallOrder
<1>6. OutputState'
  BY DEF TypeOK, FlagsOK, InPlace, LocksHeld, CallOrder, OutputState
<1>7. InputState'
  BY DEF TypeOK, FlagsOK, InPlace, LocksHeld, CallOrder, InputState
<1>8. RouteState'
  BY DEF TypeOK, FlagsOK, InPlace, LocksHeld, CallOrder, OutputState, InputState, RouteState
<1>9. UsesOpenPcm'
  BY DEF TypeOK, FlagsOK, InPlace, LocksHeld, OutputState, InputState, UsesOpenPcm
<1> QED BY <1>1, <1>2, <1>3, <1>4, <1>5, <1>6, <1>7, <1>8, <1>9

\* The input device is taken out of the devices.
LEMMA InDevicesOffInv ==
  ASSUME AudioInv, NEW t \in Threads, InDevicesOff(t)
  PROVE  AudioInv'
<1> USE AudioAssumption DEF AudioInv, InDevicesOff, Goto, Post, SetDevices, Threads, PlayPlaces,
        RecPlaces, CallPlaces, threadVars, locks, routeVars, callVars, outVars, inVars,
        routing
<1>1. TypeOK'
  BY DEF TypeOK, Places, Operations, Devices, NoDevice, InPlace
<1>2. FlagsOK'
  BY DEF FlagsOK
<1>3. InPlace'
  BY DEF TypeOK, InPlace
<1>4. LocksHeld'
  BY DEF TypeOK, InPlace, LocksHeld
<1>5. CallOrder'
  BY DEF TypeOK, InPlace, LocksHeld, CallOrder
<1>6. OutputState'
  BY DEF TypeOK, FlagsOK, InPlace, LocksHeld, CallOrder, OutputState
<1>7. InputState'
  BY DEF TypeOK, FlagsOK, InPlace, LocksHeld, CallOrder, InputState
<1>8. RouteState'
  BY DEF TypeOK, FlagsOK, InPlace, LocksHeld, CallOrder, OutputState, InputState, RouteState
<1>9. UsesOpenPcm'
  BY DEF TypeOK, FlagsOK, InPlace, LocksHeld, OutputState, InputState, UsesOpenPcm
<1> QED BY <1>1, <1>2, <1>3, <1>4, <1>5, <1>6, <1>7, <1>8, <1>9

\* The input is in standby.
LEMMA InStandbyInv ==
  ASSUME AudioInv, NEW t \in Threads, InStandby(t)
  PROVE  AudioInv'
<1> USE AudioAssumption DEF AudioInv, InStandby, Goto, Return, Free, Threads, PlayPlaces,
        RecPlaces, CallPlaces, threadVars, locks, routeVars, callVars, outVars, inVars,
        routing
<1>1. TypeOK'
  BY DEF TypeOK, Places, Operations, Devices, NoDevice, InPlace
<1>2. FlagsOK'
  BY DEF FlagsOK
<1>3. InPlace'
  BY DEF TypeOK, InPlace
<1>4. LocksHeld'
  BY DEF TypeOK, InPlace, LocksHeld
<1>5. CallOrder'
  BY DEF TypeOK, InPlace, LocksHeld, CallOrder
<1>6. OutputState'
  BY DEF TypeOK, FlagsOK, InPlace, LocksHeld, CallOrder, OutputState
<1>7. InputState'
  BY DEF TypeOK, FlagsOK, InPlace, LocksHeld, CallOrder, InputState
<1>8. RouteState'
  BY DEF TypeOK, FlagsOK, InPlace, LocksHeld, CallOrder, OutputState, InputState, RouteState
<1>9. UsesOpenPcm'
  BY DEF TypeOK, FlagsOK, InPlace, LocksHeld, OutputState, InputState, UsesOpenPcm
<1> QED BY <1>1, <1>2, <1>3, <1>4, <1>5, <1>6, <1>7, <1>8, <1>9

\* A call of the output stream has adev->lock.
LEMMA OutCallInv ==
  ASSUME AudioInv, OutCall
  PROVE  AudioInv'
<1> USE AudioAssumption DEF AudioInv, OutCall, Goto, unchangedPlay, Threads, PlayPlaces,
        RecPlaces, CallPlaces, threadVars, locks, routeVars, callVars, outVars, inVars,
        routing
<1>1. TypeOK'
  BY DEF TypeOK, Places, Operations, Devices, NoDevice, InPlace
<1>2. FlagsOK'
  BY DEF FlagsOK
<1>3. InPlace'
  BY DEF TypeOK, InPlace
<1>4. LocksHeld'
  BY DEF TypeOK, InPlace, LocksHeld
<1>5. CallOrder'
  BY DEF TypeOK, InPlace, LocksHeld, CallOrder
<1>6. OutputState'
  BY DEF TypeOK, FlagsOK, InPlace, LocksHeld, CallOrder, OutputState
<1>7. InputState'
  BY DEF TypeOK, FlagsOK, InPlace, LocksHeld, CallOrder, InputState
<1>8. RouteState'
  BY DEF TypeOK, FlagsOK, InPlace, LocksHeld, CallOrder, OutputState, InputState, RouteState
<1>9. UsesOpenPcm'
  BY DEF TypeOK, FlagsOK, InPlace, LocksHeld, OutputState, InputState, UsesOpenPcm
<1> QED BY <1>1, <1>2, <1>3, <1>4, <1>5, <1>6, <1>7, <1>8, <1>9

\* out_write drops what it is given.
LEMMA WriteBypassedInv ==
  ASSUME AudioInv, WriteBypassed
  PROVE  AudioInv'
<1> USE AudioAssumption DEF AudioInv, WriteBypassed, OutLocked, Return, Goto, Free,
        unchangedPlay, Threads, PlayPlaces, RecPlaces, CallPlaces, threadVars, locks,
        routeVars, callVars, outVars, inVars, routing
<1>1. TypeOK'
  BY DEF TypeOK, Places, Operations, Devices, NoDevice, InPlace
<1>2. FlagsOK'
  BY DEF FlagsOK
<1>3. InPlace'
  BY DEF TypeOK, InPlace
<1>4. LocksHeld'
  BY DEF TypeOK, InPlace, LocksHeld
<1>5. CallOrder'
  BY DEF TypeOK, InPlace, LocksHeld, CallOrder
<1>6. OutputState'
  BY DEF TypeOK, FlagsOK, InPlace, LocksHeld, CallOrder, OutputState
<1>7. InputState'
  BY DEF TypeOK, FlagsOK, InPlace, LocksHeld, CallOrder, InputState
<1>8. RouteState'
  BY DEF TypeOK, FlagsOK, InPlace, LocksHeld, CallOrder, OutputState, InputState, RouteState
<1>9. UsesOpenPcm'
  BY DEF TypeOK, FlagsOK, InPlace, LocksHeld, OutputState, InputState, UsesOpenPcm
<1> QED BY <1>1, <1>2, <1>3, <1>4, <1>5, <1>6, <1>7, <1>8, <1>9

\* out_write starts the output.
LEMMA WriteStartsInv ==
  ASSUME AudioInv, WriteStarts
  PROVE  AudioInv'
<1> USE AudioAssumption DEF AudioInv, WriteStarts, OutLocked, out_bypass_data,
        start_output_stream, Writing, Post, Return, Goto, Free, unchangedPlay, Threads,
        PlayPlaces, RecPlaces, CallPlaces, threadVars, locks, routeVars, callVars, outVars,
        inVars, routing
<1>1. TypeOK'
  <2> PICK pcm \in {IF call_connected THEN "voice" ELSE "mm", "none"} :
        /\ start_output_stream(pcm)
        /\ IF pcm = "none" /\ ~call_connected THEN Return("play") /\ UNCHANGED o_standby
           ELSE Writing("started") /\ o_standby' = FALSE
    OBVIOUS
  <2>1. sem' \in Nat /\ o_pcm' \in {"none", "mm", "voice"}
    BY DEF TypeOK
  <2>2. /\ pc' \in [Threads -> Places] /\ op' \in [Threads -> Operations]
        /\ adev' \in Threads \cup {"free"} /\ inl' \in {"rec", "call", "free"}
        /\ outl' \in {"play", "call", "free"}
    <3>1. CASE pcm = "none" /\ ~call_connected
      BY <3>1 DEF TypeOK, Places, Operations
    <3>2. CASE ~(pcm = "none" /\ ~call_connected)
      BY <3>2 DEF TypeOK, Places
    <3> QED BY <3>1, <3>2
  <2> QED BY <2>1, <2>2 DEF TypeOK
<1>2. FlagsOK'
  BY DEF FlagsOK
<1>3. InPlace'
  BY DEF TypeOK, InPlace
<1>4. LocksHeld'
  <2>1. CASE Return("play")
    BY <2>1 DEF TypeOK, InPlace, LocksHeld
  <2>2. CASE Writing("started")
    BY <2>2 DEF TypeOK, InPlace, LocksHeld
  <2> QED BY <2>1, <2>2
<1>5. CallOrder'
  BY DEF TypeOK, InPlace, LocksHeld, CallOrder
<1>6. OutputState'
  BY DEF TypeOK, FlagsOK, InPlace, LocksHeld, CallOrder, OutputState
<1>7. InputState'
  BY DEF TypeOK, FlagsOK, InPlace, LocksHeld, CallOrder, InputState
<1>8. RouteState'
  BY DEF TypeOK, FlagsOK, InPlace, LocksHeld, CallOrder, OutputState, InputState, RouteState
<1>9. UsesOpenPcm'
  BY DEF TypeOK, FlagsOK, InPlace, LocksHeld, OutputState, InputState, UsesOpenPcm
<1> QED BY <1>1, <1>2, <1>3, <1>4, <1>5, <1>6, <1>7, <1>8, <1>9

\* out_write finds the output started.
LEMMA WriteGoesOnInv ==
  ASSUME AudioInv, WriteGoesOn
  PROVE  AudioInv'
<1> USE AudioAssumption DEF AudioInv, WriteGoesOn, OutLocked, out_bypass_data, Writing,
        Goto, unchangedPlay, Threads, PlayPlaces, RecPlaces, CallPlaces, threadVars, locks,
        routeVars, callVars, outVars, inVars, routing
<1>1. TypeOK'
  BY DEF TypeOK, Places, Operations, Devices, NoDevice, InPlace
<1>2. FlagsOK'
  BY DEF FlagsOK
<1>3. InPlace'
  BY DEF TypeOK, InPlace
<1>4. LocksHeld'
  BY DEF TypeOK, InPlace, LocksHeld
<1>5. CallOrder'
  BY DEF TypeOK, InPlace, LocksHeld, CallOrder
<1>6. OutputState'
  BY DEF TypeOK, FlagsOK, InPlace, LocksHeld, CallOrder, OutputState
<1>7. InputState'
  BY DEF TypeOK, FlagsOK, InPlace, LocksHeld, CallOrder, InputState
<1>8. RouteState'
  BY DEF TypeOK, FlagsOK, InPlace, LocksHeld, CallOrder, OutputState, InputState, RouteState
<1>9. UsesOpenPcm'
  BY DEF TypeOK, FlagsOK, InPlace, LocksHeld, OutputState, InputState, UsesOpenPcm
<1> QED BY <1>1, <1>2, <1>3, <1>4, <1>5, <1>6, <1>7, <1>8, <1>9

\* out_write looks at call_connected.
LEMMA WriteTestsInv ==
  ASSUME AudioInv, WriteTests
  PROVE  AudioInv'
<1> USE AudioAssumption DEF AudioInv, WriteTests, Return, Goto, Free, unchangedPlay,
        Threads, PlayPlaces, RecPlaces, CallPlaces, threadVars, locks, routeVars, callVars,
        outVars, inVars, routing
<1>1. TypeOK'
  BY DEF TypeOK, Places, Operations, Devices, NoDevice, InPlace
<1>2. FlagsOK'
  BY DEF FlagsOK
<1>3. InPlace'
  BY DEF TypeOK, InPlace
<1>4. LocksHeld'
  BY DEF TypeOK, InPlace, LocksHeld
<1>5. CallOrder'
  BY DEF TypeOK, InPlace, LocksHeld, CallOrder
<1>6. OutputState'
  BY DEF TypeOK, FlagsOK, InPlace, LocksHeld, CallOrder, OutputState
<1>7. InputState'
  BY DEF TypeOK, FlagsOK, InPlace, LocksHeld, CallOrder, InputState
<1>8. RouteState'
  BY DEF TypeOK, FlagsOK, InPlace, LocksHeld, CallOrder, OutputState, InputState, RouteState
<1>9. UsesOpenPcm'
  BY DEF TypeOK, FlagsOK, InPlace, LocksHeld, OutputState, InputState, UsesOpenPcm
<1> QED BY <1>1, <1>2, <1>3, <1>4, <1>5, <1>6, <1>7, <1>8, <1>9

\* The write has been made, or has failed.
LEMMA WriteEndsInv ==
  ASSUME AudioInv, WriteDone \/ WriteFails
  PROVE  AudioInv'
<1> USE AudioAssumption DEF AudioInv, WriteDone, WriteFails, Return, Goto, Free,
        unchangedPlay, Threads, PlayPlaces, RecPlaces, CallPlaces, threadVars, locks,
        routeVars, callVars, outVars, inVars, routing
<1>1. TypeOK'
  BY DEF TypeOK, Places, Operations, Devices, NoDevice, InPlace
<1>2. FlagsOK'
  BY DEF FlagsOK
<1>3. InPlace'
  BY DEF TypeOK, InPlace
<1>4. LocksHeld'
  BY DEF TypeOK, InPlace, LocksHeld
<1>5. CallOrder'
  BY DEF TypeOK, InPlace, LocksHeld, CallOrder
<1>6. OutputState'
  BY DEF TypeOK, FlagsOK, InPlace, LocksHeld, CallOrder, OutputState
<1>7. InputState'
  BY DEF TypeOK, FlagsOK, InPlace, LocksHeld, CallOrder, InputState
<1>8. RouteState'
  BY DEF TypeOK, FlagsOK, InPlace, LocksHeld, CallOrder, OutputState, InputState, RouteState
<1>9. UsesOpenPcm'
  BY DEF TypeOK, FlagsOK, InPlace, LocksHeld, OutputState, InputState, UsesOpenPcm
<1> QED BY <1>1, <1>2, <1>3, <1>4, <1>5, <1>6, <1>7, <1>8, <1>9

\* out_standby.
LEMMA OutStandbyCallInv ==
  ASSUME AudioInv, out_standby
  PROVE  AudioInv'
<1> USE AudioAssumption DEF AudioInv, out_standby, OutLocked, Return, Goto, Free,
        unchangedPlay, Threads, PlayPlaces, RecPlaces, CallPlaces, threadVars, locks,
        routeVars, callVars, outVars, inVars, routing
<1>1. TypeOK'
  BY DEF TypeOK, Places, Operations, Devices, NoDevice, InPlace
<1>2. FlagsOK'
  BY DEF FlagsOK
<1>3. InPlace'
  BY DEF TypeOK, InPlace
<1>4. LocksHeld'
  BY DEF TypeOK, InPlace, LocksHeld
<1>5. CallOrder'
  BY DEF TypeOK, InPlace, LocksHeld, CallOrder
<1>6. OutputState'
  BY DEF TypeOK, FlagsOK, InPlace, LocksHeld, CallOrder, OutputState
<1>7. InputState'
  BY DEF TypeOK, FlagsOK, InPlace, LocksHeld, CallOrder, InputState
<1>8. RouteState'
  BY DEF TypeOK, FlagsOK, InPlace, LocksHeld, CallOrder, OutputState, InputState, RouteState
<1>9. UsesOpenPcm'
  BY DEF TypeOK, FlagsOK, InPlace, LocksHeld, OutputState, InputState, UsesOpenPcm
<1> QED BY <1>1, <1>2, <1>3, <1>4, <1>5, <1>6, <1>7, <1>8, <1>9

\* out_set_parameters reads the devices.
LEMMA OutSetParametersInv ==
  ASSUME AudioInv, NEW v \in OutRoutes, out_set_parameters(v)
  PROVE  AudioInv'
<1> USE AudioAssumption DEF AudioInv, out_set_parameters, OutLocked, Return, Goto, Free,
        Threads, PlayPlaces, RecPlaces, CallPlaces, threadVars, locks, routeVars, callVars,
        outVars, inVars, routing
<1>1. TypeOK'
  BY DEF TypeOK, Places, Operations, Devices, NoDevice, InPlace
<1>2. FlagsOK'
  BY DEF FlagsOK
<1>3. InPlace'
  BY DEF TypeOK, InPlace
<1>4. LocksHeld'
  BY DEF TypeOK, InPlace, LocksHeld
<1>5. CallOrder'
  BY DEF TypeOK, InPlace, LocksHeld, CallOrder
<1>6. OutputState'
  BY DEF TypeOK, FlagsOK, InPlace, LocksHeld, CallOrder, OutputState
<1>7. InputState'
  BY DEF TypeOK, FlagsOK, InPlace, LocksHeld, CallOrder, InputState
<1>8. RouteState'
  BY DEF TypeOK, FlagsOK, InPlace, LocksHeld, CallOrder, OutputState, InputState, RouteState
<1>9. UsesOpenPcm'
  BY DEF TypeOK, FlagsOK, InPlace, LocksHeld, OutputState, InputState, UsesOpenPcm
<1> QED BY <1>1, <1>2, <1>3, <1>4, <1>5, <1>6, <1>7, <1>8, <1>9

\* out_set_parameters writes the devices.
LEMMA SetOutDeviceInv ==
  ASSUME AudioInv, SetOutDevice
  PROVE  AudioInv'
<1> USE AudioAssumption DEF AudioInv, SetOutDevice, Return, Goto, Free, Post, SetDevices, Threads,
        PlayPlaces, RecPlaces, CallPlaces, threadVars, locks, routeVars, callVars, outVars,
        inVars, routing
<1>1. TypeOK'
  BY DEF TypeOK, Places, Operations, Devices, NoDevice, InPlace
<1>2. FlagsOK'
  BY DEF FlagsOK
<1>3. InPlace'
  BY DEF TypeOK, InPlace
<1>4. LocksHeld'
  BY DEF TypeOK, InPlace, LocksHeld
<1>5. CallOrder'
  BY DEF TypeOK, InPlace, LocksHeld, CallOrder
<1>6. OutputState'
  BY DEF TypeOK, FlagsOK, InPlace, LocksHeld, CallOrder, OutputState
<1>7. InputState'
  BY DEF TypeOK, FlagsOK, InPlace, LocksHeld, CallOrder, InputState
<1>8. RouteState'
  BY DEF TypeOK, FlagsOK, InPlace, LocksHeld, CallOrder, OutputState, InputState, RouteState
<1>9. UsesOpenPcm'
  BY DEF TypeOK, FlagsOK, InPlace, LocksHeld, OutputState, InputState, UsesOpenPcm
<1> QED BY <1>1, <1>2, <1>3, <1>4, <1>5, <1>6, <1>7, <1>8, <1>9

\* A call of the input stream has adev->lock.
LEMMA InCallInv ==
  ASSUME AudioInv, InCall
  PROVE  AudioInv'
<1> USE AudioAssumption DEF AudioInv, InCall, Goto, unchangedRec, Threads, PlayPlaces,
        RecPlaces, CallPlaces, threadVars, locks, routeVars, callVars, outVars, inVars,
        routing
<1>1. TypeOK'
  BY DEF TypeOK, Places, Operations, Devices, NoDevice, InPlace
<1>2. FlagsOK'
  BY DEF FlagsOK
<1>3. InPlace'
  BY DEF TypeOK, InPlace
<1>4. LocksHeld'
  BY DEF TypeOK, InPlace, LocksHeld
<1>5. CallOrder'
  BY DEF TypeOK, InPlace, LocksHeld, CallOrder
<1>6. OutputState'
  BY DEF TypeOK, FlagsOK, InPlace, LocksHeld, CallOrder, OutputState
<1>7. InputState'
  BY DEF TypeOK, FlagsOK, InPlace, LocksHeld, CallOrder, InputState
<1>8. RouteState'
  BY DEF TypeOK, FlagsOK, InPlace, LocksHeld, CallOrder, OutputState, InputState, RouteState
<1>9. UsesOpenPcm'
  BY DEF TypeOK, FlagsOK, InPlace, LocksHeld, OutputState, InputState, UsesOpenPcm
<1> QED BY <1>1, <1>2, <1>3, <1>4, <1>5, <1>6, <1>7, <1>8, <1>9

\* in_read gives silence.
LEMMA ReadBypassedInv ==
  ASSUME AudioInv, ReadBypassed
  PROVE  AudioInv'
<1> USE AudioAssumption DEF AudioInv, ReadBypassed, InLocked, Return, Goto, Free,
        unchangedRec, Threads, PlayPlaces, RecPlaces, CallPlaces, threadVars, locks,
        routeVars, callVars, outVars, inVars, routing
<1>1. TypeOK'
  BY DEF TypeOK, Places, Operations, Devices, NoDevice, InPlace
<1>2. FlagsOK'
  BY DEF FlagsOK
<1>3. InPlace'
  BY DEF TypeOK, InPlace
<1>4. LocksHeld'
  BY DEF TypeOK, InPlace, LocksHeld
<1>5. CallOrder'
  BY DEF TypeOK, InPlace, LocksHeld, CallOrder
<1>6. OutputState'
  BY DEF TypeOK, FlagsOK, InPlace, LocksHeld, CallOrder, OutputState
<1>7. InputState'
  BY DEF TypeOK, FlagsOK, InPlace, LocksHeld, CallOrder, InputState
<1>8. RouteState'
  BY DEF TypeOK, FlagsOK, InPlace, LocksHeld, CallOrder, OutputState, InputState, RouteState
<1>9. UsesOpenPcm'
  BY DEF TypeOK, FlagsOK, InPlace, LocksHeld, OutputState, InputState, UsesOpenPcm
<1> QED BY <1>1, <1>2, <1>3, <1>4, <1>5, <1>6, <1>7, <1>8, <1>9

\* in_read starts the input.
LEMMA StartInputInv ==
  ASSUME AudioInv, start_input_stream
  PROVE  AudioInv'
<1> USE AudioAssumption DEF AudioInv, start_input_stream, InLocked, in_bypass_data, TakeIn,
        Post, SetDevices, Goto, unchangedRec, Threads, PlayPlaces, RecPlaces, CallPlaces,
        threadVars, locks, routeVars, callVars, outVars, inVars, routing
<1>1. TypeOK'
  BY DEF TypeOK, Places, Operations, Devices, NoDevice, InPlace
<1>2. FlagsOK'
  BY DEF FlagsOK
<1>3. InPlace'
  BY DEF TypeOK, InPlace
<1>4. LocksHeld'
  BY DEF TypeOK, InPlace, LocksHeld
<1>5. CallOrder'
  BY DEF TypeOK, InPlace, LocksHeld, CallOrder
<1>6. OutputState'
  BY DEF TypeOK, FlagsOK, InPlace, LocksHeld, CallOrder, OutputState
<1>7. InputState'
  BY DEF TypeOK, FlagsOK, InPlace, LocksHeld, CallOrder, InputState
<1>8. RouteState'
  BY DEF TypeOK, FlagsOK, InPlace, LocksHeld, CallOrder, OutputState, InputState, RouteState
<1>9. UsesOpenPcm'
  BY DEF TypeOK, FlagsOK, InPlace, LocksHeld, OutputState, InputState, UsesOpenPcm
<1> QED BY <1>1, <1>2, <1>3, <1>4, <1>5, <1>6, <1>7, <1>8, <1>9

\* The output is told of the echo canceller.
LEMMA GetEchoInv ==
  ASSUME AudioInv, get_echo_reference
  PROVE  AudioInv'
<1> USE AudioAssumption DEF AudioInv, get_echo_reference, Goto, unchangedRec, Threads,
        PlayPlaces, RecPlaces, CallPlaces, threadVars, locks, routeVars, callVars, outVars,
        inVars, routing
<1>1. TypeOK'
  BY DEF TypeOK, Places, Operations, Devices, NoDevice, InPlace
<1>2. FlagsOK'
  BY DEF FlagsOK
<1>3. InPlace'
  BY DEF TypeOK, InPlace
<1>4. LocksHeld'
  BY DEF TypeOK, InPlace, LocksHeld
<1>5. CallOrder'
  BY DEF TypeOK, InPlace, LocksHeld, CallOrder
<1>6. OutputState'
  BY DEF TypeOK, FlagsOK, InPlace, LocksHeld, CallOrder, OutputState
<1>7. InputState'
  BY DEF TypeOK, FlagsOK, InPlace, LocksHeld, CallOrder, InputState
<1>8. RouteState'
  BY DEF TypeOK, FlagsOK, InPlace, LocksHeld, CallOrder, OutputState, InputState, RouteState
<1>9. UsesOpenPcm'
  BY DEF TypeOK, FlagsOK, InPlace, LocksHeld, OutputState, InputState, UsesOpenPcm
<1> QED BY <1>1, <1>2, <1>3, <1>4, <1>5, <1>6, <1>7, <1>8, <1>9

\* The input's device is opened, or cannot be.
LEMMA OpenInputInv ==
  ASSUME AudioInv, OpenInput
  PROVE  AudioInv'
<1> USE AudioAssumption DEF AudioInv, OpenInput, Return, Goto, Free, unchangedRec, Threads,
        PlayPlaces, RecPlaces, CallPlaces, threadVars, locks, routeVars, callVars, outVars,
        inVars, routing
<1>1. TypeOK'
  BY DEF TypeOK, Places, Operations, Devices, NoDevice, InPlace
<1>2. FlagsOK'
  BY DEF FlagsOK
<1>3. InPlace'
  BY DEF TypeOK, InPlace
<1>4. LocksHeld'
  BY DEF TypeOK, InPlace, LocksHeld
<1>5. CallOrder'
  BY DEF TypeOK, InPlace, LocksHeld, CallOrder
<1>6. OutputState'
  BY DEF TypeOK, FlagsOK, InPlace, LocksHeld, CallOrder, OutputState
<1>7. InputState'
  BY DEF TypeOK, FlagsOK, InPlace, LocksHeld, CallOrder, InputState
<1>8. RouteState'
  BY DEF TypeOK, FlagsOK, InPlace, LocksHeld, CallOrder, OutputState, InputState, RouteState
<1>9. UsesOpenPcm'
  BY DEF TypeOK, FlagsOK, InPlace, LocksHeld, OutputState, InputState, UsesOpenPcm
<1> QED BY <1>1, <1>2, <1>3, <1>4, <1>5, <1>6, <1>7, <1>8, <1>9

\* in_read finds the input started.
LEMMA ReadGoesOnInv ==
  ASSUME AudioInv, ReadGoesOn
  PROVE  AudioInv'
<1> USE AudioAssumption DEF AudioInv, ReadGoesOn, InLocked, in_bypass_data, Goto,
        unchangedRec, Threads, PlayPlaces, RecPlaces, CallPlaces, threadVars, locks,
        routeVars, callVars, outVars, inVars, routing
<1>1. TypeOK'
  BY DEF TypeOK, Places, Operations, Devices, NoDevice, InPlace
<1>2. FlagsOK'
  BY DEF FlagsOK
<1>3. InPlace'
  BY DEF TypeOK, InPlace
<1>4. LocksHeld'
  BY DEF TypeOK, InPlace, LocksHeld
<1>5. CallOrder'
  BY DEF TypeOK, InPlace, LocksHeld, CallOrder
<1>6. OutputState'
  BY DEF TypeOK, FlagsOK, InPlace, LocksHeld, CallOrder, OutputState
<1>7. InputState'
  BY DEF TypeOK, FlagsOK, InPlace, LocksHeld, CallOrder, InputState
<1>8. RouteState'
  BY DEF TypeOK, FlagsOK, InPlace, LocksHeld, CallOrder, OutputState, InputState, RouteState
<1>9. UsesOpenPcm'
  BY DEF TypeOK, FlagsOK, InPlace, LocksHeld, OutputState, InputState, UsesOpenPcm
<1> QED BY <1>1, <1>2, <1>3, <1>4, <1>5, <1>6, <1>7, <1>8, <1>9

\* The read has been made, or has failed.
LEMMA ReadEndsInv ==
  ASSUME AudioInv, ReadDone \/ ReadFails
  PROVE  AudioInv'
<1> USE AudioAssumption DEF AudioInv, ReadDone, ReadFails, Return, Goto, Free, unchangedRec,
        Threads, PlayPlaces, RecPlaces, CallPlaces, threadVars, locks, routeVars, callVars,
        outVars, inVars, routing
<1>1. TypeOK'
  BY DEF TypeOK, Places, Operations, Devices, NoDevice, InPlace
<1>2. FlagsOK'
  BY DEF FlagsOK
<1>3. InPlace'
  BY DEF TypeOK, InPlace
<1>4. LocksHeld'
  BY DEF TypeOK, InPlace, LocksHeld
<1>5. CallOrder'
  BY DEF TypeOK, InPlace, LocksHeld, CallOrder
<1>6. OutputState'
  BY DEF TypeOK, FlagsOK, InPlace, LocksHeld, CallOrder, OutputState
<1>7. InputState'
  BY DEF TypeOK, FlagsOK, InPlace, LocksHeld, CallOrder, InputState
<1>8. RouteState'
  BY DEF TypeOK, FlagsOK, InPlace, LocksHeld, CallOrder, OutputState, InputState, RouteState
<1>9. UsesOpenPcm'
  BY DEF TypeOK, FlagsOK, InPlace, LocksHeld, OutputState, InputState, UsesOpenPcm
<1> QED BY <1>1, <1>2, <1>3, <1>4, <1>5, <1>6, <1>7, <1>8, <1>9

\* in_standby.
LEMMA InStandbyCallInv ==
  ASSUME AudioInv, in_standby
  PROVE  AudioInv'
<1> USE AudioAssumption DEF AudioInv, in_standby, InLocked, TakeIn, Return, Goto, Free,
        unchangedRec, Threads, PlayPlaces, RecPlaces, CallPlaces, threadVars, locks,
        routeVars, callVars, outVars, inVars, routing
<1>1. TypeOK'
  BY DEF TypeOK, Places, Operations, Devices, NoDevice, InPlace
<1>2. FlagsOK'
  BY DEF FlagsOK
<1>3. InPlace'
  BY DEF TypeOK, InPlace
<1>4. LocksHeld'
  BY DEF TypeOK, InPlace, LocksHeld
<1>5. CallOrder'
  BY DEF TypeOK, InPlace, LocksHeld, CallOrder
<1>6. OutputState'
  BY DEF TypeOK, FlagsOK, InPlace, LocksHeld, CallOrder, OutputState
<1>7. InputState'
  BY DEF TypeOK, FlagsOK, InPlace, LocksHeld, CallOrder, InputState
<1>8. RouteState'
  BY DEF TypeOK, FlagsOK, InPlace, LocksHeld, CallOrder, OutputState, InputState, RouteState
<1>9. UsesOpenPcm'
  BY DEF TypeOK, FlagsOK, InPlace, LocksHeld, OutputState, InputState, UsesOpenPcm
<1> QED BY <1>1, <1>2, <1>3, <1>4, <1>5, <1>6, <1>7, <1>8, <1>9

\* in_set_parameters.
LEMMA InSetParametersInv ==
  ASSUME AudioInv, in_set_parameters
  PROVE  AudioInv'
<1> USE AudioAssumption DEF AudioInv, in_set_parameters, Post, SetDevices, unchangedRec, Threads,
        PlayPlaces, RecPlaces, CallPlaces, threadVars, locks, routeVars, callVars, outVars,
        inVars, routing
<1>1. TypeOK'
  BY DEF TypeOK, Places, Operations, Devices, NoDevice, InPlace
<1>2. FlagsOK'
  BY DEF FlagsOK
<1>3. InPlace'
  BY DEF TypeOK, InPlace
<1>4. LocksHeld'
  BY DEF TypeOK, InPlace, LocksHeld
<1>5. CallOrder'
  BY DEF TypeOK, InPlace, LocksHeld, CallOrder
<1>6. OutputState'
  BY DEF TypeOK, FlagsOK, InPlace, LocksHeld, CallOrder, OutputState
<1>7. InputState'
  BY DEF TypeOK, FlagsOK, InPlace, LocksHeld, CallOrder, InputState
<1>8. RouteState'
  BY DEF TypeOK, FlagsOK, InPlace, LocksHeld, CallOrder, OutputState, InputState, RouteState
<1>9. UsesOpenPcm'
  BY DEF TypeOK, FlagsOK, InPlace, LocksHeld, OutputState, InputState, UsesOpenPcm
<1> QED BY <1>1, <1>2, <1>3, <1>4, <1>5, <1>6, <1>7, <1>8, <1>9

\* HAL_OPEN arrives.
LEMMA HalOpenInv ==
  ASSUME AudioInv, HalOpen
  PROVE  AudioInv'
<1> USE AudioAssumption DEF AudioInv, HalOpen, Command, Handle, Goto, unchangedCall,
        Threads, PlayPlaces, RecPlaces, CallPlaces, threadVars, locks, routeVars, callVars,
        outVars, inVars, routing
<1>1. TypeOK'
  BY DEF TypeOK, Places, Operations, Devices, NoDevice, InPlace
<1>2. FlagsOK'
  BY DEF FlagsOK
<1>3. InPlace'
  BY DEF TypeOK, InPlace
<1>4. LocksHeld'
  BY DEF TypeOK, InPlace, LocksHeld
<1>5. CallOrder'
  BY DEF TypeOK, InPlace, LocksHeld, CallOrder
<1>6. OutputState'
  BY DEF TypeOK, FlagsOK, InPlace, LocksHeld, CallOrder, OutputState
<1>7. InputState'
  BY DEF TypeOK, FlagsOK, InPlace, LocksHeld, CallOrder, InputState
<1>8. RouteState'
  BY DEF TypeOK, FlagsOK, InPlace, LocksHeld, CallOrder, OutputState, InputState, RouteState
<1>9. UsesOpenPcm'
  BY DEF TypeOK, FlagsOK, InPlace, LocksHeld, OutputState, InputState, UsesOpenPcm
<1> QED BY <1>1, <1>2, <1>3, <1>4, <1>5, <1>6, <1>7, <1>8, <1>9

\* HAL_CLOSE arrives.
LEMMA HalCloseInv ==
  ASSUME AudioInv, HalClose
  PROVE  AudioInv'
<1> USE AudioAssumption DEF AudioInv, HalClose, Command, Handle, Goto, unchangedCall,
        Threads, PlayPlaces, RecPlaces, CallPlaces, threadVars, locks, routeVars, callVars,
        outVars, inVars, routing
<1>1. TypeOK'
  BY DEF TypeOK, Places, Operations, Devices, NoDevice, InPlace
<1>2. FlagsOK'
  BY DEF FlagsOK
<1>3. InPlace'
  BY DEF TypeOK, InPlace
<1>4. LocksHeld'
  BY DEF TypeOK, InPlace, LocksHeld
<1>5. CallOrder'
  BY DEF TypeOK, InPlace, LocksHeld, CallOrder
<1>6. OutputState'
  BY DEF TypeOK, FlagsOK, InPlace, LocksHeld, CallOrder, OutputState
<1>7. InputState'
  BY DEF TypeOK, FlagsOK, InPlace, LocksHeld, CallOrder, InputState
<1>8. RouteState'
  BY DEF TypeOK, FlagsOK, InPlace, LocksHeld, CallOrder, OutputState, InputState, RouteState
<1>9. UsesOpenPcm'
  BY DEF TypeOK, FlagsOK, InPlace, LocksHeld, OutputState, InputState, UsesOpenPcm
<1> QED BY <1>1, <1>2, <1>3, <1>4, <1>5, <1>6, <1>7, <1>8, <1>9

\* SWITCH_CTRL arrives.
LEMMA SwitchCtrlInv ==
  ASSUME AudioInv, SwitchCtrl
  PROVE  AudioInv'
<1> USE AudioAssumption DEF AudioInv, SwitchCtrl, Command, Handle, Goto, unchangedCall,
        Threads, PlayPlaces, RecPlaces, CallPlaces, threadVars, locks, routeVars, callVars,
        outVars, inVars, routing
<1>1. TypeOK'
  BY DEF TypeOK, Places, Operations, Devices, NoDevice, InPlace
<1>2. FlagsOK'
  BY DEF FlagsOK
<1>3. InPlace'
  BY DEF TypeOK, InPlace
<1>4. LocksHeld'
  BY DEF TypeOK, InPlace, LocksHeld
<1>5. CallOrder'
  BY DEF TypeOK, InPlace, LocksHeld, CallOrder
<1>6. OutputState'
  BY DEF TypeOK, FlagsOK, InPlace, LocksHeld, CallOrder, OutputState
<1>7. InputState'
  BY DEF TypeOK, FlagsOK, InPlace, LocksHeld, CallOrder, InputState
<1>8. RouteState'
  BY DEF TypeOK, FlagsOK, InPlace, LocksHeld, CallOrder, OutputState, InputState, RouteState
<1>9. UsesOpenPcm'
  BY DEF TypeOK, FlagsOK, InPlace, LocksHeld, OutputState, InputState, UsesOpenPcm
<1> QED BY <1>1, <1>2, <1>3, <1>4, <1>5, <1>6, <1>7, <1>8, <1>9

\* The modem sets its routes.
LEMMA SetParasInv ==
  ASSUME AudioInv, SetParas
  PROVE  AudioInv'
<1> USE AudioAssumption DEF AudioInv, SetParas, Command, unchangedCall, Threads, PlayPlaces,
        RecPlaces, CallPlaces, threadVars, locks, routeVars, callVars, outVars, inVars,
        routing
<1>1. TypeOK'
  BY DEF TypeOK, Places, Operations, Devices, NoDevice, InPlace
<1>2. FlagsOK'
  BY DEF FlagsOK
<1>3. InPlace'
  BY DEF TypeOK, InPlace
<1>4. LocksHeld'
  BY DEF TypeOK, InPlace, LocksHeld
<1>5. CallOrder'
  BY DEF TypeOK, InPlace, LocksHeld, CallOrder
<1>6. OutputState'
  BY DEF TypeOK, FlagsOK, InPlace, LocksHeld, CallOrder, OutputState
<1>7. InputState'
  BY DEF TypeOK, FlagsOK, InPlace, LocksHeld, CallOrder, InputState
<1>8. RouteState'
  BY DEF TypeOK, FlagsOK, InPlace, LocksHeld, CallOrder, OutputState, InputState, RouteState
<1>9. UsesOpenPcm'
  BY DEF TypeOK, FlagsOK, InPlace, LocksHeld, OutputState, InputState, UsesOpenPcm
<1> QED BY <1>1, <1>2, <1>3, <1>4, <1>5, <1>6, <1>7, <1>8, <1>9

\* The modem crashes.
LEMMA CpCrashInv ==
  ASSUME AudioInv, CpCrash
  PROVE  AudioInv'
<1> USE AudioAssumption DEF AudioInv, CpCrash, Command, Handle, Goto, unchangedCall,
        Threads, PlayPlaces, RecPlaces, CallPlaces, threadVars, locks, routeVars, callVars,
        outVars, inVars, routing
<1>1. TypeOK'
  BY DEF TypeOK, Places, Operations, Devices, NoDevice, InPlace
<1>2. FlagsOK'
  BY DEF FlagsOK
<1>3. InPlace'
  BY DEF TypeOK, InPlace
<1>4. LocksHeld'
  BY DEF TypeOK, InPlace, LocksHeld
<1>5. CallOrder'
  BY DEF TypeOK, InPlace, LocksHeld, CallOrder
<1>6. OutputState'
  BY DEF TypeOK, FlagsOK, InPlace, LocksHeld, CallOrder, OutputState
<1>7. InputState'
  BY DEF TypeOK, FlagsOK, InPlace, LocksHeld, CallOrder, InputState
<1>8. RouteState'
  BY DEF TypeOK, FlagsOK, InPlace, LocksHeld, CallOrder, OutputState, InputState, RouteState
<1>9. UsesOpenPcm'
  BY DEF TypeOK, FlagsOK, InPlace, LocksHeld, OutputState, InputState, UsesOpenPcm
<1> QED BY <1>1, <1>2, <1>3, <1>4, <1>5, <1>6, <1>7, <1>8, <1>9

\* The call thread has adev->lock.
LEMMA CallLockDevInv ==
  ASSUME AudioInv, CallLockDev
  PROVE  AudioInv'
<1> USE AudioAssumption DEF AudioInv, CallLockDev, CallIdle, Goto, unchangedCall, Threads,
        PlayPlaces, RecPlaces, CallPlaces, threadVars, locks, routeVars, callVars, outVars,
        inVars, routing
<1>1. TypeOK'
  BY DEF TypeOK, Places, Operations, Devices, NoDevice, InPlace
<1>2. FlagsOK'
  BY DEF FlagsOK
<1>3. InPlace'
  BY DEF TypeOK, InPlace
<1>4. LocksHeld'
  BY DEF TypeOK, InPlace, LocksHeld
<1>5. CallOrder'
  BY DEF TypeOK, InPlace, LocksHeld, CallOrder
<1>6. OutputState'
  BY DEF TypeOK, FlagsOK, InPlace, LocksHeld, CallOrder, OutputState
<1>7. InputState'
  BY DEF TypeOK, FlagsOK, InPlace, LocksHeld, CallOrder, InputState
<1>8. RouteState'
  BY DEF TypeOK, FlagsOK, InPlace, LocksHeld, CallOrder, OutputState, InputState, RouteState
<1>9. UsesOpenPcm'
  BY DEF TypeOK, FlagsOK, InPlace, LocksHeld, OutputState, InputState, UsesOpenPcm
<1> QED BY <1>1, <1>2, <1>3, <1>4, <1>5, <1>6, <1>7, <1>8, <1>9

\* The output is to be put to standby.
LEMMA ForceOutInv ==
  ASSUME AudioInv, ForceOut
  PROVE  AudioInv'
<1> USE AudioAssumption DEF AudioInv, ForceOut, Goto, unchangedForce, Threads, PlayPlaces,
        RecPlaces, CallPlaces, threadVars, locks, routeVars, callVars, outVars, inVars,
        routing
<1>1. TypeOK'
  BY DEF TypeOK, Places, Operations, Devices, NoDevice, InPlace
<1>2. FlagsOK'
  BY DEF FlagsOK
<1>3. InPlace'
  BY DEF TypeOK, InPlace
<1>4. LocksHeld'
  BY DEF TypeOK, InPlace, LocksHeld
<1>5. CallOrder'
  BY DEF TypeOK, InPlace, LocksHeld, CallOrder
<1>6. OutputState'
  BY DEF TypeOK, FlagsOK, InPlace, LocksHeld, CallOrder, OutputState
<1>7. InputState'
  BY DEF TypeOK, FlagsOK, InPlace, LocksHeld, CallOrder, InputState
<1>8. RouteState'
  BY DEF TypeOK, FlagsOK, InPlace, LocksHeld, CallOrder, OutputState, InputState, RouteState
<1>9. UsesOpenPcm'
  BY DEF TypeOK, FlagsOK, InPlace, LocksHeld, OutputState, InputState, UsesOpenPcm
<1> QED BY <1>1, <1>2, <1>3, <1>4, <1>5, <1>6, <1>7, <1>8, <1>9

\* The input is to be put to standby.
LEMMA ForceInInv ==
  ASSUME AudioInv, ForceIn
  PROVE  AudioInv'
<1> USE AudioAssumption DEF AudioInv, ForceIn, Goto, unchangedForce, Threads, PlayPlaces,
        RecPlaces, CallPlaces, threadVars, locks, routeVars, callVars, outVars, inVars,
        routing
<1>1. TypeOK'
  BY DEF TypeOK, Places, Operations, Devices, NoDevice, InPlace
<1>2. FlagsOK'
  BY DEF FlagsOK
<1>3. InPlace'
  BY DEF TypeOK, InPlace
<1>4. LocksHeld'
  BY DEF TypeOK, InPlace, LocksHeld
<1>5. CallOrder'
  BY DEF TypeOK, InPlace, LocksHeld, CallOrder
<1>6. OutputState'
  BY DEF TypeOK, FlagsOK, InPlace, LocksHeld, CallOrder, OutputState
<1>7. InputState'
  BY DEF TypeOK, FlagsOK, InPlace, LocksHeld, CallOrder, InputState
<1>8. RouteState'
  BY DEF TypeOK, FlagsOK, InPlace, LocksHeld, CallOrder, OutputState, InputState, RouteState
<1>9. UsesOpenPcm'
  BY DEF TypeOK, FlagsOK, InPlace, LocksHeld, OutputState, InputState, UsesOpenPcm
<1> QED BY <1>1, <1>2, <1>3, <1>4, <1>5, <1>6, <1>7, <1>8, <1>9

\* The call has started.
LEMMA StartCallInv ==
  ASSUME AudioInv, StartCall
  PROVE  AudioInv'
<1> USE AudioAssumption DEF AudioInv, StartCall, CallIdle, Goto, unchangedCall, Threads,
        PlayPlaces, RecPlaces, CallPlaces, threadVars, locks, routeVars, callVars, outVars,
        inVars, routing
<1>1. TypeOK'
  BY DEF TypeOK, Places, Operations, Devices, NoDevice, InPlace
<1>2. FlagsOK'
  BY DEF FlagsOK
<1>3. InPlace'
  BY DEF TypeOK, InPlace
<1>4. LocksHeld'
  BY DEF TypeOK, InPlace, LocksHeld
<1>5. CallOrder'
  BY DEF TypeOK, InPlace, LocksHeld, CallOrder
<1>6. OutputState'
  BY DEF TypeOK, FlagsOK, InPlace, LocksHeld, CallOrder, OutputState
<1>7. InputState'
  BY DEF TypeOK, FlagsOK, InPlace, LocksHeld, CallOrder, InputState
<1>8. RouteState'
  BY DEF TypeOK, FlagsOK, InPlace, LocksHeld, CallOrder, OutputState, InputState, RouteState
<1>9. UsesOpenPcm'
  BY DEF TypeOK, FlagsOK, InPlace, LocksHeld, OutputState, InputState, UsesOpenPcm
<1> QED BY <1>1, <1>2, <1>3, <1>4, <1>5, <1>6, <1>7, <1>8, <1>9

\* The call has ended.
LEMMA EndCallInv ==
  ASSUME AudioInv, EndCall
  PROVE  AudioInv'
<1> USE AudioAssumption DEF AudioInv, EndCall, Goto, unchangedCall, Threads, PlayPlaces,
        RecPlaces, CallPlaces, threadVars, locks, routeVars, callVars, outVars, inVars,
        routing
<1>1. TypeOK'
  BY DEF TypeOK, Places, Operations, Devices, NoDevice, InPlace
<1>2. FlagsOK'
  BY DEF FlagsOK
<1>3. InPlace'
  BY DEF TypeOK, InPlace
<1>4. LocksHeld'
  BY DEF TypeOK, InPlace, LocksHeld
<1>5. CallOrder'
  BY DEF TypeOK, InPlace, LocksHeld, CallOrder
<1>6. OutputState'
  BY DEF TypeOK, FlagsOK, InPlace, LocksHeld, CallOrder, OutputState
<1>7. InputState'
  BY DEF TypeOK, FlagsOK, InPlace, LocksHeld, CallOrder, InputState
<1>8. RouteState'
  BY DEF TypeOK, FlagsOK, InPlace, LocksHeld, CallOrder, OutputState, InputState, RouteState
<1>9. UsesOpenPcm'
  BY DEF TypeOK, FlagsOK, InPlace, LocksHeld, OutputState, InputState, UsesOpenPcm
<1> QED BY <1>1, <1>2, <1>3, <1>4, <1>5, <1>6, <1>7, <1>8, <1>9

\* HAL_CLOSE is answered.
LEMMA CloseAnsweredInv ==
  ASSUME AudioInv, CloseAnswered
  PROVE  AudioInv'
<1> USE AudioAssumption DEF AudioInv, CloseAnswered, Goto, unchangedCall, Threads,
        PlayPlaces, RecPlaces, CallPlaces, threadVars, locks, routeVars, callVars, outVars,
        inVars, routing
<1>1. TypeOK'
  BY DEF TypeOK, Places, Operations, Devices, NoDevice, InPlace
<1>2. FlagsOK'
  BY DEF FlagsOK
<1>3. InPlace'
  BY DEF TypeOK, InPlace
<1>4. LocksHeld'
  BY DEF TypeOK, InPlace, LocksHeld
<1>5. CallOrder'
  BY DEF TypeOK, InPlace, LocksHeld, CallOrder
<1>6. OutputState'
  BY DEF TypeOK, FlagsOK, InPlace, LocksHeld, CallOrder, OutputState
<1>7. InputState'
  BY DEF TypeOK, FlagsOK, InPlace, LocksHeld, CallOrder, InputState
<1>8. RouteState'
  BY DEF TypeOK, FlagsOK, InPlace, LocksHeld, CallOrder, OutputState, InputState, RouteState
<1>9. UsesOpenPcm'
  BY DEF TypeOK, FlagsOK, InPlace, LocksHeld, OutputState, InputState, UsesOpenPcm
<1> QED BY <1>1, <1>2, <1>3, <1>4, <1>5, <1>6, <1>7, <1>8, <1>9

\* The routing thread.
LEMMA RoutingInv ==
  ASSUME AudioInv, RoutingWoken \/ do_select_devices
  PROVE  AudioInv'
<1> USE AudioAssumption DEF AudioInv, RoutingWoken, do_select_devices, Threads, PlayPlaces,
        RecPlaces, CallPlaces, threadVars, locks, routeVars, callVars, outVars, inVars,
        routing
<1>1. TypeOK'
  BY DEF TypeOK, Places, Operations, Devices, NoDevice, InPlace
<1>2. FlagsOK'
  <2>1. routed' \in BOOLEAN
    <3>1. CASE routed' = routed
      BY <3>1 DEF FlagsOK
    <3>2. CASE routed' = (cur_devices = devices)
      BY <3>2, Zenon
    <3> QED BY <3>1, <3>2
  <2> QED BY <2>1 DEF FlagsOK
<1>3. InPlace'
  BY DEF TypeOK, InPlace
<1>4. LocksHeld'
  BY DEF TypeOK, InPlace, LocksHeld
<1>5. CallOrder'
  BY DEF TypeOK, InPlace, LocksHeld, CallOrder
<1>6. OutputState'
  BY DEF TypeOK, FlagsOK, InPlace, LocksHeld, CallOrder, OutputState
<1>7. InputState'
  BY DEF TypeOK, FlagsOK, InPlace, LocksHeld, CallOrder, InputState
<1>8. RouteState'
  BY DEF TypeOK, FlagsOK, InPlace, LocksHeld, CallOrder, OutputState, InputState, RouteState
<1>9. UsesOpenPcm'
  BY DEF TypeOK, FlagsOK, InPlace, LocksHeld, OutputState, InputState, UsesOpenPcm
<1> QED BY <1>1, <1>2, <1>3, <1>4, <1>5, <1>6, <1>7, <1>8, <1>9

\* adev_set_mode.
LEMMA SetModeInv ==
  ASSUME AudioInv, adev_set_mode
  PROVE  AudioInv'
<1> USE AudioAssumption DEF AudioInv, adev_set_mode, Threads, PlayPlaces, RecPlaces,
        CallPlaces, threadVars, locks, routeVars, callVars, outVars, inVars, routing
<1>1. TypeOK'
  BY DEF TypeOK, Places, Operations, Devices, NoDevice, InPlace
<1>2. FlagsOK'
  BY DEF FlagsOK
<1>3. InPlace'
  BY DEF TypeOK, InPlace
<1>4. LocksHeld'
  BY DEF TypeOK, InPlace, LocksHeld
<1>5. CallOrder'
  BY DEF TypeOK, InPlace, LocksHeld, CallOrder
<1>6. OutputState'
  BY DEF TypeOK, FlagsOK, InPlace, LocksHeld, CallOrder, OutputState
<1>7. InputState'
  BY DEF TypeOK, FlagsOK, InPlace, LocksHeld, CallOrder, InputState
<1>8. RouteState'
  BY DEF TypeOK, FlagsOK, InPlace, LocksHeld, CallOrder, OutputState, InputState, RouteState
<1>9. UsesOpenPcm'
  BY DEF TypeOK, FlagsOK, InPlace, LocksHeld, OutputState, InputState, UsesOpenPcm
<1> QED BY <1>1, <1>2, <1>3, <1>4, <1>5, <1>6, <1>7, <1>8, <1>9

\* Every step keeps the invariant.
LEMMA NextInv == AudioInv /\ [Next]_vars => AudioInv'
<1> SUFFICES ASSUME AudioInv, [Next]_vars PROVE AudioInv'
  OBVIOUS
<1>1. CASE Play
  BY <1>1, OutCallInv, WriteBypassedInv, WriteStartsInv, WriteGoesOnInv, WriteTestsInv,
     WriteEndsInv, OutStandbyCallInv, OutSetParametersInv, SetOutDeviceInv DEF Play
<1>2. CASE Rec
  BY <1>2, InCallInv, ReadBypassedInv, StartInputInv, GetEchoInv, OpenInputInv, ReadGoesOnInv,
     ReadEndsInv, InStandbyCallInv, InSetParametersInv DEF Rec
<1>3. CASE Call
  BY <1>3, HalOpenInv, HalCloseInv, SwitchCtrlInv, SetParasInv, CpCrashInv, CallLockDevInv,
     ForceOutInv, ForceInInv, StartCallInv, EndCallInv, CloseAnsweredInv DEF Call
<1>4. CASE \E t \in Threads : DoStandby(t)
  BY <1>4, OutCloseInv, OutCloseVoiceInv, OutStandbyInv, InCloseInv, InDevicesOffInv, InStandbyInv
     DEF DoStandby
<1>5. CASE RoutingWoken \/ do_select_devices \/ adev_set_mode
  BY <1>5, RoutingInv, SetModeInv
<1>6. CASE UNCHANGED vars
  BY <1>6 DEF vars, threadVars, locks, routeVars, callVars, outVars, inVars, routing, AudioInv,
     TypeOK, FlagsOK, InPlace, LocksHeld, CallOrder, OutputState, InputState, RouteState,
     UsesOpenPcm
<1> QED BY <1>1, <1>2, <1>3, <1>4, <1>5, <1>6 DEF Next

\* AudioInv holds in every reachable state, for every bound of the signals and
\* every set of routes and input devices.
THEOREM AudioInvariant == Spec => []AudioInv
<1>1. QED BY InitInv, NextInv, PTL DEF Spec

\* No thread that has out->lock waits; one that has in->lock waits at most for
\* out->lock, and one that has adev->lock for either: the order of
\* audio_hw.c line 317.
LEMMA LockOrder ==
  ASSUME AudioInv, NEW t \in Threads
  PROVE  /\ outl = t => WaitsFor(t) = "free"
         /\ inl = t => WaitsFor(t) \in {outl, "free"}
         /\ adev = t => WaitsFor(t) \in {outl, inl, "free"}
         /\ WaitsFor(t) \in {adev, outl, inl, "free"}
<1> USE DEF AudioInv, TypeOK, InPlace, LocksHeld, WaitsFor, Threads, PlayPlaces, RecPlaces,
        CallPlaces
<1>1. CASE t = "play"
  BY <1>1
<1>2. CASE t = "rec"
  BY <1>2
<1>3. CASE t = "call"
  BY <1>3
<1> QED BY <1>1, <1>2, <1>3

\* The threads of the audio HAL never wait for each other in a circle, whatever
\* the streams, the modem and the routing thread do.
THEOREM DeadlockFree == Spec => []NoLockCycle
<1>1. AudioInv => NoLockCycle
  <2> SUFFICES ASSUME AudioInv, NEW S \in (SUBSET Threads) \ {{}},
                      \A t \in S : WaitsFor(t) \in S
               PROVE  FALSE
    BY DEF NoLockCycle
  <2>1. "free" \notin S
    BY DEF Threads
  <2>2. outl \notin S
    BY <2>1, LockOrder
  <2>3. inl \notin S
    BY <2>1, <2>2, LockOrder
  <2>4. adev \notin S
    BY <2>1, <2>2, <2>3, LockOrder
  <2>5. PICK t \in S : WaitsFor(t) \in S
    OBVIOUS
  <2> QED BY <2>1, <2>2, <2>3, <2>4, <2>5, LockOrder
<1> QED BY <1>1, AudioInvariant, PTL

\* out_write and in_read use a device that is open, and out_write the one of
\* the side that has the call, although both have released adev->lock.
THEOREM OpenPcm == Spec => []UsesOpenPcm
<1>1. AudioInv => UsesOpenPcm
  BY DEF AudioInv
<1> QED BY <1>1, AudioInvariant, PTL

\* Between two commands of the modem no stream is left on the device of the
\* other side, but for an out_write that has failed and closes the modem's
\* device in its next step.
THEOREM PcmSide == Spec => []PcmMatchesCall
<1>1. AudioInv => PcmMatchesCall
  BY DEF AudioInv, TypeOK, FlagsOK, CallOrder, LocksHeld, OutputState, InputState, PcmMatchesCall
<1> QED BY <1>1, AudioInvariant, PTL

\* What plays or records outside a call does so on the devices last set, once
\* the routing thread has done what it was told.
THEOREM RouteCorrect == Spec => []RouteFollows
<1>1. AudioInv => RouteFollows
  BY DEF AudioInv, RouteState, RouteFollows
<1> QED BY <1>1, AudioInvariant, PTL
=============================================================================
