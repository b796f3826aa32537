-------------------------------- MODULE FMHal --------------------------------
(***************************************************************************)
(* FMHalSource and FMHalThread of src/partner/trout/fmhal/FMHalSource.cpp: *)
(* a thread captures FM audio from one PCM device and copies every block   *)
(* into the ring (FMRing) of each started source; players start, stop and  *)
(* read sources.  The PCM device and the thread exist while a source does. *)
(*                                                                         *)
(* Locks.  The constructor, the destructor, start and stop hold the static *)
(* FMHalSource::mLock from beginning to end; they are one action each,     *)
(* except that the destructor of the last source waits for the thread.     *)
(* FMHalThread::mLock is held by the thread between its test of mTrack and *)
(* its wait ("towait") and while it delivers a block (one action).         *)
(* FMHalThread::exit takes neither: it only signals.                       *)
(*                                                                         *)
(* A ring is the number of its blocks (their contents are FMRing's         *)
(* business).  Audio is measured in frames (4 bytes), Grain in a block.    *)
(***************************************************************************)
EXTENDS Integers, FiniteSets

CONSTANTS
  Sources,    \* FMHalSource objects, each constructed at most once
  Threads,    \* FMHalThread objects (bound)
  NoThread, NoPcm,
  CountRange, \* values of openCount, a uint32_t
  UnitCount,  \* blocks of a ring
  Grain,      \* frames in a block
  MaxRead     \* bound: frames a read asks for

ASSUME FMAssumption ==
  /\ NoThread \notin Threads /\ NoPcm \notin Threads
  /\ IsFiniteSet(Sources) /\ CountRange \in Nat /\ CountRange > Cardinality(Sources)
  /\ UnitCount \in Nat \ {0} /\ Grain \in Nat \ {0} /\ MaxRead \in Nat \ {0}

VARIABLES
  obj,        \* "none", "live", "failed" (no sound card), "gone", "failedgone", or
              \* "abandoned": destroyed while the thread delivered to it
  state, is_ready, ply_buf, ply_len,   \* fields of each source
  left,       \* frames a read in progress still wants; 0: mLock_l is free
  count,      \* GetDataCount of each source's track, in blocks
  overflow,   \* FMTrack::overflow, FALSE: blocks are dropped
  openCount, pcmHandle, FMThread,      \* static fields of FMHalSource
  dtor,       \* progress of a destructor that has to stop the thread
  openPcm,    \* the PCM devices that are open; each is named after its thread
  tpc, mTrack, exit_var, exitPending   \* each FMHalThread

source == <<state, is_ready, ply_buf, ply_len, left>>
track  == <<count, overflow>>
static == <<openCount, pcmHandle, FMThread, dtor, openPcm>>
thread == <<tpc, mTrack, exit_var, exitPending>>
vars   == <<obj, source, track, static, thread>>

NoDtor == "none"

Init ==
  /\ obj = [s \in Sources |-> "none"] /\ state = [s \in Sources |-> "IDLE"]
  /\ is_ready = [s \in Sources |-> FALSE] /\ ply_buf = [s \in Sources |-> FALSE]
  /\ ply_len = [s \in Sources |-> 0] /\ left = [s \in Sources |-> 0]
  /\ count = [s \in Sources |-> 0] /\ overflow = [s \in Sources |-> TRUE]
  /\ openCount = 0 /\ pcmHandle = NoPcm /\ FMThread = NoThread /\ dtor = NoDtor
  /\ openPcm = {}
  /\ tpc = [t \in Threads |-> "unborn"] /\ mTrack = [t \in Threads |-> {}]
  /\ exit_var = [t \in Threads |-> FALSE] /\ exitPending = [t \in Threads |-> FALSE]

-----------------------------------------------------------------------------
(* FMHalSource.  Every action but read needs the static mLock.             *)

Unlocked == dtor = NoDtor

\* FMHalSource(): the first source opens the PCM device and creates the thread.
\* Without a sound card it returns before openCount is incremented.
Construct(s) ==
  /\ Unlocked /\ obj[s] = "none"
  /\ \/ /\ pcmHandle = NoPcm
        /\ obj' = [obj EXCEPT ![s] = "failed"]
        /\ UNCHANGED <<openCount, pcmHandle, openPcm, FMThread, tpc>>
     \/ /\ obj' = [obj EXCEPT ![s] = "live"]
        /\ openCount' = (openCount + 1) % CountRange
        /\ IF FMThread = NoThread
           THEN \E t \in Threads :
                  /\ tpc[t] = "unborn" /\ tpc' = [tpc EXCEPT ![t] = "top"]
                  /\ FMThread' = t /\ pcmHandle' = t /\ openPcm' = openPcm \cup {t}
           ELSE UNCHANGED <<FMThread, tpc, pcmHandle, openPcm>>
  /\ UNCHANGED <<source, track, dtor, mTrack, exit_var, exitPending>>

\* mWaitCond.signal()
Signalled(t) == [tpc EXCEPT ![t] = IF @ = "waiting" THEN "woken" ELSE @]

\* Mutant of AddTrack: the thread is not woken.
AddTrack_NoSignal(s) ==
  /\ tpc[FMThread] # "towait"
  /\ mTrack' = [mTrack EXCEPT ![FMThread] = @ \cup {s}]
  /\ UNCHANGED tpc

\* FMHalThread::start, under the thread's lock: a thread that had no track is woken.
AddTrack(s) ==
  /\ tpc[FMThread] # "towait"
  /\ mTrack' = [mTrack EXCEPT ![FMThread] = @ \cup {s}]
  /\ tpc' = IF mTrack[FMThread] = {} THEN Signalled(FMThread) ELSE tpc

\* FMHalThread::stop, likewise; it fails when the track is not in the list.
RemoveTrack(s) ==
  /\ tpc[FMThread] # "towait" /\ s \in mTrack[FMThread]
  /\ mTrack' = [mTrack EXCEPT ![FMThread] = @ \ {s}]

\* start.  Without a thread or a track it fails and changes nothing.
Start(s) ==
  /\ Unlocked /\ obj[s] = "live" /\ left[s] = 0
  /\ FMThread # NoThread /\ AddTrack(s)
  /\ state' = [state EXCEPT ![s] = "START"]
  /\ UNCHANGED <<obj, is_ready, ply_buf, ply_len, left, track, static, exit_var, exitPending>>

\* Mutant of Stop: the borrowed block is forgotten instead of given back, and the
\* next read gives it back.
Stop_KeepsBorrowed(s) ==
  /\ Unlocked /\ obj[s] = "live" /\ left[s] = 0
  /\ FMThread # NoThread /\ RemoveTrack(s)
  /\ count' = [count EXCEPT ![s] = IF ply_buf[s] THEN @ - 1 ELSE @]
  /\ ply_len' = [ply_len EXCEPT ![s] = 0]
  /\ state' = [state EXCEPT ![s] = "STOP"]
  /\ UNCHANGED <<obj, is_ready, ply_buf, left, overflow, static, tpc, exit_var, exitPending>>

\* Mutant of Stop: a source that stops stays in the state START.
Stop_KeepsState(s) ==
  /\ Unlocked /\ obj[s] = "live" /\ left[s] = 0
  /\ FMThread # NoThread /\ RemoveTrack(s)
  /\ count' = [count EXCEPT ![s] = IF ply_buf[s] THEN @ - 1 ELSE @]
  /\ ply_buf' = [ply_buf EXCEPT ![s] = FALSE] /\ ply_len' = [ply_len EXCEPT ![s] = 0]
  /\ UNCHANGED <<obj, state, is_ready, left, overflow, static, tpc, exit_var, exitPending>>

\* stop: a borrowed block goes back to the ring; what the ring holds stays.
Stop(s) ==
  /\ Unlocked /\ obj[s] = "live" /\ left[s] = 0
  /\ FMThread # NoThread /\ RemoveTrack(s)
  /\ count' = [count EXCEPT ![s] = IF ply_buf[s] THEN @ - 1 ELSE @]
  /\ ply_buf' = [ply_buf EXCEPT ![s] = FALSE] /\ ply_len' = [ply_len EXCEPT ![s] = 0]
  /\ state' = [state EXCEPT ![s] = "STOP"]
  /\ UNCHANGED <<obj, is_ready, left, overflow, static, tpc, exit_var, exitPending>>

\* The fields of a destroyed source go back to their initial values, and so does
\* its track unless the thread still refers to it.
Freed(s) ==
  /\ state' = [state EXCEPT ![s] = "IDLE"] /\ is_ready' = [is_ready EXCEPT ![s] = FALSE]
  /\ ply_buf' = [ply_buf EXCEPT ![s] = FALSE] /\ ply_len' = [ply_len EXCEPT ![s] = 0]
  /\ IF \E t \in Threads : s \in mTrack'[t]
     THEN UNCHANGED track
     ELSE count' = [count EXCEPT ![s] = 0] /\ overflow' = [overflow EXCEPT ![s] = TRUE]
  /\ UNCHANGED left

\* ~FMHalSource() of a source that is not the last one: its track stays in the
\* thread's list when the source is started.
Destroy(s) ==
  /\ Unlocked /\ obj[s] \in {"live", "failed"} /\ left[s] = 0
  /\ openCount' = (openCount - 1) % CountRange /\ openCount' # 0
  /\ obj' = [obj EXCEPT ![s] = IF @ = "failed" THEN "failedgone"
                               ELSE IF state[s] = "START" THEN "abandoned" ELSE "gone"]
  /\ UNCHANGED <<pcmHandle, FMThread, dtor, openPcm, thread>>
  /\ Freed(s)

\* ~FMHalSource() of the last source: stop if started, then FMHalThread::exit,
\* which does nothing when a track is left.
DestroyLast(s) ==
  /\ Unlocked /\ obj[s] \in {"live", "failed"} /\ left[s] = 0
  /\ openCount = 1 /\ FMThread # NoThread
  /\ state[s] = "START" => tpc[FMThread] # "towait"
  /\ openCount' = 0
  /\ mTrack' = [mTrack EXCEPT ![FMThread] = IF state[s] = "START" THEN @ \ {s} ELSE @]
  /\ obj' = [obj EXCEPT ![s] = IF @ = "failed" THEN "failedgone" ELSE "gone"]
  /\ Freed(s)
  /\ dtor' = IF mTrack'[FMThread] = {} THEN "exit" ELSE "close"
  /\ UNCHANGED <<pcmHandle, FMThread, openPcm, tpc, exit_var, exitPending>>

\* FMHalThread::exit: exit_var = 1; requestExit().
ExitRequest ==
  /\ dtor = "exit"
  /\ exit_var' = [exit_var EXCEPT ![FMThread] = TRUE]
  /\ exitPending' = [exitPending EXCEPT ![FMThread] = TRUE]
  /\ dtor' = "signal"
  /\ UNCHANGED <<obj, source, track, openCount, pcmHandle, FMThread, openPcm, tpc, mTrack>>

\* Mutant of ExitSignal: a sleeping thread is not woken.
ExitSignal_None ==
  /\ dtor = "signal" /\ dtor' = "join"
  /\ UNCHANGED <<obj, source, track, openCount, pcmHandle, FMThread, openPcm, thread>>

\* mWaitCond.signal(), without mLock.
ExitSignal ==
  /\ dtor = "signal"
  /\ tpc' = Signalled(FMThread)
  /\ dtor' = "join"
  /\ UNCHANGED <<obj, source, track, openCount, pcmHandle, FMThread, openPcm, mTrack,
                 exit_var, exitPending>>

\* Mutant of ExitJoin: the destructor does not wait for the thread to end.
ExitJoin_NoWait ==
  /\ dtor = "join"
  /\ exit_var' = [exit_var EXCEPT ![FMThread] = FALSE]
  /\ dtor' = "close"
  /\ UNCHANGED <<obj, source, track, openCount, pcmHandle, FMThread, openPcm, tpc, mTrack,
                 exitPending>>

\* requestExitAndWait() returns; exit_var = 0.
ExitJoin ==
  /\ dtor = "join" /\ tpc[FMThread] = "ended"
  /\ exit_var' = [exit_var EXCEPT ![FMThread] = FALSE]
  /\ dtor' = "close"
  /\ UNCHANGED <<obj, source, track, openCount, pcmHandle, FMThread, openPcm, tpc, mTrack,
                 exitPending>>

\* Mutant of Close: the PCM device stays open.
Close_KeepsPcm ==
  /\ dtor = "close"
  /\ FMThread' = NoThread /\ pcmHandle' = NoPcm
  /\ dtor' = NoDtor
  /\ UNCHANGED <<obj, source, track, openCount, openPcm, thread>>

\* The rest of the destructor: FMThread = NULL, pcm_close.
Close ==
  /\ dtor = "close"
  /\ FMThread' = NoThread /\ pcmHandle' = NoPcm /\ openPcm' = openPcm \ {pcmHandle}
  /\ dtor' = NoDtor
  /\ UNCHANGED <<obj, source, track, openCount, thread>>

-----------------------------------------------------------------------------
(* read, under the source's own mLock_l.                                   *)

Half(n) == 2 * n <= UnitCount

\* The tests before the loop.  A source that is not started, or whose ring has
\* not filled up to its half, returns silence and changes nothing.
ReadBegin(s, n) ==
  /\ obj[s] = "live" /\ left[s] = 0 /\ state[s] = "START"
  /\ is_ready[s] \/ 2 * count[s] >= UnitCount
  /\ is_ready' = [is_ready EXCEPT ![s] = TRUE]
  /\ left' = [left EXCEPT ![s] = n]
  /\ UNCHANGED <<obj, state, ply_buf, ply_len, track, static, thread>>

\* Copy from the borrowed block.
ReadCopy(s) ==
  /\ left[s] > 0 /\ ply_len[s] > 0
  /\ LET n == IF ply_len[s] > left[s] THEN left[s] ELSE ply_len[s]
     IN ply_len' = [ply_len EXCEPT ![s] = @ - n] /\ left' = [left EXCEPT ![s] = @ - n]
  /\ UNCHANGED <<obj, state, is_ready, ply_buf, track, static, thread>>

\* The block is used up (or there is none): PutBuf, then GetData.  On an empty
\* ring the read ends short; when more than one frame is missing, the rest is
\* filled with the last sample and the source is not ready any more.
ReadNext(s) ==
  LET rest == IF ply_buf[s] THEN count[s] - 1 ELSE count[s]
  IN /\ left[s] > 0 /\ ply_len[s] = 0
     /\ count' = [count EXCEPT ![s] = rest]
     /\ ply_buf' = [ply_buf EXCEPT ![s] = rest > 0]
     /\ ply_len' = [ply_len EXCEPT ![s] = IF rest > 0 THEN Grain ELSE 0]
     /\ left' = [left EXCEPT ![s] = IF rest > 0 THEN @ ELSE 0]
     /\ is_ready' = [is_ready EXCEPT ![s] = rest > 0 \/ left[s] = 1]
     /\ UNCHANGED <<obj, state, overflow, static, thread>>

-----------------------------------------------------------------------------
(* FMHalThread::threadLoop.                                                *)

\* while (!exitPending())
LoopTop(t) ==
  /\ tpc[t] = "top"
  /\ tpc' = [tpc EXCEPT ![t] = IF exitPending[t] THEN "ended" ELSE "test"]
  /\ UNCHANGED <<obj, source, track, static, mTrack, exit_var, exitPending>>

\* mLock.lock() and the tests of mTrack and exit_var.
LoopTest(t) ==
  /\ tpc[t] = "test"
  /\ tpc' = [tpc EXCEPT ![t] = IF mTrack[t] # {} THEN "read"
                               ELSE IF exit_var[t] THEN "ended" ELSE "towait"]
  /\ UNCHANGED <<obj, source, track, static, mTrack, exit_var, exitPending>>

\* mWaitCond.wait(mLock)
LoopWait(t) ==
  /\ tpc[t] = "towait"
  /\ tpc' = [tpc EXCEPT ![t] = "waiting"]
  /\ UNCHANGED <<obj, source, track, static, mTrack, exit_var, exitPending>>

\* The wait returns; mTrack is not tested again.
LoopWoken(t) ==
  /\ tpc[t] = "woken"
  /\ tpc' = [tpc EXCEPT ![t] = "read"]
  /\ UNCHANGED <<obj, source, track, static, mTrack, exit_var, exitPending>>

\* pcm_read returns, with audio or (after an error) with silence.
PcmRead(t) ==
  /\ tpc[t] = "read"
  /\ tpc' = [tpc EXCEPT ![t] = "deliver"]
  /\ UNCHANGED <<obj, source, track, static, mTrack, exit_var, exitPending>>

\* Mutant of Deliver: a ring that overflowed is never served again.
Deliver_NoRecovery(t) ==
  /\ tpc[t] = "deliver"
  /\ count' = [s \in Sources |-> IF s \in mTrack[t] /\ overflow[s] /\ count[s] < UnitCount
                                 THEN count[s] + 1 ELSE count[s]]
  /\ overflow' = [s \in Sources |-> overflow[s] /\ (s \in mTrack[t] => count[s] < UnitCount)]
  /\ tpc' = [tpc EXCEPT ![t] = "top"]
  /\ UNCHANGED <<obj, source, static, mTrack, exit_var, exitPending>>

\* The block goes to every track.  A full ring drops it, and the following ones
\* until the ring is at most half full.
Deliver(t) ==
  /\ tpc[t] = "deliver"
  /\ count' = [s \in Sources |-> IF s \in mTrack[t] /\ overflow[s] /\ count[s] < UnitCount
                                 THEN count[s] + 1 ELSE count[s]]
  /\ overflow' = [s \in Sources |-> IF s \notin mTrack[t] THEN overflow[s]
                                    ELSE IF overflow[s] THEN count[s] < UnitCount
                                    ELSE Half(count[s])]
  /\ tpc' = [tpc EXCEPT ![t] = "top"]
  /\ UNCHANGED <<obj, source, static, mTrack, exit_var, exitPending>>

-----------------------------------------------------------------------------
threadLoop(t) ==
  LoopTop(t) \/ LoopTest(t) \/ LoopWait(t) \/ LoopWoken(t) \/ PcmRead(t) \/ Deliver(t)

Exiting == ExitRequest \/ ExitSignal \/ ExitJoin \/ Close

read(s) == (\E n \in 1 .. MaxRead : ReadBegin(s, n)) \/ ReadCopy(s) \/ ReadNext(s)

Next ==
  \/ \E s \in Sources :
       Construct(s) \/ Start(s) \/ Stop(s) \/ Destroy(s) \/ DestroyLast(s) \/ read(s)
  \/ Exiting
  \/ \E t \in Threads : threadLoop(t)

Spec == Init /\ [][Next]_vars

\* The thread and a running destructor are scheduled, pcm_read returns, and the
\* player of a started source goes on reading.
FairSpec ==
  /\ Spec /\ WF_vars(Exiting)
  /\ \A t \in Threads : WF_vars(threadLoop(t))
  /\ \A s \in Sources : WF_vars(read(s))

-----------------------------------------------------------------------------
\* Type invariant of the sources, the tracks and the thread.
TypeOK ==
  /\ obj \in [Sources -> {"none", "live", "failed", "gone", "failedgone", "abandoned"}]
  /\ state \in [Sources -> {"IDLE", "START", "STOP"}]
  /\ is_ready \in [Sources -> BOOLEAN] /\ ply_buf \in [Sources -> BOOLEAN]
  /\ ply_len \in [Sources -> 0 .. Grain] /\ left \in [Sources -> 0 .. MaxRead]
  /\ count \in [Sources -> 0 .. UnitCount] /\ overflow \in [Sources -> BOOLEAN]
  /\ openCount \in 0 .. CountRange - 1 /\ pcmHandle \in Threads \cup {NoPcm}
  /\ FMThread \in Threads \cup {NoThread}
  /\ dtor \in {NoDtor, "exit", "signal", "join", "close"} /\ openPcm \subseteq Threads
  /\ tpc \in [Threads -> {"unborn", "top", "test", "towait", "waiting", "woken", "read",
                          "deliver", "ended"}]
  /\ mTrack \in [Threads -> SUBSET Sources]
  /\ exit_var \in [Threads -> BOOLEAN] /\ exitPending \in [Threads -> BOOLEAN]

\* The two ways in which the count of sources and the thread's list go wrong:
\* a started source that was destroyed while another one existed is still in
\* mTrack; a source without a sound card was destroyed, decrementing openCount.
Leaked == \E t \in Threads : \E s \in mTrack[t] : obj[s] = "abandoned"
Miscounted == \E s \in Sources : obj[s] = "failedgone"

\* The PCM device is not closed under a thread that reads it.
ReadsOpenPcm ==
  Leaked \/ Miscounted \/ \A t \in Threads : tpc[t] \in {"read", "woken"} => t \in openPcm

\* When the last source is gone, the device is closed and the thread has ended.
ClosedWhenUnused ==
  \/ Leaked \/ Miscounted \/ dtor # NoDtor
  \/ \E s \in Sources : obj[s] = "live"
  \/ openPcm = {} /\ \A t \in Threads : tpc[t] \in {"unborn", "ended"}

\* The current thread delivers to every started source and to no other live one, and
\* an earlier thread to no live one.  What else is in a list is a source that was
\* destroyed while started and not the last one (~FMHalSource skips stop then); one
\* that was stopped, or the last one, is in no list once it is destroyed.
StartedIsServed ==
  \/ Miscounted
  \/ /\ \A s \in Sources : obj[s] = "live" =>
          (state[s] = "START" <=> FMThread # NoThread /\ s \in mTrack[FMThread])
     /\ \A t \in Threads : \A s \in mTrack[t] :
          obj[s] = "abandoned" \/ (obj[s] = "live" /\ t = FMThread)

\* The block a player reads from is still counted in its ring, through stop,
\* restart and underrun: PutBuf never gives back a block that is not there.
BorrowedIsCounted ==
  \A s \in Sources : (ply_buf[s] => count[s] > 0) /\ (ply_len[s] > 0 => ply_buf[s])

\* Once exit() has set exit_var, the destructor of the last source finishes.  The
\* exception is a thread between its test of exit_var and its wait: exit() does
\* not take the thread's lock, so its signal may come before the wait and be lost.
DestructorEnds == (dtor = "signal" /\ tpc[FMThread] # "towait") ~> (dtor = NoDtor)

\* A started source gets audio: it becomes ready, after start, after an underrun
\* and after an overflow, as long as it stays started.
StartedBecomesReady ==
  \A s \in Sources :
    (obj[s] = "live" /\ state[s] = "START" /\ ~is_ready[s])
      ~> (is_ready[s] \/ state[s] # "START" \/ obj[s] # "live" \/ Miscounted)

\* A ring that overflowed is served again while its source is read.
OverflowEnds ==
  \A s \in Sources :
    (obj[s] = "live" /\ state[s] = "START" /\ ~overflow[s])
      ~> (overflow[s] \/ state[s] # "START" \/ obj[s] # "live" \/ Miscounted)

-----------------------------------------------------------------------------
(* The inductive invariant the proofs of FMHalProofs use.                   *)

Live == {s \in Sources : obj[s] = "live"}

\* The thread, the handle and the open device come and go together.
Handles ==
  /\ FMThread = NoThread => pcmHandle = NoPcm /\ openPcm = {} /\ dtor = NoDtor
  /\ FMThread # NoThread => pcmHandle = FMThread /\ openPcm = {FMThread}

\* A thread not yet created has no track; a source that never had a sound card,
\* or was not constructed, is in no list and was never started.
Fresh ==
  /\ \A t \in Threads : tpc[t] = "unborn" => mTrack[t] = {} /\ t # FMThread
  /\ \A s \in Sources : obj[s] \in {"none", "failed"} =>
       state[s] = "IDLE" /\ \A t \in Threads : s \notin mTrack[t]

\* openCount counts the live sources, and there is a thread while there is one.
Counted ==
  ~Miscounted => /\ openCount = Cardinality(Live)
                 /\ Live = {} <=> FMThread = NoThread \/ dtor # NoDtor

\* At most one thread runs, and it has ended before the device is closed.
OneThread ==
  ~Leaked /\ ~Miscounted => /\ \A t \in Threads \ {FMThread} : tpc[t] \in {"unborn", "ended"}
                            /\ dtor = "close" => tpc[FMThread] = "ended"

HalInv ==
  TypeOK /\ Handles /\ Fresh /\ Counted /\ StartedIsServed /\ OneThread /\ BorrowedIsCounted
=============================================================================
