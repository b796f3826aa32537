----------------------------- MODULE FMHalProofs -----------------------------
(***************************************************************************)
(* Proofs about FMHalSource and FMHalThread, for any number of sources and *)
(* threads.  The inductive invariant is HalInv of FMHal: what the static   *)
(* fields, openCount and the thread's list have to do with the sources     *)
(* that exist, as long as neither of the two leaks has happened.           *)
(***************************************************************************)
EXTENDS FMHal, FiniteSetTheorems, TLAPS

\* openCount never wraps while it counts the live sources.
LEMMA NoWrap ==
  ASSUME NEW n \in 0 .. CountRange - 1
  PROVE  n % CountRange = n
BY FMAssumption

\* There are at most as many live sources as sources.
LEMMA LiveCount ==
  /\ IsFiniteSet(Live) /\ Cardinality(Live) \in Nat /\ Cardinality(Live) < CountRange
  /\ Cardinality(Live) = 0 <=> Live = {}
<1>1. Live \subseteq Sources
  BY DEF Live
<1>2. IsFiniteSet(Live) /\ Cardinality(Live) <= Cardinality(Sources)
  BY <1>1, FMAssumption, FS_Subset
<1>3. Cardinality(Live) \in Nat /\ Cardinality(Sources) \in Nat
  BY <1>2, FMAssumption, FS_CardinalityType
<1> QED BY <1>2, <1>3, FMAssumption, FS_EmptySet

\* The initial state.
LEMMA InitInv == Init => HalInv
<1> SUFFICES ASSUME Init PROVE HalInv
  OBVIOUS
<1> USE FMAssumption DEF Init, NoDtor
<1>1. Live = {}
  BY DEF Live
<1>2. TypeOK
  BY FS_CardinalityType DEF TypeOK
<1>3. BorrowedIsCounted /\ Handles /\ Fresh /\ StartedIsServed /\ OneThread
  BY DEF BorrowedIsCounted, Handles, Fresh, StartedIsServed, OneThread
<1>4. Counted
  BY <1>1, FS_EmptySet DEF Counted
<1> QED BY <1>2, <1>3, <1>4 DEF HalInv

\* start puts the source into the thread's list and wakes a thread that waits.
LEMMA StartInv ==
  ASSUME HalInv, NEW s \in Sources, Start(s)
  PROVE  HalInv'
<1> USE FMAssumption DEF HalInv, Start, Unlocked, AddTrack, Signalled, source, track,
        static, thread, NoDtor
<1>1. TypeOK'
  BY DEF TypeOK, BorrowedIsCounted
<1>2. BorrowedIsCounted'
  BY DEF TypeOK, BorrowedIsCounted
<1>3. Handles'
  BY DEF TypeOK, Handles
<1>4. Fresh'
  BY DEF TypeOK, Fresh, Handles
<1>5. Live' = Live /\ (Miscounted' <=> Miscounted)
  BY DEF Live, Miscounted
<1>6. Counted'
  BY <1>5 DEF TypeOK, Handles, Counted
<1>7. StartedIsServed'
  BY <1>5 DEF TypeOK, Handles, Fresh, Counted, StartedIsServed, Live
<1>8. OneThread'
  BY <1>5 DEF TypeOK, Handles, Fresh, Counted, OneThread, Leaked, Live
<1> QED BY <1>1, <1>2, <1>3, <1>4, <1>6, <1>7, <1>8

\* stop takes the source out of the list.
LEMMA StopInv ==
  ASSUME HalInv, NEW s \in Sources, Stop(s)
  PROVE  HalInv'
<1> USE FMAssumption DEF HalInv, Stop, Unlocked, RemoveTrack, source, track, static, thread,
        NoDtor
<1>1. TypeOK'
  BY DEF TypeOK, BorrowedIsCounted
<1>2. BorrowedIsCounted'
  BY DEF TypeOK, BorrowedIsCounted
<1>3. Handles'
  BY DEF TypeOK, Handles
<1>4. Fresh'
  BY DEF TypeOK, Fresh, Handles
<1>5. Live' = Live /\ (Miscounted' <=> Miscounted)
  BY DEF Live, Miscounted
<1>6. Counted'
  BY <1>5 DEF TypeOK, Handles, Counted
<1>7. StartedIsServed'
  BY <1>5 DEF TypeOK, Handles, Fresh, Counted, StartedIsServed, Live
<1>8. OneThread'
  BY <1>5 DEF TypeOK, Handles, Fresh, Counted, OneThread, Leaked, Live
<1> QED BY <1>1, <1>2, <1>3, <1>4, <1>6, <1>7, <1>8

\* exit() asks the thread to end.
LEMMA ExitRequestInv ==
  ASSUME HalInv, ExitRequest
  PROVE  HalInv'
<1> USE FMAssumption DEF HalInv, ExitRequest, source, track, static, thread, NoDtor
<1>1. TypeOK'
  BY DEF TypeOK, BorrowedIsCounted
<1>2. BorrowedIsCounted'
  BY DEF TypeOK, BorrowedIsCounted
<1>3. Handles'
  BY DEF TypeOK, Handles
<1>4. Fresh'
  BY DEF TypeOK, Fresh, Handles
<1>5. Live' = Live /\ (Miscounted' <=> Miscounted)
  BY DEF Live, Miscounted
<1>6. Counted'
  BY <1>5 DEF TypeOK, Handles, Counted
<1>7. StartedIsServed'
  BY <1>5 DEF TypeOK, Handles, Fresh, Counted, StartedIsServed, Live
<1>8. OneThread'
  BY <1>5 DEF TypeOK, Handles, Fresh, Counted, OneThread, Leaked, Live
<1> QED BY <1>1, <1>2, <1>3, <1>4, <1>6, <1>7, <1>8

\* exit() wakes the thread.
LEMMA ExitSignalInv ==
  ASSUME HalInv, ExitSignal
  PROVE  HalInv'
<1> USE FMAssumption DEF HalInv, ExitSignal, Signalled, source, track, static, thread,
        NoDtor
<1>1. TypeOK'
  BY DEF TypeOK, BorrowedIsCounted
<1>2. BorrowedIsCounted'
  BY DEF TypeOK, BorrowedIsCounted
<1>3. Handles'
  BY DEF TypeOK, Handles
<1>4. Fresh'
  BY DEF TypeOK, Fresh, Handles
<1>5. Live' = Live /\ (Miscounted' <=> Miscounted)
  BY DEF Live, Miscounted
<1>6. Counted'
  BY <1>5 DEF TypeOK, Handles, Counted
<1>7. StartedIsServed'
  BY <1>5 DEF TypeOK, Handles, Fresh, Counted, StartedIsServed, Live
<1>8. OneThread'
  BY <1>5 DEF TypeOK, Handles, Fresh, Counted, OneThread, Leaked, Live
<1> QED BY <1>1, <1>2, <1>3, <1>4, <1>6, <1>7, <1>8

\* The thread has ended.
LEMMA ExitJoinInv ==
  ASSUME HalInv, ExitJoin
  PROVE  HalInv'
<1> USE FMAssumption DEF HalInv, ExitJoin, source, track, static, thread, NoDtor
<1>1. TypeOK'
  BY DEF TypeOK, BorrowedIsCounted
<1>2. BorrowedIsCounted'
  BY DEF TypeOK, BorrowedIsCounted
<1>3. Handles'
  BY DEF TypeOK, Handles
<1>4. Fresh'
  BY DEF TypeOK, Fresh, Handles
<1>5. Live' = Live /\ (Miscounted' <=> Miscounted)
  BY DEF Live, Miscounted
<1>6. Counted'
  BY <1>5 DEF TypeOK, Handles, Counted
<1>7. StartedIsServed'
  BY <1>5 DEF TypeOK, Handles, Fresh, Counted, StartedIsServed, Live
<1>8. OneThread'
  BY <1>5 DEF TypeOK, Handles, Fresh, Counted, OneThread, Leaked, Live
<1> QED BY <1>1, <1>2, <1>3, <1>4, <1>6, <1>7, <1>8

\* The device is closed.
LEMMA CloseInv ==
  ASSUME HalInv, Close
  PROVE  HalInv'
<1> USE FMAssumption DEF HalInv, Close, source, track, static, thread, NoDtor
<1>1. TypeOK'
  BY DEF TypeOK, BorrowedIsCounted
<1>2. BorrowedIsCounted'
  BY DEF TypeOK, BorrowedIsCounted
<1>3. Handles'
  BY DEF TypeOK, Handles
<1>4. Fresh'
  BY DEF TypeOK, Fresh, Handles
<1>5. Live' = Live /\ (Miscounted' <=> Miscounted)
  BY DEF Live, Miscounted
<1>6. Counted'
  BY <1>5 DEF TypeOK, Handles, Counted
<1>7. StartedIsServed'
  BY <1>5 DEF TypeOK, Handles, Fresh, Counted, StartedIsServed, Live
<1>8. OneThread'
  BY <1>5 DEF TypeOK, Handles, Fresh, Counted, OneThread, Leaked, Live
<1> QED BY <1>1, <1>2, <1>3, <1>4, <1>6, <1>7, <1>8

\* read begins.
LEMMA ReadBeginInv ==
  ASSUME HalInv, NEW s \in Sources, NEW n \in 1 .. MaxRead, ReadBegin(s, n)
  PROVE  HalInv'
<1> USE FMAssumption DEF HalInv, ReadBegin, source, track, static, thread, NoDtor
<1>1. TypeOK'
  BY DEF TypeOK, BorrowedIsCounted
<1>2. BorrowedIsCounted'
  BY DEF TypeOK, BorrowedIsCounted
<1>3. Handles'
  BY DEF TypeOK, Handles
<1>4. Fresh'
  BY DEF TypeOK, Fresh, Handles
<1>5. Live' = Live /\ (Miscounted' <=> Miscounted)
  BY DEF Live, Miscounted
<1>6. Counted'
  BY <1>5 DEF TypeOK, Handles, Counted
<1>7. StartedIsServed'
  BY <1>5 DEF TypeOK, Handles, Fresh, Counted, StartedIsServed, Live
<1>8. OneThread'
  BY <1>5 DEF TypeOK, Handles, Fresh, Counted, OneThread, Leaked, Live
<1> QED BY <1>1, <1>2, <1>3, <1>4, <1>6, <1>7, <1>8

\* read copies from the borrowed block.
LEMMA ReadCopyInv ==
  ASSUME HalInv, NEW s \in Sources, ReadCopy(s)
  PROVE  HalInv'
<1> USE FMAssumption DEF HalInv, ReadCopy, source, track, static, thread, NoDtor
<1>1. TypeOK'
  BY DEF TypeOK, BorrowedIsCounted
<1>2. BorrowedIsCounted'
  BY DEF TypeOK, BorrowedIsCounted
<1>3. Handles'
  BY DEF TypeOK, Handles
<1>4. Fresh'
  BY DEF TypeOK, Fresh, Handles
<1>5. Live' = Live /\ (Miscounted' <=> Miscounted)
  BY DEF Live, Miscounted
<1>6. Counted'
  BY <1>5 DEF TypeOK, Handles, Counted
<1>7. StartedIsServed'
  BY <1>5 DEF TypeOK, Handles, Fresh, Counted, StartedIsServed, Live
<1>8. OneThread'
  BY <1>5 DEF TypeOK, Handles, Fresh, Counted, OneThread, Leaked, Live
<1> QED BY <1>1, <1>2, <1>3, <1>4, <1>6, <1>7, <1>8

\* read gives the block back and takes the next one.
LEMMA ReadNextInv ==
  ASSUME HalInv, NEW s \in Sources, ReadNext(s)
  PROVE  HalInv'
<1> USE FMAssumption DEF HalInv, ReadNext, source, track, static, thread, NoDtor
<1>1. TypeOK'
  BY DEF TypeOK, BorrowedIsCounted
<1>2. BorrowedIsCounted'
  <2> SUFFICES ASSUME NEW r \in Sources
               PROVE  (ply_buf'[r] => count'[r] > 0) /\ (ply_len'[r] > 0 => ply_buf'[r])
    BY DEF BorrowedIsCounted
  <2>1. CASE r # s
    <3>1. ply_buf'[r] = ply_buf[r] /\ ply_len'[r] = ply_len[r] /\ count'[r] = count[r]
      BY <2>1 DEF TypeOK
    <3> QED BY <3>1 DEF BorrowedIsCounted
  <2>2. CASE r = s
    <3> DEFINE rest == IF ply_buf[s] THEN count[s] - 1 ELSE count[s]
    <3>1. /\ ply_buf'[s] = (rest > 0) /\ count'[s] = rest
          /\ ply_len'[s] = IF rest > 0 THEN Grain ELSE 0
      BY DEF TypeOK
    <3> HIDE DEF rest
    <3>2. ply_buf'[s] <=> rest > 0
      BY <3>1
    <3>3. ply_len'[s] > 0 => rest > 0
      BY <3>1
    <3> QED BY <2>2, <3>1, <3>2, <3>3
  <2> QED BY <2>1, <2>2
<1>3. Handles'
  BY DEF TypeOK, Handles
<1>4. Fresh'
  BY DEF TypeOK, Fresh, Handles
<1>5. Live' = Live /\ (Miscounted' <=> Miscounted)
  BY DEF Live, Miscounted
<1>6. Counted'
  BY <1>5 DEF TypeOK, Handles, Counted
<1>7. StartedIsServed'
  BY <1>5 DEF TypeOK, Handles, Fresh, Counted, StartedIsServed, Live
<1>8. OneThread'
  BY <1>5 DEF TypeOK, Handles, Fresh, Counted, OneThread, Leaked, Live
<1> QED BY <1>1, <1>2, <1>3, <1>4, <1>6, <1>7, <1>8

\* The thread's steps up to the delivery of a block.
LEMMA LoopInv ==
  ASSUME HalInv, NEW t \in Threads,
         LoopTop(t) \/ LoopTest(t) \/ LoopWait(t) \/ LoopWoken(t) \/ PcmRead(t)
  PROVE  HalInv'
<1> USE FMAssumption DEF HalInv, LoopTop, LoopTest, LoopWait, LoopWoken, PcmRead, source,
        track, static, thread, NoDtor
<1>1. TypeOK'
  BY DEF TypeOK, BorrowedIsCounted
<1>2. BorrowedIsCounted'
  BY DEF TypeOK, BorrowedIsCounted
<1>3. Handles'
  BY DEF TypeOK, Handles
<1>4. Fresh'
  BY DEF TypeOK, Fresh, Handles
<1>5. Live' = Live /\ (Miscounted' <=> Miscounted)
  BY DEF Live, Miscounted
<1>6. Counted'
  BY <1>5 DEF TypeOK, Handles, Counted
<1>7. StartedIsServed'
  BY <1>5 DEF TypeOK, Handles, Fresh, Counted, StartedIsServed, Live
<1>8. OneThread'
  BY <1>5 DEF TypeOK, Handles, Fresh, Counted, OneThread, Leaked, Live
<1> QED BY <1>1, <1>2, <1>3, <1>4, <1>6, <1>7, <1>8

\* A block is delivered to every ring.
LEMMA DeliverInv ==
  ASSUME HalInv, NEW t \in Threads, Deliver(t)
  PROVE  HalInv'
<1> USE FMAssumption DEF HalInv, Deliver, Half, source, track, static, thread, NoDtor
<1>1. TypeOK'
  <2>1. \A s \in Sources : count[s] \in 0 .. UnitCount
    BY DEF TypeOK
  <2>2. \A s \in Sources : (IF s \in mTrack[t] /\ overflow[s] /\ count[s] < UnitCount
                           THEN count[s] + 1 ELSE count[s]) \in 0 .. UnitCount
    BY <2>1
  <2>3. count' \in [Sources -> 0 .. UnitCount]
    BY <2>2
  <2>4. overflow' \in [Sources -> BOOLEAN]
    <3>1. \A s \in Sources : overflow[s] \in BOOLEAN
      BY DEF TypeOK
    <3>2. \A s \in Sources : (IF s \notin mTrack[t] THEN overflow[s]
                             ELSE IF overflow[s] THEN count[s] < UnitCount
                             ELSE Half(count[s])) \in BOOLEAN
      <4> TAKE s \in Sources
      <4> DEFINE room == count[s] < UnitCount
                 half == Half(count[s])
      <4>1. room \in BOOLEAN /\ half \in BOOLEAN
        OBVIOUS
      <4> HIDE DEF room, half
      <4>2. (IF s \notin mTrack[t] THEN overflow[s] ELSE IF overflow[s] THEN room ELSE half)
              \in BOOLEAN
        BY <3>1, <4>1, Zenon
      <4> QED BY <4>2 DEF room, half
    <3> QED BY <3>2
  <2> QED BY <2>3, <2>4 DEF TypeOK
<1>2. BorrowedIsCounted'
  BY DEF TypeOK, BorrowedIsCounted
<1>3. Handles'
  BY DEF TypeOK, Handles
<1>4. Fresh'
  BY DEF TypeOK, Fresh, Handles
<1>5. Live' = Live /\ (Miscounted' <=> Miscounted)
  BY DEF Live, Miscounted
<1>6. Counted'
  BY <1>5 DEF TypeOK, Handles, Counted
<1>7. StartedIsServed'
  BY <1>5 DEF TypeOK, Handles, Fresh, Counted, StartedIsServed, Live
<1>8. OneThread'
  BY <1>5 DEF TypeOK, Handles, Fresh, Counted, OneThread, Leaked, Live
<1> QED BY <1>1, <1>2, <1>3, <1>4, <1>6, <1>7, <1>8

\* A source is constructed, with or without a sound card.
LEMMA ConstructInv ==
  ASSUME HalInv, NEW s \in Sources, Construct(s)
  PROVE  HalInv'
<1> USE FMAssumption DEF HalInv, Unlocked, source, track, static, thread, NoDtor
<1>1. CASE /\ obj' = [obj EXCEPT ![s] = "failed"]
           /\ UNCHANGED <<openCount, pcmHandle, openPcm, FMThread, tpc>>
  <2> USE <1>1 DEF Construct
  <2>1. TypeOK'
    BY DEF TypeOK
  <2>2. BorrowedIsCounted' /\ Handles' /\ Fresh'
    BY DEF TypeOK, BorrowedIsCounted, Handles, Fresh
  <2>3. Live' = Live /\ (Miscounted' <=> Miscounted)
    BY DEF TypeOK, Live, Miscounted
  <2>4. Counted' /\ StartedIsServed'
    BY <2>3 DEF TypeOK, Counted, StartedIsServed
  <2>5. OneThread'
    BY <2>3 DEF TypeOK, OneThread, Leaked
  <2> QED BY <2>1, <2>2, <2>4, <2>5
<1>2. CASE /\ obj' = [obj EXCEPT ![s] = "live"]
           /\ openCount' = (openCount + 1) % CountRange
  <2> USE <1>2 DEF Construct
  <2>1. /\ Live' = Live \cup {s} /\ s \notin Live
        /\ (Miscounted' <=> Miscounted) /\ (Leaked' <=> Leaked)
    BY DEF TypeOK, Live, Miscounted, Leaked, Fresh
  <2>2. TypeOK'
    BY DEF TypeOK
  <2>3. BorrowedIsCounted' /\ Handles' /\ Fresh'
    BY DEF TypeOK, BorrowedIsCounted, Handles, Fresh
  <2>4. Counted'
    <3> SUFFICES ASSUME ~Miscounted'
                 PROVE  openCount' = Cardinality(Live') /\ FMThread' # NoThread
      BY <2>1 DEF Counted
    <3>1. openCount = Cardinality(Live)
      BY <2>1 DEF Counted
    <3>2. Cardinality(Live') = Cardinality(Live) + 1
      BY <2>1, LiveCount, FS_AddElement
    <3>3. Cardinality(Live') < CountRange
      <4>1. Live' \subseteq Sources
        BY DEF Live
      <4> QED BY <4>1, FS_Subset, FS_CardinalityType, <3>2, LiveCount
    <3>4. openCount' = Cardinality(Live')
      BY <3>1, <3>2, <3>3, LiveCount, NoWrap
    <3> QED BY <3>4 DEF TypeOK
  <2>5. StartedIsServed'
    BY <2>1 DEF TypeOK, StartedIsServed, Fresh, Handles, Counted
  <2>6. OneThread'
    BY <2>1 DEF TypeOK, OneThread, Handles
  <2> QED BY <2>2, <2>3, <2>4, <2>5, <2>6
<1> QED BY <1>1, <1>2 DEF Construct

\* The life of a source ends.
Ended(s) ==
  /\ obj[s] \in {"live", "failed"}
  /\ \E x \in {"gone", "abandoned", "failedgone"} :
       obj' = [obj EXCEPT ![s] = x] /\ (x = "failedgone" <=> obj[s] = "failed")

\* What the end of a source's life does to the set of live ones.
LEMMA FreedLive ==
  ASSUME HalInv, NEW s \in Sources, Ended(s)
  PROVE  /\ Live' = Live \ {s}
         /\ ~Miscounted' => ~Miscounted /\ s \in Live
BY DEF HalInv, TypeOK, Ended, Live, Miscounted

\* The fields of the source and of its track are set back.
LEMMA FreedTypes ==
  ASSUME TypeOK, BorrowedIsCounted, NEW s \in Sources, Ended(s), Freed(s)
  PROVE  /\ obj' \in [Sources -> {"none", "live", "failed", "gone", "failedgone", "abandoned"}]
         /\ state' \in [Sources -> {"IDLE", "START", "STOP"}]
         /\ is_ready' \in [Sources -> BOOLEAN] /\ ply_buf' \in [Sources -> BOOLEAN]
         /\ ply_len' \in [Sources -> 0 .. Grain] /\ left' \in [Sources -> 0 .. MaxRead]
         /\ count' \in [Sources -> 0 .. UnitCount] /\ overflow' \in [Sources -> BOOLEAN]
         /\ BorrowedIsCounted'
<1> USE FMAssumption DEF Ended
<1>1. CASE \E t \in Threads : s \in mTrack'[t]
  BY <1>1 DEF TypeOK, Freed, BorrowedIsCounted, track
<1>2. CASE ~\E t \in Threads : s \in mTrack'[t]
  <2>1. count' = [count EXCEPT ![s] = 0] /\ overflow' = [overflow EXCEPT ![s] = TRUE]
    BY <1>2 DEF Freed
  <2>2. /\ count' \in [Sources -> 0 .. UnitCount] /\ overflow' \in [Sources -> BOOLEAN]
        /\ obj' \in [Sources -> {"none", "live", "failed", "gone", "failedgone", "abandoned"}]
    BY <2>1 DEF TypeOK, Freed
  <2>3. BorrowedIsCounted'
    BY <2>1 DEF TypeOK, Freed, BorrowedIsCounted
  <2> QED BY <2>2, <2>3 DEF TypeOK, Freed
<1> QED BY <1>1, <1>2

\* A source that is not the last one is destroyed.
LEMMA DestroyInv ==
  ASSUME HalInv, NEW s \in Sources, Destroy(s)
  PROVE  HalInv'
<1> USE FMAssumption DEF HalInv, Destroy, Unlocked, thread, NoDtor
<1>0. Ended(s)
  BY DEF Ended
<1>1. TypeOK' /\ BorrowedIsCounted'
  BY <1>0, FreedTypes DEF TypeOK
<1>2. Handles'
  BY DEF Handles
<1>3. Fresh'
  BY DEF TypeOK, Fresh, Freed
<1>4. Counted'
  <2> SUFFICES ASSUME ~Miscounted'
               PROVE  openCount' = Cardinality(Live') /\ Live' # {} /\ FMThread # NoThread
    BY DEF Counted
  <2>1. openCount = Cardinality(Live) /\ s \in Live /\ Live' = Live \ {s} /\ FMThread # NoThread
    BY <1>0, FreedLive DEF Counted
  <2>2. Cardinality(Live') = openCount - 1 /\ openCount > 0 /\ openCount < CountRange
    <3>1. Live # {} /\ Cardinality(Live') = Cardinality(Live) - 1
      BY <2>1, LiveCount, FS_RemoveElement
    <3> QED BY <2>1, <3>1, LiveCount
  <2>3. openCount' = openCount - 1
    BY <2>2, NoWrap DEF TypeOK
  <2> QED BY <2>1, <2>2, <2>3, LiveCount, FS_EmptySet
<1>5. StartedIsServed'
  <2> SUFFICES ASSUME ~Miscounted' PROVE StartedIsServed'
    BY DEF StartedIsServed
  <2>1. StartedIsServed /\ ~Miscounted /\ obj[s] = "live" /\ UNCHANGED <<mTrack, FMThread>>
    BY <1>0, FreedLive DEF Live
  <2>2. \A r \in Sources : obj'[r] = "live" =>
          (state'[r] = "START" <=> FMThread' # NoThread /\ r \in mTrack'[FMThread'])
    BY <2>1 DEF StartedIsServed, TypeOK, Freed
  <2>3. ASSUME NEW t \in Threads, NEW r \in mTrack'[t]
        PROVE  obj'[r] = "abandoned" \/ (obj'[r] = "live" /\ t = FMThread')
    <3>1. r \in Sources /\ r \in mTrack[t]
      BY <2>1 DEF TypeOK
    <3>2. obj[r] = "abandoned" \/ (obj[r] = "live" /\ t = FMThread)
      BY <2>1, <3>1 DEF StartedIsServed
    <3>3. r = s => obj'[r] = "abandoned"
      BY <2>1, <3>1, <3>2 DEF StartedIsServed, TypeOK
    <3> QED BY <2>1, <3>1, <3>2, <3>3 DEF TypeOK
  <2> QED BY <2>2, <2>3 DEF StartedIsServed
<1>6. OneThread'
  <2> SUFFICES ASSUME ~Leaked', ~Miscounted' PROVE ~Leaked /\ ~Miscounted
    BY DEF OneThread
  <2>1. ~Miscounted /\ UNCHANGED mTrack
    BY <1>0, FreedLive
  <2>2. ASSUME NEW t \in Threads, NEW r \in mTrack[t], obj[r] = "abandoned"
        PROVE  obj'[r] = "abandoned"
    BY <2>2 DEF TypeOK
  <2> QED BY <2>1, <2>2 DEF Leaked
<1> QED BY <1>1, <1>2, <1>3, <1>4, <1>5, <1>6

\* The last source is destroyed.
LEMMA DestroyLastInv ==
  ASSUME HalInv, NEW s \in Sources, DestroyLast(s)
  PROVE  HalInv'
<1> USE FMAssumption DEF HalInv, DestroyLast, Unlocked, thread, NoDtor
<1>0. Ended(s)
  BY DEF Ended
<1>1. TypeOK' /\ BorrowedIsCounted'
  BY <1>0, FreedTypes DEF TypeOK
<1>2. Handles'
  BY DEF Handles
<1>3. Fresh'
  BY DEF TypeOK, Fresh, Freed
<1>4. ~Miscounted' => Live = {s} /\ Live' = {}
  <2> SUFFICES ASSUME ~Miscounted' PROVE Live = {s} /\ Live' = {}
    OBVIOUS
  <2>1. Cardinality(Live) = 1 /\ s \in Live /\ Live' = Live \ {s}
    BY <1>0, FreedLive DEF Counted
  <2> QED BY <2>1, LiveCount, FS_RemoveElement, FS_EmptySet
<1>5. Counted'
  BY <1>4, FS_EmptySet DEF Counted
<1>6. StartedIsServed'
  <2> SUFFICES ASSUME ~Miscounted'
               PROVE  \A t \in Threads : \A r \in mTrack'[t] : obj'[r] = "abandoned"
    BY <1>4 DEF StartedIsServed, Live
  <2>1. StartedIsServed /\ ~Miscounted /\ obj[s] = "live" /\ FMThread \in Threads
    BY <1>0, FreedLive DEF Live, TypeOK
  <2> TAKE t \in Threads
  <2> TAKE r \in mTrack'[t]
  <2>2. r \in Sources /\ r \in mTrack[t]
    BY <2>1 DEF TypeOK
  <2>3. obj[r] = "abandoned" \/ (obj[r] = "live" /\ t = FMThread)
    BY <2>1, <2>2 DEF StartedIsServed
  <2>4. r # s
    <3> SUFFICES ASSUME r = s PROVE FALSE
      OBVIOUS
    <3>1. t = FMThread /\ state[s] = "START"
      BY <2>1, <2>2, <2>3 DEF StartedIsServed
    <3> QED BY <2>1, <3>1 DEF TypeOK
  <2>5. obj'[r] = obj[r] /\ r \notin Live
    BY <1>4, <2>2, <2>4 DEF TypeOK
  <2> QED BY <2>2, <2>3, <2>5 DEF Live
<1>7. OneThread'
  <2> SUFFICES ASSUME ~Leaked', ~Miscounted'
               PROVE  /\ \A t \in Threads \ {FMThread} : tpc[t] \in {"unborn", "ended"}
                      /\ mTrack'[FMThread] = {}
    BY DEF OneThread
  <2>1. mTrack'[FMThread] = {}
    <3> SUFFICES ASSUME NEW r \in mTrack'[FMThread] PROVE FALSE
      OBVIOUS
    <3>1. FMThread \in Threads /\ FMThread' = FMThread /\ r \in Sources
      BY DEF TypeOK
    <3>2. obj'[r] # "abandoned" /\ obj'[r] # "live"
      BY <1>4, <3>1 DEF Leaked, Live
    <3> QED BY <1>6, <3>1, <3>2 DEF StartedIsServed
  <2>2. ~Leaked
    <3> SUFFICES ASSUME NEW t \in Threads, NEW r \in mTrack[t], obj[r] = "abandoned"
                 PROVE  FALSE
      BY DEF Leaked
    <3>1. r # s /\ r \in Sources
      BY DEF TypeOK
    <3>2. r \in mTrack'[t] /\ obj'[r] = "abandoned"
      BY <3>1 DEF TypeOK
    <3> QED BY <3>2 DEF Leaked
  <2> QED BY <1>0, <2>1, <2>2, FreedLive DEF OneThread
<1> QED BY <1>1, <1>2, <1>3, <1>5, <1>6, <1>7

\* Every step keeps the invariant.
LEMMA NextInv == HalInv /\ [Next]_vars => HalInv'
<1> SUFFICES ASSUME HalInv, [Next]_vars PROVE HalInv'
  OBVIOUS
<1>1. ASSUME NEW s \in Sources,
             Construct(s) \/ Start(s) \/ Stop(s) \/ Destroy(s) \/ DestroyLast(s) \/ read(s)
      PROVE  HalInv'
  BY <1>1, ConstructInv, StartInv, StopInv, DestroyInv, DestroyLastInv, ReadBeginInv, ReadCopyInv,
     ReadNextInv DEF read
<1>2. CASE Exiting
  BY <1>2, ExitRequestInv, ExitSignalInv, ExitJoinInv, CloseInv DEF Exiting
<1>3. ASSUME NEW t \in Threads, threadLoop(t)
      PROVE  HalInv'
  BY <1>3, LoopInv, DeliverInv DEF threadLoop
<1>4. CASE UNCHANGED vars
  BY <1>4 DEF vars, source, track, static, thread, HalInv, TypeOK, Handles, Fresh, Counted,
     StartedIsServed, OneThread, BorrowedIsCounted, Live, Leaked, Miscounted
<1> QED BY <1>1, <1>2, <1>3, <1>4 DEF Next

\* HalInv holds in every reachable state, for every number of sources and
\* threads, every size of the rings and of what is read.
THEOREM HalInvariant == Spec => []HalInv
<1> QED BY InitInv, NextInv, PTL DEF Spec

\* The device is never closed under the thread that reads it, unless a source
\* was destroyed while started or one without a sound card was destroyed.
THEOREM PcmStaysOpen == Spec => []ReadsOpenPcm
<1>1. HalInv => ReadsOpenPcm
  <2> SUFFICES ASSUME HalInv, ~Leaked, ~Miscounted, NEW t \in Threads, tpc[t] \in {"read", "woken"}
               PROVE  t \in openPcm
    BY DEF ReadsOpenPcm
  <2>1. t = FMThread
    BY DEF HalInv, OneThread
  <2> QED BY <2>1, FMAssumption DEF HalInv, Handles
<1> QED BY <1>1, HalInvariant, PTL

\* When the last source is gone the device is closed and the thread has ended,
\* with the same two exceptions.
THEOREM ClosedAtEnd == Spec => []ClosedWhenUnused
<1>1. HalInv => ClosedWhenUnused
  <2> SUFFICES ASSUME HalInv, ~Leaked, ~Miscounted, dtor = NoDtor,
                      ~\E s \in Sources : obj[s] = "live"
               PROVE  openPcm = {} /\ \A t \in Threads : tpc[t] \in {"unborn", "ended"}
    BY DEF ClosedWhenUnused
  <2>1. FMThread = NoThread
    BY DEF HalInv, Counted, Live
  <2> QED BY <2>1, FMAssumption DEF HalInv, Handles, OneThread
<1> QED BY <1>1, HalInvariant, PTL

\* The current thread delivers to exactly the live sources that are started and, of
\* the destroyed ones, to those that were destroyed while started and not the last;
\* no earlier thread delivers to a live source.
THEOREM ServedWhenStarted == Spec => []StartedIsServed
<1>1. HalInv => StartedIsServed
  BY DEF HalInv
<1> QED BY <1>1, HalInvariant, PTL

\* PutBuf never gives back a block that the ring does not hold.
THEOREM BorrowedCounted == Spec => []BorrowedIsCounted
<1>1. HalInv => BorrowedIsCounted
  BY DEF HalInv
<1> QED BY <1>1, HalInvariant, PTL
=============================================================================
