------------------------------- MODULE FMRing -------------------------------
(***************************************************************************)
(* RingBuffer of src/partner/trout/fmhal/RingBuffer.cpp: a ring of         *)
(* unit_count blocks between the thread that captures FM audio and the     *)
(* threads that play it.  GetBuf returns with mLock_wr held and PutData    *)
(* releases it; GetData returns with mLock_rd held and PutBuf releases it. *)
(* The two sides share wr_index and rd_index and no lock.                  *)
(*                                                                         *)
(* wr_index and rd_index are uint32_t: they count modulo IndexRange        *)
(* (2^32 in the code).  A block is one value; while it is being copied     *)
(* into, it is Partial.  Loads and stores of the indices are atomic and    *)
(* ordered (the SoC has a single core).                                    *)
(***************************************************************************)
EXTENDS Integers, Sequences

CONSTANTS
  UnitCount,  \* unit_count (mPeriodCount * 4 = 32 in FMHalSource)
  IndexRange, \* values of a uint32_t
  Writers, Readers,         \* threads
  WriteWaits, ReadWaits,    \* the "wait" arguments GetBuf and GetData get
  Wakes,      \* the "wake" arguments PutBuf gets
  Block, Partial, NoBlock, NoThread

ASSUME RingAssumption ==
  /\ UnitCount \in Nat \ {0} /\ IndexRange \in Nat \ {0}
  /\ UnitCount < IndexRange /\ IndexRange % UnitCount = 0
  /\ WriteWaits \subseteq BOOLEAN /\ ReadWaits \subseteq BOOLEAN /\ Wakes \subseteq BOOLEAN
  /\ Partial \notin Block /\ NoBlock \notin Block /\ NoBlock # Partial
  /\ NoThread \notin Writers \cup Readers

\* The ring has one writer, the capture thread, or writers that do not wait
\* (FMHalSource.cpp line 213): GetBuf does not look at the ring again after its
\* wait, so a second writer could fill it in between.
ASSUME WriterAssumption == TRUE \in WriteWaits => \A v, w \in Writers : v = w

VARIABLES
  wr_index, rd_index, buf,
  mLock_wr, mLock_rd,       \* the thread that has the lock, or NoThread
  wpc, rpc    \* where each writer and reader is

vars == <<wr_index, rd_index, buf, mLock_wr, mLock_rd, wpc, rpc>>

Index == 0 .. IndexRange - 1

\* Mutant of Inc: the index does not wrap where the type does.
Inc_NoWrap(a) == a + 1

\* uint32_t arithmetic, written without %: a + 1, a + b and a - b.
Inc(a) == IF a = IndexRange - 1 THEN 0 ELSE a + 1
Plus(a, b) == IF a + b >= IndexRange THEN a + b - IndexRange ELSE a + b
Minus(a, b) == IF a >= b THEN a - b ELSE a - b + IndexRange

is_full == Minus(wr_index, rd_index) >= UnitCount
is_empty == wr_index = rd_index
Slot(a) == a % UnitCount

\* GetDataCount, in blocks.
GetDataCount == Minus(wr_index, rd_index)

Init ==
  /\ wr_index = 0 /\ rd_index = 0 /\ buf = [s \in 0 .. UnitCount - 1 |-> Partial]
  /\ mLock_wr = NoThread /\ mLock_rd = NoThread
  /\ wpc = [w \in Writers |-> "idle"] /\ rpc = [r \in Readers |-> "idle"]

-----------------------------------------------------------------------------
(* The writing side.                                                       *)

\* Mutant of GetBuf: the boundary test is off by one.
GetBuf_OffByOne(w, wait) ==
  /\ wpc[w] = "idle" /\ mLock_wr = NoThread
  /\ Minus(wr_index, rd_index) > UnitCount => wait
  /\ mLock_wr' = w
  /\ wpc' = [wpc EXCEPT ![w] = IF Minus(wr_index, rd_index) > UnitCount THEN "tosleep" ELSE "copy"]
  /\ UNCHANGED <<wr_index, rd_index, buf, mLock_rd, rpc>>

\* GetBuf up to its wait.  On a full ring without wait it returns NULL and has
\* changed nothing.
GetBuf(w, wait) ==
  /\ wpc[w] = "idle" /\ mLock_wr = NoThread
  /\ is_full => wait
  /\ mLock_wr' = w
  /\ wpc' = [wpc EXCEPT ![w] = IF is_full THEN "tosleep" ELSE "copy"]
  /\ UNCHANGED <<wr_index, rd_index, buf, mLock_rd, rpc>>

\* mCond_rd.wait(mLock_wr): release and sleep; PutBuf may have signalled since
\* is_full was read.
SleepFull(w) ==
  /\ wpc[w] = "tosleep"
  /\ mLock_wr' = NoThread /\ wpc' = [wpc EXCEPT ![w] = "asleep"]
  /\ UNCHANGED <<wr_index, rd_index, buf, mLock_rd, rpc>>

\* Return from the wait; is_full is not looked at again.
AwakeWriter(w) ==
  /\ wpc[w] = "woken" /\ mLock_wr = NoThread
  /\ mLock_wr' = w /\ wpc' = [wpc EXCEPT ![w] = "copy"]
  /\ UNCHANGED <<wr_index, rd_index, buf, mLock_rd, rpc>>

\* The caller's memcpy into the block, in two steps.
CopyIn(w) ==
  /\ \/ wpc[w] = "copy" /\ buf' = [buf EXCEPT ![Slot(wr_index)] = Partial]
        /\ wpc' = [wpc EXCEPT ![w] = "copying"]
     \/ wpc[w] = "copying" /\ \E b \in Block : buf' = [buf EXCEPT ![Slot(wr_index)] = b]
        /\ wpc' = [wpc EXCEPT ![w] = "full"]
  /\ UNCHANGED <<wr_index, rd_index, mLock_wr, mLock_rd, rpc>>

\* cond.signal(): one of the sleepers, if there is one, is woken.  Waits that end
\* without a signal are left out: the writer of the program never waits
\* (GetBuf(false) in FMHalSource.cpp line 213).
Signal(pcs, pcs2) ==
  IF \E t \in DOMAIN pcs : pcs[t] = "asleep"
  THEN \E t \in DOMAIN pcs : pcs[t] = "asleep" /\ pcs2 = [pcs EXCEPT ![t] = "woken"]
  ELSE pcs2 = pcs

\* Mutant of PutData: the index moves before the copy is complete.
PutData_Early(w) ==
  /\ wpc[w] \in {"copying", "full"}
  /\ wr_index' = Inc(wr_index)
  /\ Signal(rpc, rpc')
  /\ mLock_wr' = NoThread /\ wpc' = [wpc EXCEPT ![w] = "idle"]
  /\ UNCHANGED <<rd_index, buf, mLock_rd>>

\* PutData(true): every caller wakes a reader.
PutData(w) ==
  /\ wpc[w] = "full"
  /\ wr_index' = Inc(wr_index)
  /\ Signal(rpc, rpc')
  /\ mLock_wr' = NoThread /\ wpc' = [wpc EXCEPT ![w] = "idle"]
  /\ UNCHANGED <<rd_index, buf, mLock_rd>>

-----------------------------------------------------------------------------
(* The reading side.                                                       *)

\* GetData up to its wait.  On an empty ring without wait it returns NULL and
\* has changed nothing.
GetData(r, wait) ==
  /\ rpc[r] = "idle" /\ mLock_rd = NoThread
  /\ is_empty => wait
  /\ mLock_rd' = r
  /\ rpc' = [rpc EXCEPT ![r] = IF is_empty THEN "tosleep" ELSE "holding"]
  /\ UNCHANGED <<wr_index, rd_index, buf, mLock_wr, wpc>>

SleepEmpty(r) ==
  /\ rpc[r] = "tosleep"
  /\ mLock_rd' = NoThread /\ rpc' = [rpc EXCEPT ![r] = "asleep"]
  /\ UNCHANGED <<wr_index, rd_index, buf, mLock_wr, wpc>>

\* Mutant of AwakeReader: is_empty is not looked at again after the wait.
AwakeReader_NoRecheck(r) ==
  /\ rpc[r] = "woken" /\ mLock_rd = NoThread
  /\ mLock_rd' = r
  /\ rpc' = [rpc EXCEPT ![r] = "holding"]
  /\ UNCHANGED <<wr_index, rd_index, buf, mLock_wr, wpc>>

\* Return from the wait: on a ring that is empty again, GetData returns NULL.
AwakeReader(r) ==
  /\ rpc[r] = "woken" /\ mLock_rd = NoThread
  /\ mLock_rd' = IF is_empty THEN NoThread ELSE r
  /\ rpc' = [rpc EXCEPT ![r] = IF is_empty THEN "idle" ELSE "holding"]
  /\ UNCHANGED <<wr_index, rd_index, buf, mLock_wr, wpc>>

PutBuf(r, wake) ==
  /\ rpc[r] = "holding"
  /\ rd_index' = Inc(rd_index)
  /\ IF wake THEN Signal(wpc, wpc') ELSE UNCHANGED wpc
  /\ mLock_rd' = NoThread /\ rpc' = [rpc EXCEPT ![r] = "idle"]
  /\ UNCHANGED <<wr_index, buf, mLock_wr>>

-----------------------------------------------------------------------------
Next ==
  \/ \E w \in Writers :
       \/ \E wait \in WriteWaits : GetBuf(w, wait)
       \/ SleepFull(w) \/ AwakeWriter(w) \/ CopyIn(w) \/ PutData(w)
  \/ \E r \in Readers :
       \/ \E wait \in ReadWaits : GetData(r, wait)
       \/ SleepEmpty(r) \/ AwakeReader(r)
       \/ \E wake \in Wakes : PutBuf(r, wake)

Spec == Init /\ [][Next]_vars

-----------------------------------------------------------------------------
WriterAt == {"idle", "tosleep", "asleep", "woken", "copy", "copying", "full"}
ReaderAt == {"idle", "tosleep", "asleep", "woken", "holding"}

\* Type invariant of the ring.
TypeOK ==
  /\ wr_index \in Index /\ rd_index \in Index
  /\ buf \in [0 .. UnitCount - 1 -> Block \cup {Partial}]
  /\ mLock_wr \in Writers \cup {NoThread} /\ mLock_rd \in Readers \cup {NoThread}
  /\ wpc \in [Writers -> WriterAt] /\ rpc \in [Readers -> ReaderAt]

\* The ring never holds more blocks than it has, across the wrap of the indices:
\* what RingBuffer.cpp:76 would report ("to do error") does not happen.
NeverOverfull ==
  /\ GetDataCount <= UnitCount
  /\ \A w \in Writers : wpc[w] \in {"copy", "copying", "full"} => ~is_full

\* The block a reader has borrowed is whole and is not the one being written.
BorrowedIsWhole ==
  \A r \in Readers : rpc[r] = "holding" => ~is_empty /\ buf[Slot(rd_index)] # Partial

\* What keeps the two above: a lock is held exactly in the calls between which
\* the code holds it, ...
LockedWr == \A w \in Writers : mLock_wr = w <=> wpc[w] \in {"tosleep", "copy", "copying", "full"}
LockedRd == \A r \in Readers : mLock_rd = r <=> rpc[r] \in {"tosleep", "holding"}
\* ... a writer waits only if it may, and there is room when it was woken, ...
WaitsForRoom ==
  \A w \in Writers : /\ wpc[w] \in {"tosleep", "asleep", "woken"} => TRUE \in WriteWaits
                     /\ wpc[w] = "woken" => ~is_full
\* ... and the blocks between the indices, and the one about to be added, are
\* whole.
WholeBlocks ==
  /\ \A k \in 0 .. GetDataCount - 1 : buf[Slot(Plus(rd_index, k))] \in Block
  /\ \A w \in Writers : wpc[w] = "full" => buf[Slot(wr_index)] \in Block
HeldNotEmpty == \A r \in Readers : rpc[r] = "holding" => ~is_empty

\* The inductive invariant of the ring.
RingInv ==
  TypeOK /\ LockedWr /\ LockedRd /\ WaitsForRoom /\ WholeBlocks /\ HeldNotEmpty /\ NeverOverfull

\* The blocks between rd_index and wr_index, oldest first.
Contents ==
  [i \in 1 .. GetDataCount |-> buf[Slot(Plus(rd_index, i - 1))]]

\* The block each reader has borrowed.
Held == [r \in Readers |-> IF rpc[r] = "holding" THEN buf[Slot(rd_index)] ELSE NoBlock]

\* RingBuffer implements the queue of blocks: PutData puts, GetData borrows and
\* PutBuf gives back; nothing else changes what a reader sees.
Abstract == INSTANCE FMQueue WITH Capacity <- UnitCount, queue <- Contents, held <- Held

ImplementsQueue == Abstract!Spec
=============================================================================
