---------------------------- MODULE FMRingProofs ----------------------------
(***************************************************************************)
(* Proofs about FMRing for every number of blocks, range of the indices    *)
(* and set of threads: its invariant, and that it implements FMQueue.      *)
(***************************************************************************)
EXTENDS FMRing, SequenceTheorems, TLAPS

-----------------------------------------------------------------------------
(* Arithmetic of the indices.                                              *)

\* Division with remainder.
LEMMA DivMod ==
  ASSUME NEW x \in Nat, NEW u \in Nat \ {0}
  PROVE  x = (x \div u) * u + (x % u) /\ x % u \in 0 .. u - 1 /\ x \div u \in Nat
  OBVIOUS

\* The remainder is unique.
LEMMA ModUnique ==
  ASSUME NEW x \in Int, NEW u \in Nat \ {0}, NEW q \in Int, NEW s \in 0 .. u - 1, x = q * u + s
  PROVE  x % u = s
  OBVIOUS

\* The remainder of a sum whose second part is not larger than the divisor.
LEMMA ModShift ==
  ASSUME NEW a \in Nat, NEW k \in Nat, NEW u \in Nat \ {0}, k <= u
  PROVE  (a + k) % u = IF (a % u) + k >= u THEN (a % u) + k - u ELSE (a % u) + k
<1> DEFINE q == a \div u
           s == a % u
<1>1. a = q * u + s /\ s \in 0 .. u - 1 /\ q \in Nat
  BY DivMod
<1> HIDE DEF q, s
<1>2. CASE s + k >= u
  <2>1. a + k = (q + 1) * u + (s + k - u)
    BY <1>1
  <2>2. q + 1 \in Int /\ s + k - u \in 0 .. u - 1 /\ a + k \in Int
    BY <1>1, <1>2
  <2>3. (a + k) % u = s + k - u
    BY <2>1, <2>2, ModUnique
  <2> QED BY <1>2, <2>3 DEF s
<1>3. CASE s + k < u
  <2>1. a + k = q * u + (s + k)
    BY <1>1
  <2>2. q \in Int /\ s + k \in 0 .. u - 1 /\ a + k \in Int
    BY <1>1, <1>3
  <2>3. (a + k) % u = s + k
    BY <2>1, <2>2, ModUnique
  <2>4. ~(s + k >= u)
    BY <1>1, <1>3
  <2> QED BY <2>3, <2>4 DEF s
<1> QED BY <1>1, <1>2, <1>3

\* Subtracting a multiple of the divisor does not change the remainder.
LEMMA ModLess ==
  ASSUME NEW a \in Nat, NEW u \in Nat \ {0}, NEW m \in Nat, m % u = 0, a >= m
  PROVE  (a - m) % u = a % u
<1> DEFINE q == a \div u
           s == a % u
           p == m \div u
<1>1. a = q * u + s /\ s \in 0 .. u - 1 /\ q \in Nat
  BY DivMod
<1>2. m = p * u /\ p \in Nat
  BY DivMod
<1> HIDE DEF q, s, p
<1> DEFINE d == q - p
<1>3. a - m = d * u + s
  BY <1>1, <1>2
<1>4. a - m \in Int /\ d \in Int
  BY <1>1, <1>2
<1> HIDE DEF d
<1>5. (a - m) % u = s
  BY <1>1, <1>3, <1>4, ModUnique
<1> QED BY <1>5 DEF s

\* Moving k blocks on from an index moves k slots on in the ring, also where
\* the index wraps: IndexRange is a multiple of UnitCount.
LEMMA SlotPlus ==
  ASSUME NEW a \in Index, NEW k \in 0 .. UnitCount
  PROVE  /\ Plus(a, k) \in Index
         /\ Slot(a) \in 0 .. UnitCount - 1
         /\ Slot(Plus(a, k)) = IF Slot(a) + k >= UnitCount THEN Slot(a) + k - UnitCount
                               ELSE Slot(a) + k
<1>1. a \in Nat /\ k \in Nat /\ UnitCount \in Nat \ {0} /\ IndexRange \in Nat /\ k <= UnitCount
  BY RingAssumption DEF Index
<1>2. Plus(a, k) \in Index
  BY <1>1, RingAssumption DEF Plus, Index
<1>3. Slot(a) \in 0 .. UnitCount - 1
  BY <1>1, DivMod DEF Slot
<1>4. (a + k) % UnitCount = IF Slot(a) + k >= UnitCount THEN Slot(a) + k - UnitCount
                            ELSE Slot(a) + k
  BY <1>1, ModShift DEF Slot
<1>5. CASE a + k >= IndexRange
  <2> DEFINE sum == a + k
  <2>1. sum \in Nat /\ sum >= IndexRange /\ IndexRange % UnitCount = 0
    BY <1>1, <1>5, RingAssumption
  <2> HIDE DEF sum
  <2>2. (sum - IndexRange) % UnitCount = sum % UnitCount
    BY <1>1, <2>1, ModLess
  <2>3. Plus(a, k) = sum - IndexRange
    BY <1>1, <1>5 DEF Plus, sum
  <2>4. Slot(Plus(a, k)) = (a + k) % UnitCount
    BY <2>2, <2>3 DEF Slot, sum
  <2> HIDE DEF Plus, Slot
  <2> QED BY <1>2, <1>3, <1>4, <2>4
<1>6. CASE ~(a + k >= IndexRange)
  BY <1>2, <1>3, <1>4, <1>6 DEF Plus, Slot
<1> QED BY <1>5, <1>6

\* Indices less than UnitCount blocks apart have different slots.
LEMMA SlotsDiffer ==
  ASSUME NEW a \in Index, NEW j \in 0 .. UnitCount, NEW k \in 0 .. UnitCount,
         j < k, k - j < UnitCount
  PROVE  Slot(Plus(a, j)) # Slot(Plus(a, k))
<1>1. UnitCount \in Nat \ {0} /\ j \in Nat /\ k \in Nat
  BY RingAssumption
<1>2. Slot(Plus(a, j)) = IF Slot(a) + j >= UnitCount THEN Slot(a) + j - UnitCount
                         ELSE Slot(a) + j
  BY SlotPlus
<1>3. Slot(Plus(a, k)) = IF Slot(a) + k >= UnitCount THEN Slot(a) + k - UnitCount
                         ELSE Slot(a) + k
  BY SlotPlus
<1>4. Slot(a) \in 0 .. UnitCount - 1
  BY SlotPlus
<1> HIDE DEF Slot, Plus
<1> QED BY <1>1, <1>2, <1>3, <1>4

\* Counting blocks: the difference of two indices is what leads from one to the
\* other, and each step of an index changes it by one.
LEMMA Counting ==
  ASSUME NEW w \in Index, NEW r \in Index
  PROVE  /\ Minus(w, r) \in Nat /\ Minus(w, r) < IndexRange
         /\ Plus(r, Minus(w, r)) = w
         /\ (Minus(w, r) = 0) <=> (w = r)
         /\ Inc(w) \in Index
         /\ Minus(w, r) < IndexRange - 1 => Minus(Inc(w), r) = Minus(w, r) + 1
         /\ w # r => Minus(w, Inc(r)) = Minus(w, r) - 1
  BY RingAssumption DEF Index, Minus, Plus, Inc

\* Moving on from the next index.
LEMMA PlusInc ==
  ASSUME NEW r \in Index, NEW k \in Nat, k + 1 < IndexRange
  PROVE  Plus(Inc(r), k) = Plus(r, k + 1) /\ Plus(r, 0) = r
  BY RingAssumption DEF Index, Plus, Inc

-----------------------------------------------------------------------------
(* The invariant.                                                          *)

\* The empty ring.
LEMMA InitInv == Init => RingInv
<1> SUFFICES ASSUME Init PROVE RingInv
  OBVIOUS
<1>1. TypeOK
  BY RingAssumption DEF Init, TypeOK, Index, WriterAt, ReaderAt
<1>2. GetDataCount = 0
  BY RingAssumption DEF Init, GetDataCount, Minus
<1>3. LockedWr /\ LockedRd /\ WaitsForRoom /\ HeldNotEmpty
  BY RingAssumption DEF Init, LockedWr, LockedRd, WaitsForRoom, HeldNotEmpty
<1>4. WholeBlocks
  BY <1>2 DEF Init, WholeBlocks
<1>5. NeverOverfull
  BY <1>2, RingAssumption DEF Init, NeverOverfull
<1> QED BY <1>1, <1>3, <1>4, <1>5 DEF RingInv

\* What the calls that leave the indices and the blocks alone have to keep.
LEMMA Frame ==
  ASSUME RingInv, UNCHANGED <<wr_index, rd_index, buf>>,
         \A w \in Writers : wpc'[w] = "full" => wpc[w] = "full"
  PROVE  /\ wr_index' \in Index /\ rd_index' \in Index
         /\ buf' \in [0 .. UnitCount - 1 -> Block \cup {Partial}]
         /\ GetDataCount' = GetDataCount /\ GetDataCount' <= UnitCount
         /\ is_full' = is_full /\ is_empty' = is_empty
         /\ WholeBlocks'
<1>1. GetDataCount' = GetDataCount /\ is_full' = is_full /\ is_empty' = is_empty
  BY DEF GetDataCount, is_full, is_empty
<1>2. WholeBlocks'
  BY <1>1 DEF RingInv, WholeBlocks
<1> QED BY <1>1, <1>2 DEF RingInv, TypeOK, NeverOverfull

\* GetBuf up to the copy or to its wait.
LEMMA GetBufInv ==
  ASSUME RingInv, NEW w \in Writers, NEW wait \in WriteWaits, GetBuf(w, wait)
  PROVE  RingInv'
<1>1. wait \in BOOLEAN
  BY RingAssumption
<1>2. /\ wr_index' \in Index /\ rd_index' \in Index
      /\ buf' \in [0 .. UnitCount - 1 -> Block \cup {Partial}]
      /\ GetDataCount' <= UnitCount /\ is_full' = is_full /\ is_empty' = is_empty /\ WholeBlocks'
  BY Frame DEF GetBuf, RingInv, TypeOK
<1>3. TypeOK'
  BY <1>2 DEF GetBuf, RingInv, TypeOK, WriterAt
<1>4. LockedWr'
  BY RingAssumption DEF GetBuf, RingInv, TypeOK, LockedWr
<1>5. LockedRd' /\ HeldNotEmpty'
  BY <1>2 DEF GetBuf, RingInv, LockedRd, HeldNotEmpty
<1>6. WaitsForRoom'
  BY <1>1, <1>2 DEF GetBuf, RingInv, TypeOK, WaitsForRoom
<1>7. NeverOverfull'
  BY <1>2 DEF GetBuf, RingInv, TypeOK, NeverOverfull
<1> QED BY <1>2, <1>3, <1>4, <1>5, <1>6, <1>7 DEF RingInv

\* The wait of GetBuf, and the way back from it.
LEMMA WriterWaitInv ==
  ASSUME RingInv, NEW w \in Writers, SleepFull(w) \/ AwakeWriter(w)
  PROVE  RingInv'
<1> USE DEF SleepFull, AwakeWriter
<1>2. /\ wr_index' \in Index /\ rd_index' \in Index
      /\ buf' \in [0 .. UnitCount - 1 -> Block \cup {Partial}]
      /\ GetDataCount' <= UnitCount /\ is_full' = is_full /\ is_empty' = is_empty /\ WholeBlocks'
  BY Frame DEF RingInv, TypeOK
<1>3. TypeOK'
  BY <1>2 DEF RingInv, TypeOK, WriterAt
<1>4. LockedWr'
  BY RingAssumption DEF RingInv, TypeOK, LockedWr
<1>5. LockedRd' /\ HeldNotEmpty'
  BY <1>2 DEF RingInv, LockedRd, HeldNotEmpty
<1>6. WaitsForRoom'
  BY <1>2 DEF RingInv, TypeOK, WaitsForRoom
<1>7. NeverOverfull'
  BY <1>2 DEF RingInv, TypeOK, NeverOverfull, WaitsForRoom
<1> QED BY <1>2, <1>3, <1>4, <1>5, <1>6, <1>7 DEF RingInv

\* The reading side up to a borrowed block.
LEMMA ReaderInv ==
  ASSUME RingInv, NEW r \in Readers,
         \/ \E wait \in ReadWaits : GetData(r, wait)
         \/ SleepEmpty(r) \/ AwakeReader(r)
  PROVE  RingInv'
<1> USE DEF GetData, SleepEmpty, AwakeReader
<1>2. /\ wr_index' \in Index /\ rd_index' \in Index
      /\ buf' \in [0 .. UnitCount - 1 -> Block \cup {Partial}]
      /\ GetDataCount' <= UnitCount /\ is_full' = is_full /\ is_empty' = is_empty /\ WholeBlocks'
  BY Frame DEF RingInv, TypeOK
<1>3. TypeOK'
  BY <1>2 DEF RingInv, TypeOK, ReaderAt
<1>4. LockedRd'
  BY RingAssumption DEF RingInv, TypeOK, LockedRd
<1>5. LockedWr'
  BY <1>2 DEF RingInv, LockedWr
<1>6. WaitsForRoom' /\ NeverOverfull'
  BY <1>2 DEF RingInv, WaitsForRoom, NeverOverfull
<1>7. HeldNotEmpty'
  BY <1>2 DEF RingInv, TypeOK, HeldNotEmpty
<1> QED BY <1>2, <1>3, <1>4, <1>5, <1>6, <1>7 DEF RingInv

\* The slot being written is not one of those between the indices.
LEMMA FreeSlot ==
  ASSUME RingInv, ~is_full, NEW k \in 0 .. GetDataCount - 1
  PROVE  Slot(Plus(rd_index, k)) # Slot(wr_index) /\ Slot(Plus(rd_index, k)) \in 0 .. UnitCount - 1
<1>1. wr_index \in Index /\ rd_index \in Index
  BY DEF RingInv, TypeOK
<1>2. GetDataCount \in Nat /\ Plus(rd_index, GetDataCount) = wr_index
  BY <1>1, Counting DEF GetDataCount
<1>3. GetDataCount < UnitCount
  BY <1>2, RingAssumption DEF is_full, GetDataCount
<1>4. k \in 0 .. UnitCount /\ GetDataCount \in 0 .. UnitCount /\ k < GetDataCount
      /\ GetDataCount - k < UnitCount
  BY <1>2, <1>3, RingAssumption
<1>5. Slot(Plus(rd_index, k)) # Slot(Plus(rd_index, GetDataCount))
  BY <1>1, <1>4, SlotsDiffer
<1>6. Plus(rd_index, k) \in Index /\ 0 \in 0 .. UnitCount
  BY <1>1, <1>4, SlotPlus, RingAssumption
<1>7. Slot(Plus(rd_index, k)) \in 0 .. UnitCount - 1
  BY <1>6, SlotPlus
<1> QED BY <1>2, <1>5, <1>7

\* The copy into a block.
LEMMA CopyInInv ==
  ASSUME RingInv, NEW w \in Writers, CopyIn(w)
  PROVE  RingInv'
<1>1. wpc[w] \in {"copy", "copying"} /\ mLock_wr = w /\ ~is_full
  BY DEF CopyIn, RingInv, LockedWr, NeverOverfull
<1>2. wr_index \in Index /\ Slot(wr_index) \in 0 .. UnitCount - 1 /\ GetDataCount \in Nat
  <2>1. wr_index \in Index /\ rd_index \in Index /\ 0 \in 0 .. UnitCount
    BY RingAssumption DEF RingInv, TypeOK
  <2> QED BY <2>1, Counting, SlotPlus DEF GetDataCount
<1>3. GetDataCount' = GetDataCount /\ is_full' = is_full /\ is_empty' = is_empty
  BY DEF CopyIn, GetDataCount, is_full, is_empty
<1>4. PICK b \in Block \cup {Partial} :
        /\ buf' = [buf EXCEPT ![Slot(wr_index)] = b]
        /\ wpc[w] = "copying" => b \in Block
        /\ wpc' = [wpc EXCEPT ![w] = IF wpc[w] = "copy" THEN "copying" ELSE "full"]
  BY DEF CopyIn
<1>5. TypeOK'
  BY <1>2, <1>4 DEF CopyIn, RingInv, TypeOK, WriterAt
<1>6. LockedWr' /\ LockedRd'
  BY <1>1, <1>4 DEF CopyIn, RingInv, TypeOK, LockedWr, LockedRd
<1>7. WaitsForRoom' /\ HeldNotEmpty'
  BY <1>3, <1>4 DEF CopyIn, RingInv, TypeOK, WaitsForRoom, HeldNotEmpty
<1>8. NeverOverfull'
  BY <1>1, <1>3, <1>4 DEF RingInv, TypeOK, NeverOverfull
<1>9. WholeBlocks'
  <2>1. ASSUME NEW k \in 0 .. GetDataCount - 1
        PROVE  buf'[Slot(Plus(rd_index, k))] \in Block
    <3>1. Slot(Plus(rd_index, k)) # Slot(wr_index)
      BY <1>1, FreeSlot
    <3>2. buf[Slot(Plus(rd_index, k))] \in Block
      BY DEF RingInv, WholeBlocks
    <3> QED BY <1>4, <3>1, <3>2 DEF RingInv, TypeOK
  <2>2. ASSUME NEW v \in Writers, wpc'[v] = "full"
        PROVE  buf'[Slot(wr_index)] \in Block
    <3>1. v = w
      BY <1>1, <1>4, <2>2 DEF RingInv, TypeOK, LockedWr
    <3>2. b \in Block
      BY <1>1, <1>4, <2>2, <3>1 DEF RingInv, TypeOK
    <3> QED BY <1>2, <1>4, <3>2 DEF RingInv, TypeOK
  <2>3. UNCHANGED <<wr_index, rd_index>>
    BY DEF CopyIn
  <2> QED BY <1>3, <2>1, <2>2, <2>3 DEF WholeBlocks
<1> QED BY <1>5, <1>6, <1>7, <1>8, <1>9 DEF RingInv

\* A copied block is added: one more between the indices.
LEMMA PutDataInv ==
  ASSUME RingInv, NEW w \in Writers, PutData(w)
  PROVE  RingInv'
<1>1. wpc[w] = "full" /\ mLock_wr = w /\ ~is_full /\ wpc' = [wpc EXCEPT ![w] = "idle"]
  BY DEF PutData, RingInv, LockedWr, NeverOverfull
<1>2. wr_index \in Index /\ rd_index \in Index /\ UNCHANGED <<rd_index, buf>>
      /\ wr_index' = Inc(wr_index)
  BY DEF PutData, RingInv, TypeOK
<1>3. GetDataCount \in Nat /\ GetDataCount < UnitCount
      /\ Plus(rd_index, GetDataCount) = wr_index /\ wr_index' \in Index
  BY <1>1, <1>2, Counting, RingAssumption DEF is_full, GetDataCount
<1>4. GetDataCount' = GetDataCount + 1
  <2>1. Minus(wr_index, rd_index) < IndexRange - 1
    BY <1>3, RingAssumption DEF GetDataCount
  <2> QED BY <1>2, <2>1, Counting DEF GetDataCount
<1>5. ~is_empty'
  <2>1. (GetDataCount' = 0) <=> is_empty'
    BY <1>2, <1>3, Counting DEF GetDataCount, is_empty
  <2> QED BY <1>3, <1>4, <2>1
<1>6. \/ rpc' = rpc
      \/ \E t \in Readers : rpc[t] = "asleep" /\ rpc' = [rpc EXCEPT ![t] = "woken"]
  BY DEF PutData, Signal, RingInv, TypeOK
<1>7. TypeOK'
  BY <1>1, <1>2, <1>3, <1>6 DEF PutData, RingInv, TypeOK, WriterAt, ReaderAt
<1>8. LockedWr'
  BY <1>1, RingAssumption DEF PutData, RingInv, TypeOK, LockedWr
<1>9. LockedRd' /\ HeldNotEmpty'
  BY <1>5, <1>6 DEF PutData, RingInv, TypeOK, LockedRd, HeldNotEmpty
<1>10. WaitsForRoom'
  BY <1>1, WriterAssumption DEF RingInv, TypeOK, WaitsForRoom
<1>11. NeverOverfull'
  BY <1>1, <1>3, <1>4, RingAssumption DEF RingInv, TypeOK, NeverOverfull, LockedWr
<1>12. WholeBlocks'
  <2>1. ASSUME NEW k \in 0 .. GetDataCount
        PROVE  buf[Slot(Plus(rd_index, k))] \in Block
    <3>1. CASE k = GetDataCount
      BY <1>1, <1>3, <3>1 DEF RingInv, WholeBlocks
    <3>2. CASE k # GetDataCount
      BY <1>3, <3>2 DEF RingInv, WholeBlocks
    <3> QED BY <3>1, <3>2
  <2>2. ASSUME NEW v \in Writers PROVE wpc'[v] # "full"
    BY <1>1 DEF RingInv, TypeOK, LockedWr
  <2> QED BY <1>2, <1>3, <1>4, <2>1, <2>2 DEF WholeBlocks
<1> QED BY <1>7, <1>8, <1>9, <1>10, <1>11, <1>12 DEF RingInv

\* A borrowed block is given back: one less between the indices.
LEMMA PutBufInv ==
  ASSUME RingInv, NEW r \in Readers, NEW wake \in Wakes, PutBuf(r, wake)
  PROVE  RingInv'
<1>1. rpc[r] = "holding" /\ mLock_rd = r /\ ~is_empty /\ rpc' = [rpc EXCEPT ![r] = "idle"]
  BY DEF PutBuf, RingInv, LockedRd, HeldNotEmpty
<1>2. wr_index \in Index /\ rd_index \in Index /\ UNCHANGED <<wr_index, buf>>
      /\ rd_index' = Inc(rd_index)
  BY DEF PutBuf, RingInv, TypeOK
<1>3. GetDataCount \in Nat \ {0} /\ GetDataCount <= UnitCount /\ rd_index' \in Index
  BY <1>1, <1>2, Counting DEF is_empty, GetDataCount, RingInv, NeverOverfull
<1>4. GetDataCount' = GetDataCount - 1
  BY <1>1, <1>2, Counting DEF GetDataCount, is_empty
<1>5. ~is_full'
  BY <1>3, <1>4, RingAssumption DEF is_full, GetDataCount
<1>6. \/ wpc' = wpc
      \/ \E t \in Writers : wpc[t] = "asleep" /\ wpc' = [wpc EXCEPT ![t] = "woken"]
  BY DEF PutBuf, Signal, RingInv, TypeOK
<1>7. TypeOK'
  BY <1>1, <1>2, <1>3, <1>6 DEF PutBuf, RingInv, TypeOK, WriterAt, ReaderAt
<1>8. LockedRd'
  BY <1>1, RingAssumption DEF PutBuf, RingInv, TypeOK, LockedRd
<1>9. LockedWr'
  BY <1>6 DEF PutBuf, RingInv, TypeOK, LockedWr
<1>10. WaitsForRoom'
  BY <1>5, <1>6 DEF RingInv, TypeOK, WaitsForRoom
<1>11. NeverOverfull'
  BY <1>3, <1>4, <1>5, RingAssumption DEF NeverOverfull
<1>12. HeldNotEmpty'
  BY <1>1 DEF RingInv, TypeOK, HeldNotEmpty, LockedRd
<1>13. WholeBlocks'
  <2>1. ASSUME NEW k \in 0 .. GetDataCount - 2
        PROVE  buf[Slot(Plus(Inc(rd_index), k))] \in Block
    <3>1. k \in Nat /\ k + 1 < IndexRange /\ k + 1 \in 0 .. GetDataCount - 1
      BY <1>3, RingAssumption
    <3>2. Plus(Inc(rd_index), k) = Plus(rd_index, k + 1)
      BY <1>2, <3>1, PlusInc
    <3> QED BY <3>1, <3>2 DEF RingInv, WholeBlocks
  <2>2. ASSUME NEW v \in Writers, wpc'[v] = "full" PROVE buf[Slot(wr_index)] \in Block
    BY <1>6, <2>2 DEF RingInv, TypeOK, WholeBlocks
  <2>3. GetDataCount' - 1 = GetDataCount - 2
    BY <1>3, <1>4
  <2> QED BY <1>2, <2>1, <2>2, <2>3 DEF WholeBlocks
<1> QED BY <1>7, <1>8, <1>9, <1>10, <1>11, <1>12, <1>13 DEF RingInv

\* Every step keeps the invariant.
LEMMA NextInv == RingInv /\ [Next]_vars => RingInv'
<1> SUFFICES ASSUME RingInv, [Next]_vars PROVE RingInv'
  OBVIOUS
<1>1. CASE Next
  BY <1>1, GetBufInv, WriterWaitInv, CopyInInv, PutDataInv, ReaderInv, PutBufInv DEF Next
<1>2. CASE UNCHANGED vars
  BY <1>2 DEF vars, RingInv, TypeOK, LockedWr, LockedRd, WaitsForRoom, WholeBlocks, HeldNotEmpty,
              NeverOverfull, GetDataCount, is_full, is_empty
<1> QED BY <1>1, <1>2

\* The invariant of RingBuffer.cpp: types, the locks held across its calls, room
\* for a woken writer, whole blocks between the indices.
THEOREM RingCorrect == Spec => []RingInv
  BY InitInv, NextInv, PTL DEF Spec

\* No writer gets a block of a full ring (RingBuffer.cpp lines 55-82), although
\* is_full is computed from an index the readers move without the writer's lock.
THEOREM Overfull == Spec => []NeverOverfull
<1>1. RingInv => NeverOverfull
  BY DEF RingInv
<1> QED BY <1>1, RingCorrect, PTL

\* The block GetData returns is complete and stays so until PutBuf.
THEOREM Borrowed == Spec => []BorrowedIsWhole
<1>1. RingInv => BorrowedIsWhole
  <2> SUFFICES ASSUME RingInv, NEW r \in Readers, rpc[r] = "holding"
               PROVE  ~is_empty /\ buf[Slot(rd_index)] # Partial
    BY DEF BorrowedIsWhole
  <2>1. ~is_empty /\ wr_index \in Index /\ rd_index \in Index
    BY DEF RingInv, HeldNotEmpty, TypeOK
  <2>2. GetDataCount \in Nat \ {0}
    BY <2>1, Counting DEF GetDataCount, is_empty
  <2>3. Plus(rd_index, 0) = rd_index
    BY <2>1, RingAssumption DEF Plus, Index
  <2>4. 0 \in 0 .. GetDataCount - 1
    BY <2>2
  <2>5. buf[Slot(Plus(rd_index, 0))] \in Block
    BY <2>4 DEF RingInv, WholeBlocks
  <2> QED BY <2>1, <2>3, <2>5, RingAssumption
<1> QED BY <1>1, RingCorrect, PTL

-----------------------------------------------------------------------------
(* The ring implements the queue.                                          *)

\* The empty ring is the empty queue.
LEMMA RefineInit == Init => Abstract!Init
<1> SUFFICES ASSUME Init PROVE Contents = <<>> /\ Held = [r \in Readers |-> NoBlock]
  BY DEF Abstract!Init
<1>1. GetDataCount = 0
  BY RingAssumption DEF Init, GetDataCount, Minus
<1>2. Contents = <<>>
  BY <1>1 DEF Contents
<1>3. Held = [r \in Readers |-> NoBlock]
  BY DEF Init, Held
<1> QED BY <1>2, <1>3

\* The contents as a sequence.
LEMMA ContentsType ==
  ASSUME RingInv
  PROVE  /\ GetDataCount \in Nat
         /\ Contents \in Seq(Block) /\ Len(Contents) = GetDataCount
         /\ \A k \in 1 .. GetDataCount : Contents[k] = buf[Slot(Plus(rd_index, k - 1))]
         /\ ~is_empty => GetDataCount > 0 /\ Contents # <<>> /\ Head(Contents) = buf[Slot(rd_index)]
                         /\ buf[Slot(rd_index)] \in Block
<1>1. wr_index \in Index /\ rd_index \in Index
  BY DEF RingInv, TypeOK
<1>2. GetDataCount \in Nat /\ (~is_empty => GetDataCount > 0)
  BY <1>1, Counting DEF GetDataCount, is_empty
<1>3. ASSUME NEW k \in 1 .. GetDataCount PROVE buf[Slot(Plus(rd_index, k - 1))] \in Block
  <2>1. k - 1 \in 0 .. GetDataCount - 1
    BY <1>2
  <2> QED BY <2>1 DEF RingInv, WholeBlocks
<1>4. Contents \in Seq(Block) /\ Len(Contents) = GetDataCount
  BY <1>2, <1>3 DEF Contents
<1>5. \A k \in 1 .. GetDataCount : Contents[k] = buf[Slot(Plus(rd_index, k - 1))]
  BY DEF Contents
<1>6. ASSUME ~is_empty
      PROVE  /\ Contents # <<>> /\ Head(Contents) = buf[Slot(rd_index)]
             /\ buf[Slot(rd_index)] \in Block
  <2>1. 1 \in 1 .. GetDataCount
    BY <1>2, <1>6
  <2>2. Plus(rd_index, 1 - 1) = rd_index
    BY <1>1, RingAssumption DEF Plus, Index
  <2>3. Contents[1] = buf[Slot(rd_index)] /\ buf[Slot(rd_index)] \in Block
    BY <1>3, <1>5, <2>1, <2>2
  <2> QED BY <1>2, <1>4, <1>6, <2>3
<1> QED BY <1>2, <1>4, <1>5, <1>6

\* Taking and waiting for the writer's lock, and copying into a block, change
\* nothing a reader sees.
LEMMA RefineWriter ==
  ASSUME RingInv, NEW w \in Writers,
         \/ \E wait \in WriteWaits : GetBuf(w, wait)
         \/ SleepFull(w) \/ AwakeWriter(w) \/ CopyIn(w)
  PROVE  Contents' = Contents /\ Held' = Held
<1>1. UNCHANGED <<wr_index, rd_index, rpc>>
  BY DEF GetBuf, SleepFull, AwakeWriter, CopyIn
<1>2. GetDataCount' = GetDataCount
  BY <1>1 DEF GetDataCount
<1>3. ASSUME NEW k \in 1 .. GetDataCount
      PROVE  buf'[Slot(Plus(rd_index, k - 1))] = buf[Slot(Plus(rd_index, k - 1))]
  <2>1. CASE UNCHANGED buf
    BY <2>1
  <2>2. CASE CopyIn(w)
    <3>1. k - 1 \in 0 .. GetDataCount - 1
      BY ContentsType
    <3>2. ~is_full
      BY <2>2 DEF CopyIn, RingInv, NeverOverfull
    <3>3. /\ Slot(Plus(rd_index, k - 1)) # Slot(wr_index)
          /\ Slot(Plus(rd_index, k - 1)) \in 0 .. UnitCount - 1
      BY <3>1, <3>2, FreeSlot
    <3> QED BY <2>2, <3>3 DEF CopyIn, RingInv, TypeOK
  <2> QED BY <2>1, <2>2 DEF GetBuf, SleepFull, AwakeWriter
<1>4. Contents' = Contents
  BY <1>1, <1>2, <1>3 DEF Contents
<1>5. ASSUME NEW r \in Readers, rpc[r] = "holding"
      PROVE  buf'[Slot(rd_index)] = buf[Slot(rd_index)]
  <2>1. ~is_empty /\ rd_index \in Index
    BY <1>5 DEF RingInv, HeldNotEmpty, TypeOK
  <2>2. 1 \in 1 .. GetDataCount
    BY <2>1, ContentsType
  <2>3. Plus(rd_index, 1 - 1) = rd_index
    BY <2>1, RingAssumption DEF Plus, Index
  <2> QED BY <1>3, <2>2, <2>3
<1>6. Held' = Held
  BY <1>1, <1>5 DEF Held
<1> QED BY <1>4, <1>6

\* PutData puts the block that was copied.
LEMMA RefinePutData ==
  ASSUME RingInv, RingInv', NEW w \in Writers, PutData(w)
  PROVE  Abstract!Put(buf[Slot(wr_index)]) /\ buf[Slot(wr_index)] \in Block
<1>1. wpc[w] = "full" /\ ~is_full /\ buf[Slot(wr_index)] \in Block
  BY DEF PutData, RingInv, NeverOverfull, WholeBlocks
<1>2. wr_index \in Index /\ rd_index \in Index /\ UNCHANGED <<rd_index, buf>>
      /\ wr_index' = Inc(wr_index)
  BY DEF PutData, RingInv, TypeOK
<1>3. GetDataCount \in Nat /\ GetDataCount < UnitCount
      /\ Plus(rd_index, GetDataCount) = wr_index
  BY <1>1, <1>2, Counting, RingAssumption DEF is_full, GetDataCount
<1>4. GetDataCount' = GetDataCount + 1
  <2>1. Minus(wr_index, rd_index) < IndexRange - 1
    BY <1>3, RingAssumption DEF GetDataCount
  <2> QED BY <1>2, <2>1, Counting DEF GetDataCount
<1>5. Contents' = [k \in 1 .. GetDataCount + 1 |-> buf[Slot(Plus(rd_index, k - 1))]]
  BY <1>2, <1>4 DEF Contents
<1>6. Contents' = Append(Contents, buf[Slot(wr_index)])
  <2> DEFINE b == buf[Slot(wr_index)]
             n == GetDataCount
  <2>1. Contents \in Seq(Block) /\ Len(Contents) = n /\ n \in Nat
        /\ \A k \in 1 .. n : Contents[k] = buf[Slot(Plus(rd_index, k - 1))]
    BY ContentsType
  <2>2. Append(Contents, b) = [k \in 1 .. n + 1 |-> IF k = n + 1 THEN b ELSE Contents[k]]
    BY <1>1, <2>1
  <2>3. ASSUME NEW k \in 1 .. n + 1
        PROVE  buf[Slot(Plus(rd_index, k - 1))] = IF k = n + 1 THEN b ELSE Contents[k]
    <3>1. CASE k = n + 1
      <4>1. k - 1 = GetDataCount
        BY <2>1, <3>1
      <4> QED BY <1>3, <3>1, <4>1
    <3>2. CASE k # n + 1
      <4>1. k \in 1 .. n
        BY <2>1, <3>2
      <4> QED BY <2>1, <3>2, <4>1
    <3> QED BY <3>1, <3>2
  <2> HIDE DEF b
  <2>4. [k \in 1 .. n + 1 |-> buf[Slot(Plus(rd_index, k - 1))]]
          = [k \in 1 .. n + 1 |-> IF k = n + 1 THEN b ELSE Contents[k]]
    BY <2>3
  <2>5. Contents' = Append(Contents, b)
    BY <1>5, <2>2, <2>4
  <2> QED BY <2>5 DEF b
<1>7. Held' = Held
  BY <1>2 DEF PutData, Signal, RingInv, TypeOK, Held
<1>8. Len(Contents) < UnitCount
  BY <1>3, ContentsType
<1> QED BY <1>1, <1>6, <1>7, <1>8 DEF Abstract!Put

\* GetData, with or without a wait, borrows the head or changes nothing.
LEMMA RefineReader ==
  ASSUME RingInv, NEW r \in Readers,
         \/ \E wait \in ReadWaits : GetData(r, wait)
         \/ SleepEmpty(r) \/ AwakeReader(r)
  PROVE  Abstract!Borrow(r) \/ (Contents' = Contents /\ Held' = Held)
<1> USE DEF GetData, SleepEmpty, AwakeReader
<1>1. UNCHANGED <<wr_index, rd_index, buf>>
  OBVIOUS
<1>2. Contents' = Contents
  BY <1>1 DEF Contents, GetDataCount
<1>3. CASE rpc'[r] = "holding"
  <2>1. ~is_empty /\ mLock_rd = NoThread /\ rpc' = [rpc EXCEPT ![r] = "holding"]
    BY <1>3 DEF RingInv, TypeOK
  <2>2. ASSUME NEW x \in Readers PROVE rpc[x] # "holding"
    BY <2>1, RingAssumption DEF RingInv, LockedRd
  <2>3. \A x \in Readers : Held[x] = NoBlock
    BY <2>2 DEF Held
  <2>4. Contents # <<>> /\ Head(Contents) = buf[Slot(rd_index)]
    BY <2>1, ContentsType
  <2>5. Held' = [x \in Readers |-> IF x = r THEN buf[Slot(rd_index)] ELSE NoBlock]
    BY <1>1, <2>1, <2>2 DEF Held, RingInv, TypeOK
  <2>6. Held' = [Held EXCEPT ![r] = Head(Contents)]
    BY <2>3, <2>4, <2>5 DEF Held
  <2> QED BY <1>2, <2>3, <2>4, <2>6 DEF Abstract!Borrow
<1>4. CASE rpc'[r] # "holding"
  <2>1. rpc[r] # "holding" /\ \A x \in Readers : x # r => rpc'[x] = rpc[x]
    BY <1>4 DEF RingInv, TypeOK
  <2>2. Held' = Held
    BY <1>1, <1>4, <2>1 DEF Held
  <2> QED BY <1>2, <2>2
<1> QED BY <1>3, <1>4

\* PutBuf gives the borrowed block back.
LEMMA RefinePutBuf ==
  ASSUME RingInv, RingInv', NEW r \in Readers, NEW wake \in Wakes, PutBuf(r, wake)
  PROVE  Abstract!GiveBack(r)
<1>1. rpc[r] = "holding" /\ mLock_rd = r /\ ~is_empty /\ rpc' = [rpc EXCEPT ![r] = "idle"]
  BY DEF PutBuf, RingInv, LockedRd, HeldNotEmpty
<1>2. wr_index \in Index /\ rd_index \in Index /\ UNCHANGED <<wr_index, buf>>
      /\ rd_index' = Inc(rd_index)
  BY DEF PutBuf, RingInv, TypeOK
<1>3. GetDataCount \in Nat \ {0} /\ GetDataCount <= UnitCount /\ GetDataCount' = GetDataCount - 1
  BY <1>1, <1>2, Counting DEF is_empty, GetDataCount, RingInv, NeverOverfull
<1>4. Held[r] # NoBlock
  BY <1>1, ContentsType, RingAssumption DEF Held
<1>5. Held' = [Held EXCEPT ![r] = NoBlock]
  <2>1. \A x \in Readers : x # r => rpc[x] # "holding"
    BY <1>1 DEF RingInv, LockedRd
  <2> QED BY <1>1, <2>1 DEF Held, RingInv, TypeOK
<1>6. Contents' = Tail(Contents)
  <2> DEFINE n == GetDataCount
  <2>1. Contents \in Seq(Block) /\ Len(Contents) = n /\ n \in Nat \ {0}
        /\ \A k \in 1 .. n : Contents[k] = buf[Slot(Plus(rd_index, k - 1))]
    BY <1>3, ContentsType
  <2>2. Tail(Contents) = [k \in 1 .. n - 1 |-> Contents[k + 1]]
    <3>1. Contents # <<>>
      BY <2>1
    <3>2. /\ Tail(Contents) \in Seq(Block) /\ Len(Tail(Contents)) = n - 1
          /\ \A k \in 1 .. n - 1 : Tail(Contents)[k] = Contents[k + 1]
      BY <2>1, <3>1, HeadTailProperties
    <3> DEFINE t == Tail(Contents)
    <3> HIDE DEF t
    <3>3. t \in Seq(Block) /\ Len(t) = n - 1 /\ \A k \in 1 .. n - 1 : t[k] = Contents[k + 1]
      BY <3>2 DEF t
    <3>4. t = [k \in 1 .. n - 1 |-> t[k]]
      BY <3>3
    <3>5. t = [k \in 1 .. n - 1 |-> Contents[k + 1]]
      BY <3>3, <3>4
    <3> QED BY <3>5 DEF t
  <2>3. ASSUME NEW k \in 1 .. n - 1
        PROVE  buf[Slot(Plus(Inc(rd_index), k - 1))] = Contents[k + 1]
    <3>1. k - 1 \in Nat /\ (k - 1) + 1 < IndexRange /\ k + 1 \in 1 .. n
      BY <1>3, <2>1, RingAssumption
    <3>2. Plus(Inc(rd_index), k - 1) = Plus(rd_index, (k - 1) + 1)
      BY <1>2, <3>1, PlusInc
    <3>3. (k - 1) + 1 = (k + 1) - 1
      BY <3>1
    <3> QED BY <2>1, <3>1, <3>2, <3>3
  <2>4. Contents' = [k \in 1 .. n - 1 |-> buf[Slot(Plus(Inc(rd_index), k - 1))]]
    BY <1>2, <1>3 DEF Contents
  <2> QED BY <2>2, <2>3, <2>4
<1> QED BY <1>4, <1>5, <1>6 DEF Abstract!GiveBack

\* RingBuffer.cpp implements the bounded queue of FMQueue: every call of the
\* ring is a call of the queue or changes nothing a reader sees.
THEOREM Refinement == Spec => ImplementsQueue
<1>1. RingInv /\ RingInv' /\ [Next]_vars => [Abstract!Next]_<<Contents, Held>>
  <2> SUFFICES ASSUME RingInv, RingInv', [Next]_vars
               PROVE  Abstract!Next \/ UNCHANGED <<Contents, Held>>
    OBVIOUS
  <2>1. CASE UNCHANGED vars
    BY <2>1 DEF vars, Contents, Held, GetDataCount
  <2>2. ASSUME NEW w \in Writers, \/ \E wait \in WriteWaits : GetBuf(w, wait)
                                 \/ SleepFull(w) \/ AwakeWriter(w) \/ CopyIn(w)
        PROVE  UNCHANGED <<Contents, Held>>
    BY <2>2, RefineWriter
  <2>3. ASSUME NEW w \in Writers, PutData(w) PROVE Abstract!Next
    BY <2>3, RefinePutData DEF Abstract!Next
  <2>4. ASSUME NEW r \in Readers, \/ \E wait \in ReadWaits : GetData(r, wait)
                                 \/ SleepEmpty(r) \/ AwakeReader(r)
        PROVE  Abstract!Next \/ UNCHANGED <<Contents, Held>>
    BY <2>4, RefineReader DEF Abstract!Next
  <2>5. ASSUME NEW r \in Readers, NEW wake \in Wakes, PutBuf(r, wake) PROVE Abstract!Next
    BY <2>5, RefinePutBuf DEF Abstract!Next
  <2> QED BY <2>1, <2>2, <2>3, <2>4, <2>5 DEF Next
<1> QED BY <1>1, RefineInit, RingCorrect, PTL DEF Spec, ImplementsQueue, Abstract!Spec
=============================================================================
