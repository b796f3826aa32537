---------------------------- MODULE NvItemProofs ----------------------------
(***************************************************************************)
(* Proofs about NvItem for every file size, buffer size and number of      *)
(* requests, resets, power failures and faults: its types, that one copy   *)
(* of fixnv survives a power failure, that no file stays unsynced without  *)
(* the wake lock, that the two runtimenv files agree, that one productinfo *)
(* file survives a power failure, and that the pipe is never read out of   *)
(* step.                                                                   *)
(***************************************************************************)
EXTENDS NvItem, TLAPS

-----------------------------------------------------------------------------
(* What the helpers return.                                                *)

\* What a power failure or a short write leaves of a file is a file.
LEMMA TornType ==
  ASSUME NEW a \in Content, NEW b \in Content, NEW done
  PROVE  Torn(a, b, done) \in Content
  BY DEF Torn, Content, Image

\* memcpy into a buffer, or write() into a file, of what was read from the pipe.
LEMMA StoredType ==
  ASSUME NEW c \in Image, NEW o \in Nat, NEW n \in Nat, pipe \in Seq(Item), n <= Len(pipe)
  PROVE  Stored(c, o, n) \in Image
<1> SUFFICES ASSUME NEW x \in Cell
             PROVE  (IF x \in o .. o + n - 1 THEN pipe[x - o + 1].ver ELSE c[x]) \in 0 .. MaxReq
  BY DEF Stored, Image
<1>1. CASE x \in o .. o + n - 1
  <2>1. x - o + 1 \in 1 .. Len(pipe)
    BY <1>1, NvAssumption DEF Cell
  <2>2. pipe[x - o + 1] \in Item
    BY <2>1
  <2> QED BY <1>1, <2>2 DEF Item
<1>2. CASE x \notin o .. o + n - 1
  BY <1>2 DEF Image
<1> QED BY <1>1, <1>2

\* The trailer keeps the index below its modulus.
LEMMA SealedType ==
  ASSUME NEW b \in Content, indexvalue \in 0 .. IndexModulus - 1
  PROVE  Sealed(b) \in Content /\ Valid(Sealed(b)) /\ Sealed(b).cells = b.cells
  BY DEF Sealed, Content, IndexModulus, calc_checksum, Valid

\* A short or complete write() leaves files of the right type.
LEMMA WriteType ==
  ASSUME cache \in [File -> Content], nfault \in 0 .. MaxFault,
         NEW f \in File, NEW c \in Content, Write(f, c)
  PROVE  cache' \in [File -> Content] /\ nfault' \in 0 .. MaxFault
<1>1. CASE cache' = [cache EXCEPT ![f] = c] /\ UNCHANGED nfault
  BY <1>1
<1>2. CASE Fails /\ \E k \in Word : cache' = [cache EXCEPT ![f] = Torn(@, c, 0 .. k - 1)]
  <2>1. PICK k \in Word : cache' = [cache EXCEPT ![f] = Torn(@, c, 0 .. k - 1)]
    BY <1>2
  <2>2. Torn(cache[f], c, 0 .. k - 1) \in Content
    BY TornType
  <2>3. nfault' \in 0 .. MaxFault
    BY <1>2, NvAssumption DEF Fails
  <2> QED BY <2>1, <2>2, <2>3
<1> QED BY <1>1, <1>2 DEF Write

\* The provisioned files and the initial header are well typed.
LEMMA BlankType == Blank \in Content /\ NoHeader \in Header
  BY NvAssumption DEF Blank, NoHeader, Content, Image, Header, Cell, IndexModulus

-----------------------------------------------------------------------------
(* Types.                                                                  *)

\* The initial state is well typed.
LEMMA InitType == Init => TypeOK
<1> SUFFICES ASSUME Init PROVE TypeOK
  OBVIOUS
<1>1. Blank.cells \in Image
  BY BlankType DEF Content
<1>2. hist \in Seq(Image) /\ phist \in Seq(Image) /\ Len(hist) = 1 /\ Len(phist) = 1
  BY <1>1 DEF Init
<1>3. pipe \in Seq(Item)
  BY DEF Init
<1>4. FlagsOK
  BY DEF Init, FlagsOK
<1>5. BoundsOK
  BY NvAssumption DEF Init, BoundsOK
<1>6. DaemonOK
  BY <1>3, BlankType, NvAssumption DEF Init, DaemonOK, Locations, IndexModulus
<1>7. FilesOK
  BY <1>2, BlankType DEF Init, FilesOK
<1> QED BY <1>4, <1>5, <1>6, <1>7 DEF TypeOK

\* Concatenation of sequences.
LEMMA ConcatType ==
  ASSUME NEW S, NEW s \in Seq(S), NEW t \in Seq(S)
  PROVE  s \o t \in Seq(S)
  OBVIOUS

\* Requests and resets of the modem keep the types.
LEMMA ModemType == TypeOK /\ Modem => TypeOK'
<1> SUFFICES ASSUME TypeOK, Modem PROVE TypeOK'
  OBVIOUS
<1> USE NvAssumption DEF daemon, files, images, marks, buffer
<1>1. CASE ModemReset
  <2>f. FlagsOK'
    BY <1>1 DEF ModemReset, TypeOK, FlagsOK
  <2>b. BoundsOK'
    BY <1>1 DEF ModemReset, TypeOK, BoundsOK
  <2>d. DaemonOK'
    BY <1>1 DEF ModemReset, TypeOK, DaemonOK, Locations
  <2>i. FilesOK'
    BY <1>1 DEF ModemReset, TypeOK, FilesOK
  <2> QED BY <2>f, <2>b, <2>d, <2>i DEF TypeOK
<1>2. ASSUME NEW h \in Requests, ModemSend(h) PROVE TypeOK'
  <2>1. h \in Header /\ nreq + 1 \in 0 .. MaxReq
    BY <1>2 DEF Requests, ModemSend, TypeOK, BoundsOK
  <2>2. Heading(h, nreq + 1) \in Item /\ Payload(nreq + 1) \in Item
    BY <2>1, BlankType DEF Heading, Payload, Item
  <2>3. h.size \in Nat /\ h.req_type \in Int
    BY <2>1 DEF Header
  <2>4. [i \in 1 .. h.size |-> Payload(nreq + 1)] \in Seq(Item)
    BY <2>2, <2>3
  <2>5. <<Heading(h, nreq + 1)>> \in Seq(Item)
    BY <2>2
  <2>6. pipe \o <<Heading(h, nreq + 1)>> \in Seq(Item)
    BY <2>5, ConcatType DEF TypeOK, DaemonOK
  <2>7. pipe' \in Seq(Item)
    BY <1>2, <2>4, <2>6, ConcatType DEF ModemSend
  <2>f. FlagsOK'
    BY <1>2 DEF ModemSend, TypeOK, FlagsOK
  <2>b. BoundsOK'
    BY <1>2, <2>1, <2>3 DEF ModemSend, TypeOK, BoundsOK
  <2>d. DaemonOK'
    BY <1>2, <2>7 DEF ModemSend, TypeOK, DaemonOK, Locations
  <2>i. FilesOK'
    BY <1>2 DEF ModemSend, TypeOK, FilesOK
  <2> QED BY <2>f, <2>b, <2>d, <2>i DEF TypeOK
<1> QED BY <1>1, <1>2 DEF Modem

\* A power failure keeps the types: torn files are files.
LEMMA CrashType == TypeOK /\ Crash => TypeOK'
<1> SUFFICES ASSUME TypeOK, Crash PROVE TypeOK'
  OBVIOUS
<1>1. PICK done \in [{f \in File : cache[f] # disk[f]} -> SUBSET Word] :
        disk' = [f \in File |-> IF cache[f] = disk[f] THEN disk[f]
                                ELSE Torn(disk[f], cache[f], done[f])]
  BY DEF Crash
<1>2. disk' \in [File -> Content]
  <2> SUFFICES ASSUME NEW f \in File PROVE disk'[f] \in Content
    BY <1>1
  <2>1. disk[f] \in Content /\ cache[f] \in Content
    BY DEF TypeOK, FilesOK
  <2> QED BY <1>1, <2>1, TornType
<1>3. pipe' \in Seq(Item)
  BY DEF Crash
<1>4. total' \in 0 .. NCells /\ indexvalue' \in 0 .. IndexModulus - 1
  BY NvAssumption DEF Crash, IndexModulus
<1>5. DaemonOK'
  BY <1>3, <1>4, BlankType DEF Crash, DaemonOK, Locations
<1>6. FlagsOK'
  BY DEF Crash, TypeOK, FlagsOK
<1>7. BoundsOK'
  BY NvAssumption DEF Crash, TypeOK, BoundsOK
<1>8. FilesOK'
  BY <1>2, BlankType DEF Crash, TypeOK, FilesOK, images
<1> QED BY <1>5, <1>6, <1>7, <1>8 DEF TypeOK

\* Steps that neither read the payload nor write a file.
LEMMA ControlType ==
  TypeOK /\ (\/ OpenPipe \/ HeaderEof \/ PayloadEof \/ RestartDone \/ ReadGarbageHeader)
    => TypeOK'
<1> SUFFICES ASSUME TypeOK,
                    OpenPipe \/ HeaderEof \/ PayloadEof \/ RestartDone \/ ReadGarbageHeader
             PROVE  TypeOK'
  OBVIOUS
<1> USE NvAssumption DEF daemon, files, images, marks, buffer, link, bounds
<1>1. CASE OpenPipe
  <2>f. FlagsOK'
    BY <1>1 DEF OpenPipe, Fails, TypeOK, FlagsOK
  <2>b. BoundsOK'
    BY <1>1 DEF OpenPipe, Fails, TypeOK, BoundsOK
  <2>d. DaemonOK'
    BY <1>1 DEF OpenPipe, Fails, TypeOK, DaemonOK, Locations
  <2>i. FilesOK'
    BY <1>1 DEF OpenPipe, Fails, TypeOK, FilesOK
  <2> QED BY <2>f, <2>b, <2>d, <2>i DEF TypeOK
<1>2. CASE HeaderEof
  <2>f. FlagsOK'
    BY <1>2 DEF HeaderEof, check_reboot, Fails, TypeOK, FlagsOK
  <2>b. BoundsOK'
    BY <1>2 DEF HeaderEof, check_reboot, Fails, TypeOK, BoundsOK
  <2>d. DaemonOK'
    BY <1>2 DEF HeaderEof, check_reboot, Fails, TypeOK, DaemonOK, Locations
  <2>i. FilesOK'
    BY <1>2 DEF HeaderEof, check_reboot, Fails, TypeOK, FilesOK
  <2> QED BY <2>f, <2>b, <2>d, <2>i DEF TypeOK
<1>3. CASE PayloadEof
  <2>f. FlagsOK'
    BY <1>3 DEF PayloadEof, check_reboot, Fails, TypeOK, FlagsOK
  <2>b. BoundsOK'
    BY <1>3 DEF PayloadEof, check_reboot, Fails, TypeOK, BoundsOK
  <2>d. DaemonOK'
    BY <1>3 DEF PayloadEof, check_reboot, Fails, TypeOK, DaemonOK, Locations
  <2>i. FilesOK'
    BY <1>3 DEF PayloadEof, check_reboot, Fails, TypeOK, FilesOK
  <2> QED BY <2>f, <2>b, <2>d, <2>i DEF TypeOK
<1>4. CASE RestartDone
  <2>f. FlagsOK'
    BY <1>4 DEF RestartDone, TypeOK, FlagsOK
  <2>b. BoundsOK'
    BY <1>4 DEF RestartDone, TypeOK, BoundsOK
  <2>d. DaemonOK'
    BY <1>4 DEF RestartDone, TypeOK, DaemonOK, Locations
  <2>i. FilesOK'
    BY <1>4 DEF RestartDone, TypeOK, FilesOK
  <2> QED BY <2>f, <2>b, <2>d, <2>i DEF TypeOK
<1>5. CASE ReadGarbageHeader
  <2>1. pipe' \in Seq(Item)
    BY <1>5 DEF ReadGarbageHeader, TypeOK, DaemonOK
  <2>f. FlagsOK'
    BY <1>5, <2>1 DEF ReadGarbageHeader, TypeOK, FlagsOK
  <2>b. BoundsOK'
    BY <1>5, <2>1 DEF ReadGarbageHeader, TypeOK, BoundsOK
  <2>d. DaemonOK'
    BY <1>5, <2>1 DEF ReadGarbageHeader, TypeOK, DaemonOK, Locations
  <2>i. FilesOK'
    BY <1>5, <2>1 DEF ReadGarbageHeader, TypeOK, FilesOK
  <2> QED BY <2>f, <2>b, <2>d, <2>i DEF TypeOK
<1> QED BY <1>1, <1>2, <1>3, <1>4, <1>5

\* Steps that start a request.
LEMMA RequestType ==
  TypeOK /\ (\/ SyncCommand \/ UnknownType \/ OpenFails \/ FixnvRequest \/ RuntimeRequest
             \/ ProductRequest) => TypeOK'
<1> SUFFICES ASSUME TypeOK, NEW h \in Header, NextHeader(h),
                    \/ SyncCommand \/ UnknownType \/ OpenFails \/ FixnvRequest
                    \/ RuntimeRequest \/ ProductRequest
             PROVE  TypeOK'
  BY DEF SyncCommand, UnknownType, OpenFails, FixnvRequest, RuntimeRequest, ProductRequest
<1>h. \A k \in Header : NextHeader(k) =>
             /\ pipe' \in Seq(Item) /\ head' \in Header /\ k.offset \in Nat
             /\ k.size \in 0 .. NCells
  BY NvAssumption DEF NextHeader, TypeOK, DaemonOK, Header, Cell
<1>u. UNCHANGED <<eof, guest, monitor>>
  BY DEF NextHeader
<1> USE NvAssumption DEF files, images, marks, buffer, bounds
<1>1. CASE SyncCommand
  <2>f. FlagsOK'
    BY <1>1, <1>h, <1>u DEF SyncCommand, TypeOK, FlagsOK
  <2>b. BoundsOK'
    BY <1>1, <1>h, <1>u DEF SyncCommand, TypeOK, BoundsOK
  <2>d. DaemonOK'
    BY <1>1, <1>h, <1>u DEF SyncCommand, TypeOK, DaemonOK, Locations
  <2>i. FilesOK'
    BY <1>1, <1>h, <1>u DEF SyncCommand, TypeOK, FilesOK
  <2> QED BY <2>f, <2>b, <2>d, <2>i DEF TypeOK
<1>2. CASE UnknownType
  <2>f. FlagsOK'
    BY <1>2, <1>h, <1>u DEF UnknownType, TypeOK, FlagsOK
  <2>b. BoundsOK'
    BY <1>2, <1>h, <1>u DEF UnknownType, TypeOK, BoundsOK
  <2>d. DaemonOK'
    BY <1>2, <1>h, <1>u DEF UnknownType, TypeOK, DaemonOK, Locations
  <2>i. FilesOK'
    BY <1>2, <1>h, <1>u DEF UnknownType, TypeOK, FilesOK
  <2> QED BY <2>f, <2>b, <2>d, <2>i DEF TypeOK
<1>3. CASE OpenFails
  <2>f. FlagsOK'
    BY <1>3, <1>h, <1>u DEF OpenFails, Fails, TypeOK, FlagsOK
  <2>b. BoundsOK'
    BY <1>3, <1>h, <1>u DEF OpenFails, Fails, TypeOK, BoundsOK
  <2>d. DaemonOK'
    BY <1>3, <1>h, <1>u DEF OpenFails, Fails, TypeOK, DaemonOK, Locations
  <2>i. FilesOK'
    BY <1>3, <1>h, <1>u DEF OpenFails, Fails, TypeOK, FilesOK
  <2> QED BY <2>f, <2>b, <2>d, <2>i DEF TypeOK
<1>4. CASE FixnvRequest
  <2>1. cache["fixnv"] \in Content /\ cache["fixnv"].index \in 0 .. IndexModulus - 1
    BY DEF TypeOK, FilesOK, File, Content
  <2>f. FlagsOK'
    BY <1>4, <1>u DEF FixnvRequest, TypeOK, FlagsOK
  <2>b. BoundsOK'
    BY <1>4 DEF FixnvRequest, TypeOK, BoundsOK
  <2>d. DaemonOK'
    BY <1>4, <1>h, <1>u, <2>1 DEF FixnvRequest, TypeOK, DaemonOK, Locations
  <2>i. FilesOK'
    BY <1>4, <2>1 DEF FixnvRequest, TypeOK, FilesOK
  <2> QED BY <2>f, <2>b, <2>d, <2>i DEF TypeOK
<1>5. CASE RuntimeRequest
  <2>f. FlagsOK'
    BY <1>5, <1>h, <1>u DEF RuntimeRequest, TypeOK, FlagsOK
  <2>b. BoundsOK'
    BY <1>5, <1>h, <1>u DEF RuntimeRequest, TypeOK, BoundsOK
  <2>d. DaemonOK'
    BY <1>5, <1>h, <1>u DEF RuntimeRequest, TypeOK, DaemonOK, Locations
  <2>i. FilesOK'
    BY <1>5, <1>h, <1>u DEF RuntimeRequest, TypeOK, FilesOK
  <2> QED BY <2>f, <2>b, <2>d, <2>i DEF TypeOK
<1>6. CASE ProductRequest
  <2>1. cache["productinfo"] \in Content /\ cache["productinfo"].index \in 0 .. IndexModulus - 1
    BY DEF TypeOK, FilesOK, File, Content
  <2>f. FlagsOK'
    BY <1>6, <1>u DEF ProductRequest, TypeOK, FlagsOK
  <2>b. BoundsOK'
    BY <1>6 DEF ProductRequest, TypeOK, BoundsOK
  <2>d. DaemonOK'
    BY <1>6, <1>h, <1>u, <2>1 DEF ProductRequest, TypeOK, DaemonOK, Locations
  <2>i. FilesOK'
    BY <1>6, <2>1 DEF ProductRequest, TypeOK, FilesOK
  <2> QED BY <2>f, <2>b, <2>d, <2>i DEF TypeOK
<1> QED BY <1>1, <1>2, <1>3, <1>4, <1>5, <1>6

\* Steps of the payload loop.
LEMMA PayloadType ==
  TypeOK /\ (FixnvData \/ RuntimeData \/ ProductData) => TypeOK'
<1> SUFFICES ASSUME TypeOK, NEW n \in 1 .. Chunk, ReadData(n),
                    FixnvData \/ RuntimeData \/ ProductData
             PROVE  TypeOK'
  BY DEF FixnvData, RuntimeData, ProductData
<1>h. ASSUME NEW k \in 1 .. Chunk, ReadData(k)
      PROVE  pipe' \in Seq(Item) /\ k \in Nat /\ k <= Len(pipe) /\ total - k \in 0 .. NCells
  BY <1>h, NvAssumption DEF ReadData, TypeOK, DaemonOK
<1>u. UNCHANGED <<pc, eof, guest, monitor, wakelock, head, indexvalue, flag, disk, nreq,
                 ncrash, nreset, images, dirty, waiting>>
  BY DEF ReadData
<1>m. misread' \in BOOLEAN
  BY DEF ReadData, TypeOK, FlagsOK
<1>f. nfault + 1 \in Int
  BY NvAssumption DEF TypeOK, BoundsOK
<1> USE NvAssumption DEF images
<1>1. CASE FixnvData
  <2>1. PICK k \in 1 .. Chunk : /\ ReadData(k) /\ offset' = offset + k /\ total' = total - k
                                /\ fixbuf' = [fixbuf EXCEPT !.cells = Stored(@, offset, k)]
    BY <1>1 DEF FixnvData
  <2>h. pipe' \in Seq(Item) /\ k \in Nat /\ k <= Len(pipe) /\ total - k \in 0 .. NCells
    BY <1>h, <2>1
  <2>2. Stored(fixbuf.cells, offset, k) \in Image
    BY <2>h, StoredType DEF TypeOK, FilesOK, DaemonOK, Content
  <2>3. fixbuf' \in Content
    BY <2>1, <2>2 DEF TypeOK, FilesOK, Content
  <2>4. offset' \in Nat /\ total' \in 0 .. NCells /\ pipe' \in Seq(Item)
    BY <2>1, <2>h DEF TypeOK, DaemonOK
  <2>f. FlagsOK'
    BY <1>1, <1>u, <1>m DEF FixnvData, TypeOK, FlagsOK
  <2>b. BoundsOK'
    BY <1>1, <1>u DEF FixnvData, TypeOK, BoundsOK
  <2>d. DaemonOK'
    BY <1>1, <1>u, <2>4 DEF FixnvData, TypeOK, DaemonOK, Locations
  <2>i. FilesOK'
    BY <1>1, <1>u, <2>3 DEF FixnvData, TypeOK, FilesOK
  <2> QED BY <2>f, <2>b, <2>d, <2>i DEF TypeOK
<1>2. CASE ProductData
  <2>1. PICK k \in 1 .. Chunk : /\ ReadData(k) /\ offset' = offset + k /\ total' = total - k
                                /\ prodbuf' = [prodbuf EXCEPT !.cells = Stored(@, offset, k)]
    BY <1>2 DEF ProductData
  <2>h. pipe' \in Seq(Item) /\ k \in Nat /\ k <= Len(pipe) /\ total - k \in 0 .. NCells
    BY <1>h, <2>1
  <2>2. Stored(prodbuf.cells, offset, k) \in Image
    BY <2>h, StoredType DEF TypeOK, FilesOK, DaemonOK, Content
  <2>3. prodbuf' \in Content
    BY <2>1, <2>2 DEF TypeOK, FilesOK, Content
  <2>4. offset' \in Nat /\ total' \in 0 .. NCells /\ pipe' \in Seq(Item)
    BY <2>1, <2>h DEF TypeOK, DaemonOK
  <2>f. FlagsOK'
    BY <1>2, <1>u, <1>m DEF ProductData, TypeOK, FlagsOK
  <2>b. BoundsOK'
    BY <1>2, <1>u DEF ProductData, TypeOK, BoundsOK
  <2>d. DaemonOK'
    BY <1>2, <1>u, <2>4 DEF ProductData, TypeOK, DaemonOK, Locations
  <2>i. FilesOK'
    BY <1>2, <1>u, <2>3 DEF ProductData, TypeOK, FilesOK
  <2> QED BY <2>f, <2>b, <2>d, <2>i DEF TypeOK
<1>3. CASE RuntimeData
  <2>1. PICK k \in 1 .. Chunk :
          /\ ReadData(k)
          /\ \/ \E w \in 0 .. k, b \in 0 .. k :
                  /\ cache' = [cache EXCEPT !["runtimenv"].cells = Stored(@, offset, w),
                                            !["runtimenvbkup"].cells = Stored(@, bkoffset, b)]
                  /\ offset' = offset + w /\ bkoffset' = bkoffset + b /\ total' = total - k
                  /\ IF w = k /\ b = k THEN UNCHANGED nfault ELSE Fails
             \/ Fails /\ UNCHANGED <<cache, offset, bkoffset, total>>
             \/ \E w \in 0 .. k :
                  /\ Fails
                  /\ cache' = [cache EXCEPT !["runtimenv"].cells = Stored(@, offset, w)]
                  /\ offset' = offset + w
                  /\ UNCHANGED <<bkoffset, total>>
    BY <1>3 DEF RuntimeData
  <2>h. pipe' \in Seq(Item) /\ k \in Nat /\ k <= Len(pipe) /\ total - k \in 0 .. NCells
    BY <1>h, <2>1
  <2>2. ASSUME NEW f \in File, NEW o \in Nat, NEW w \in 0 .. k
        PROVE  Stored(cache[f].cells, o, w) \in Image
    <3>1. w \in Nat /\ w <= Len(pipe) /\ pipe \in Seq(Item) /\ cache[f].cells \in Image
      BY <2>h DEF TypeOK, FilesOK, DaemonOK, Content
    <3> QED BY <3>1, StoredType
  <2>3. cache' \in [File -> Content]
    <3>1. /\ offset \in Nat /\ bkoffset \in Nat /\ cache \in [File -> Content]
          /\ "runtimenv" \in File /\ "runtimenvbkup" \in File
      BY DEF TypeOK, DaemonOK, FilesOK, File
    <3>2. \A w \in 0 .. k : /\ Stored(cache["runtimenv"].cells, offset, w) \in Image
                            /\ Stored(cache["runtimenvbkup"].cells, bkoffset, w) \in Image
      BY <2>2, <3>1
    <3>3. ASSUME NEW f \in File, NEW c \in Image
          PROVE  [cache[f] EXCEPT !.cells = c] \in Content
      BY <3>1 DEF Content
    <3>4. CASE UNCHANGED cache
      BY <3>1, <3>4
    <3>5. ASSUME NEW w \in 0 .. k, NEW b \in 0 .. k,
                 cache' = [cache EXCEPT !["runtimenv"].cells = Stored(@, offset, w),
                                        !["runtimenvbkup"].cells = Stored(@, bkoffset, b)]
          PROVE  cache' \in [File -> Content]
      BY <3>1, <3>2, <3>3, <3>5
    <3>6. ASSUME NEW w \in 0 .. k,
                 cache' = [cache EXCEPT !["runtimenv"].cells = Stored(@, offset, w)]
          PROVE  cache' \in [File -> Content]
      BY <3>1, <3>2, <3>3, <3>6
    <3> QED BY <2>1, <3>4, <3>5, <3>6
  <2>4. /\ offset' \in Nat /\ bkoffset' \in Nat /\ total' \in 0 .. NCells
        /\ pipe' \in Seq(Item)
    <3>1. offset \in Nat /\ bkoffset \in Nat /\ total \in 0 .. NCells
      BY DEF TypeOK, DaemonOK
    <3>2. \A w \in 0 .. k : w \in Nat
      BY <2>h
    <3>3. \/ \E w \in 0 .. k, b \in 0 .. k :
               offset' = offset + w /\ bkoffset' = bkoffset + b /\ total' = total - k
          \/ UNCHANGED <<offset, bkoffset, total>>
          \/ \E w \in 0 .. k : offset' = offset + w /\ UNCHANGED <<bkoffset, total>>
      BY <2>1, Zenon
    <3> QED BY <2>h, <3>1, <3>2, <3>3
  <2>5. nfault' \in 0 .. MaxFault
    BY <2>1 DEF TypeOK, BoundsOK, Fails
  <2>f. FlagsOK'
    BY <1>3, <1>u, <1>m DEF RuntimeData, TypeOK, FlagsOK
  <2>b. BoundsOK'
    BY <1>3, <1>u, <2>5 DEF RuntimeData, TypeOK, BoundsOK
  <2>d. DaemonOK'
    BY <1>3, <1>u, <2>4 DEF RuntimeData, TypeOK, DaemonOK, Locations
  <2>i. FilesOK'
    BY <1>3, <1>u, <2>3 DEF RuntimeData, TypeOK, FilesOK
  <2> QED BY <2>f, <2>b, <2>d, <2>i DEF TypeOK
<1> QED BY <1>1, <1>2, <1>3

\* Steps that store a complete payload or serve a sync.
LEMMA StoreType ==
  TypeOK /\ (\/ update_fixnvfile \/ FsyncFixnv \/ update_backupfile \/ FsyncBackup
             \/ SyncAndAnswer \/ update_productinfofile \/ FsyncProduct
             \/ WriteProductCopy \/ FsyncProductCopy \/ FsyncRuntime \/ FsyncRuntimeCopy)
    => TypeOK'
<1> SUFFICES ASSUME TypeOK, Storing,
                    \/ update_fixnvfile \/ FsyncFixnv \/ update_backupfile \/ FsyncBackup
                    \/ SyncAndAnswer \/ update_productinfofile \/ FsyncProduct
                    \/ WriteProductCopy \/ FsyncProductCopy \/ FsyncRuntime
                    \/ FsyncRuntimeCopy
             PROVE  TypeOK'
  BY DEF update_fixnvfile, FsyncFixnv, update_backupfile, FsyncBackup, SyncAndAnswer,
         update_productinfofile, FsyncProduct, WriteProductCopy, FsyncProductCopy,
         FsyncRuntime, FsyncRuntimeCopy
<1>u. /\ UNCHANGED <<pipe, eof, guest, monitor, head, offset, bkoffset, total, indexvalue,
                     nreq, ncrash, nreset, misread>>
  BY DEF Storing, link
<1>w. ASSUME NEW f \in File, NEW c \in Content, Write(f, c)
      PROVE  cache' \in [File -> Content] /\ nfault' \in 0 .. MaxFault
  BY <1>w, WriteType DEF TypeOK, FilesOK, BoundsOK
<1>a. Fails => nfault' \in 0 .. MaxFault
  BY NvAssumption DEF Fails, TypeOK, BoundsOK
<1>s. \A f \in File : Fsync(f) => disk' \in [File -> Content] /\ cache' \in [File -> Content]
  BY DEF Fsync, TypeOK, FilesOK
<1>f. /\ {"fixnv", "backupfixnv", "runtimenv", "runtimenvbkup", "productinfo",
          "productinfobkup"} = File
      /\ fixbuf \in Content /\ prodbuf \in Content
      /\ Sealed(fixbuf) \in Content /\ Sealed(prodbuf) \in Content
      /\ fixbuf.cells \in Image /\ prodbuf.cells \in Image
  BY SealedType DEF File, TypeOK, FilesOK, DaemonOK, Content
<1> USE DEF images
<1>1. CASE update_fixnvfile
  <2>1. hist' \in Seq(Image) /\ Len(hist') = Len(hist) + 1 /\ Len(hist) \in Nat
    BY <1>1, <1>f DEF update_fixnvfile, TypeOK, FilesOK
  <2>2. cache' \in [File -> Content] /\ nfault' \in 0 .. MaxFault /\ fixbuf' \in Content
    BY <1>1, <1>f, <1>w, <1>a DEF update_fixnvfile, TypeOK, FilesOK
  <2>f. FlagsOK'
    BY <1>1, <1>u DEF update_fixnvfile, Finish, TypeOK, FlagsOK
  <2>b. BoundsOK'
    BY <1>1, <1>u, <2>2 DEF update_fixnvfile, Finish, TypeOK, BoundsOK
  <2>d. DaemonOK'
    BY <1>1, <1>u DEF update_fixnvfile, Finish, TypeOK, DaemonOK, Locations
  <2>i. FilesOK'
    BY <1>1, <2>1, <2>2 DEF update_fixnvfile, Finish, TypeOK, FilesOK
  <2> QED BY <2>f, <2>b, <2>d, <2>i DEF TypeOK
<1>2. CASE FsyncFixnv
  <2>f. FlagsOK'
    BY <1>2, <1>u DEF FsyncFixnv, Finish, TypeOK, FlagsOK
  <2>b. BoundsOK'
    BY <1>2, <1>u DEF FsyncFixnv, Finish, TypeOK, BoundsOK
  <2>d. DaemonOK'
    BY <1>2, <1>u DEF FsyncFixnv, Finish, TypeOK, DaemonOK, Locations
  <2>i. FilesOK'
    BY <1>2, <1>s, <1>f DEF FsyncFixnv, Finish, TypeOK, FilesOK
  <2> QED BY <2>f, <2>b, <2>d, <2>i DEF TypeOK
<1>3. CASE update_backupfile
  <2>2. cache' \in [File -> Content] /\ nfault' \in 0 .. MaxFault
    BY <1>3, <1>f, <1>w, <1>a DEF update_backupfile, TypeOK, FilesOK
  <2>f. FlagsOK'
    BY <1>3, <1>u DEF update_backupfile, Finish, TypeOK, FlagsOK
  <2>b. BoundsOK'
    BY <1>3, <1>u, <2>2 DEF update_backupfile, Finish, TypeOK, BoundsOK
  <2>d. DaemonOK'
    BY <1>3, <1>u DEF update_backupfile, Finish, TypeOK, DaemonOK, Locations
  <2>i. FilesOK'
    BY <1>3, <2>2 DEF update_backupfile, Finish, TypeOK, FilesOK
  <2> QED BY <2>f, <2>b, <2>d, <2>i DEF TypeOK
<1>4. CASE FsyncBackup
  <2>f. FlagsOK'
    BY <1>4, <1>u DEF FsyncBackup, Finish, TypeOK, FlagsOK
  <2>b. BoundsOK'
    BY <1>4, <1>u DEF FsyncBackup, Finish, TypeOK, BoundsOK
  <2>d. DaemonOK'
    BY <1>4, <1>u DEF FsyncBackup, Finish, TypeOK, DaemonOK, Locations
  <2>i. FilesOK'
    BY <1>4, <1>s, <1>f DEF FsyncBackup, Finish, TypeOK, FilesOK
  <2> QED BY <2>f, <2>b, <2>d, <2>i DEF TypeOK
<1>5. CASE SyncAndAnswer
  <2>1. waiting' \in Int /\ nfault' \in 0 .. MaxFault
    BY <1>5, <1>a DEF SyncAndAnswer, TypeOK, BoundsOK
  <2>f. FlagsOK'
    BY <1>5, <1>u DEF SyncAndAnswer, Finish, TypeOK, FlagsOK
  <2>b. BoundsOK'
    BY <1>5, <1>u, <2>1 DEF SyncAndAnswer, Finish, TypeOK, BoundsOK
  <2>d. DaemonOK'
    BY <1>5, <1>u DEF SyncAndAnswer, Finish, TypeOK, DaemonOK, Locations
  <2>i. FilesOK'
    BY <1>5 DEF SyncAndAnswer, Finish, TypeOK, FilesOK
  <2> QED BY <2>f, <2>b, <2>d, <2>i DEF TypeOK
<1>6. CASE update_productinfofile
  <2>1. phist' \in Seq(Image) /\ Len(phist') = Len(phist) + 1 /\ Len(phist) \in Nat
    BY <1>6, <1>f DEF update_productinfofile, TypeOK, FilesOK
  <2>2. cache' \in [File -> Content] /\ nfault' \in 0 .. MaxFault /\ prodbuf' \in Content
    BY <1>6, <1>f, <1>w, <1>a DEF update_productinfofile, TypeOK, FilesOK
  <2>f. FlagsOK'
    BY <1>6, <1>u DEF update_productinfofile, Finish, TypeOK, FlagsOK
  <2>b. BoundsOK'
    BY <1>6, <1>u, <2>2 DEF update_productinfofile, Finish, TypeOK, BoundsOK
  <2>d. DaemonOK'
    BY <1>6, <1>u DEF update_productinfofile, Finish, TypeOK, DaemonOK, Locations
  <2>i. FilesOK'
    BY <1>6, <2>1, <2>2 DEF update_productinfofile, Finish, TypeOK, FilesOK
  <2> QED BY <2>f, <2>b, <2>d, <2>i DEF TypeOK
<1>7. CASE FsyncProduct
  <2>f. FlagsOK'
    BY <1>7, <1>u DEF FsyncProduct, Finish, TypeOK, FlagsOK
  <2>b. BoundsOK'
    BY <1>7, <1>u DEF FsyncProduct, Finish, TypeOK, BoundsOK
  <2>d. DaemonOK'
    BY <1>7, <1>u DEF FsyncProduct, Finish, TypeOK, DaemonOK, Locations
  <2>i. FilesOK'
    BY <1>7, <1>s, <1>f DEF FsyncProduct, Finish, TypeOK, FilesOK
  <2> QED BY <2>f, <2>b, <2>d, <2>i DEF TypeOK
<1>8. CASE WriteProductCopy
  <2>2. cache' \in [File -> Content] /\ nfault' \in 0 .. MaxFault
    BY <1>8, <1>f, <1>w, <1>a DEF WriteProductCopy, TypeOK, FilesOK
  <2>f. FlagsOK'
    BY <1>8, <1>u DEF WriteProductCopy, Finish, TypeOK, FlagsOK
  <2>b. BoundsOK'
    BY <1>8, <1>u, <2>2 DEF WriteProductCopy, Finish, TypeOK, BoundsOK
  <2>d. DaemonOK'
    BY <1>8, <1>u DEF WriteProductCopy, Finish, TypeOK, DaemonOK, Locations
  <2>i. FilesOK'
    BY <1>8, <2>2 DEF WriteProductCopy, Finish, TypeOK, FilesOK
  <2> QED BY <2>f, <2>b, <2>d, <2>i DEF TypeOK
<1>9. CASE FsyncProductCopy
  <2>f. FlagsOK'
    BY <1>9, <1>u DEF FsyncProductCopy, Finish, TypeOK, FlagsOK
  <2>b. BoundsOK'
    BY <1>9, <1>u DEF FsyncProductCopy, Finish, TypeOK, BoundsOK
  <2>d. DaemonOK'
    BY <1>9, <1>u DEF FsyncProductCopy, Finish, TypeOK, DaemonOK, Locations
  <2>i. FilesOK'
    BY <1>9, <1>s, <1>f DEF FsyncProductCopy, Finish, TypeOK, FilesOK
  <2> QED BY <2>f, <2>b, <2>d, <2>i DEF TypeOK
<1>10. CASE FsyncRuntime
  <2>f. FlagsOK'
    BY <1>10, <1>u DEF FsyncRuntime, Finish, TypeOK, FlagsOK
  <2>b. BoundsOK'
    BY <1>10, <1>u DEF FsyncRuntime, Finish, TypeOK, BoundsOK
  <2>d. DaemonOK'
    BY <1>10, <1>u DEF FsyncRuntime, Finish, TypeOK, DaemonOK, Locations
  <2>i. FilesOK'
    BY <1>10, <1>s, <1>f DEF FsyncRuntime, Finish, TypeOK, FilesOK
  <2> QED BY <2>f, <2>b, <2>d, <2>i DEF TypeOK
<1>11. CASE FsyncRuntimeCopy
  <2>f. FlagsOK'
    BY <1>11, <1>u DEF FsyncRuntimeCopy, Finish, TypeOK, FlagsOK
  <2>b. BoundsOK'
    BY <1>11, <1>u DEF FsyncRuntimeCopy, Finish, TypeOK, BoundsOK
  <2>d. DaemonOK'
    BY <1>11, <1>u DEF FsyncRuntimeCopy, Finish, TypeOK, DaemonOK, Locations
  <2>i. FilesOK'
    BY <1>11, <1>s, <1>f DEF FsyncRuntimeCopy, Finish, TypeOK, FilesOK
  <2> QED BY <2>f, <2>b, <2>d, <2>i DEF TypeOK
<1> QED BY <1>1, <1>2, <1>3, <1>4, <1>5, <1>6, <1>7, <1>8, <1>9, <1>10, <1>11

\* Stuttering keeps the types.
LEMMA StutterType == TypeOK /\ UNCHANGED vars => TypeOK'
<1> SUFFICES ASSUME TypeOK, UNCHANGED vars PROVE TypeOK'
  OBVIOUS
<1>f. FlagsOK'
  BY DEF vars, link, daemon, buffer, files, bounds, images, marks, TypeOK, FlagsOK
<1>b. BoundsOK'
  BY DEF vars, link, daemon, buffer, files, bounds, images, marks, TypeOK, BoundsOK
<1>d. DaemonOK'
  BY DEF vars, link, daemon, buffer, files, bounds, images, marks, TypeOK, DaemonOK, Locations
<1>i. FilesOK'
  BY DEF vars, link, daemon, buffer, files, bounds, images, marks, TypeOK, FilesOK
<1> QED BY <1>f, <1>b, <1>d, <1>i DEF TypeOK

\* Every step of the specification keeps the types.
LEMMA NextType == TypeOK /\ [Next]_vars => TypeOK'
  BY InitType, ModemType, CrashType, ControlType, RequestType, PayloadType, StoreType,
     StutterType DEF Next, Daemon

\* The type invariant of the nvitem daemon, for all file sizes and bounds.
THEOREM TypeCorrect == Spec => []TypeOK
  BY InitType, NextType, PTL DEF Spec

-----------------------------------------------------------------------------
(* One copy of fixnv survives.                                             *)

\* A newer history still holds what an older one held.
LEMMA HoldsAppend ==
  ASSUME NEW S, NEW h \in Seq(S), NEW x \in S, NEW from \in Nat \ {0}, NEW c, Holds(c, h, from)
  PROVE  Holds(c, Append(h, x), from)
<1>1. PICK j \in from .. Len(h) : c.cells = h[j]
  BY DEF Holds
<1>2. j \in from .. Len(Append(h, x)) /\ Append(h, x)[j] = h[j]
  OBVIOUS
<1> QED BY <1>1, <1>2 DEF Holds

\* The newest image counts as recent whatever has been acknowledged.
LEMMA HoldsNewest ==
  ASSUME TypeOK, NEW c, Newest(c)
  PROVE  Holds(c, hist, acked) /\ Holds(c, hist, Len(hist))
<1>1. Len(hist) \in acked .. Len(hist) /\ Len(hist) \in Len(hist) .. Len(hist)
  BY DEF TypeOK, FilesOK
<1> QED BY <1>1 DEF Newest, Holds

\* What FixInv says of a state that is not excused.
FixBody ==
  /\ Holds(disk["fixnv"], hist, acked) \/ Holds(disk["backupfixnv"], hist, acked)
  /\ ncrash = 0 => Holds(disk["backupfixnv"], hist, acked)
  /\ pc # "fixsync" => cache["fixnv"] = disk["fixnv"]
  /\ pc # "bksync" => cache["backupfixnv"] = disk["backupfixnv"]
  /\ pc = "fixsync" => cache["fixnv"] = fixbuf
  /\ pc = "bksync" => cache["backupfixnv"] = fixbuf /\ ~touched
  /\ flag /\ ~touched => Newest(fixbuf)
  /\ flag /\ pc # "fixsync" => Newest(disk["fixnv"])
  /\ flag /\ pc = "sync" => Newest(disk["backupfixnv"])

FixControl ==
  /\ pc = "fixsync" => flag /\ ~touched
  /\ pc \in {"backup", "bksync"} => flag

\* FixInv in two parts.
LEMMA FixParts == FixInv <=> FixControl /\ (Excused \/ FixBody)
  BY DEF FixInv, FixControl, FixBody

\* Steps that leave the two fixnv files and what is known of them alone.
Elsewhere ==
  /\ UNCHANGED <<fixbuf, flag, touched, hist, acked, ncrash>>
  /\ cache'["fixnv"] = cache["fixnv"] /\ cache'["backupfixnv"] = cache["backupfixnv"]
  /\ disk'["fixnv"] = disk["fixnv"] /\ disk'["backupfixnv"] = disk["backupfixnv"]
  /\ \/ pc' = pc
     \/ /\ pc \notin {"fixsync", "backup", "bksync", "sync"}
        /\ pc' \notin {"fixsync", "backup", "bksync", "sync"}

\* Such steps keep FixInv.
LEMMA FixFrame ==
  ASSUME FixInv, Elsewhere, Excused => Excused'
  PROVE  FixInv'
<1>1. FixControl'
  BY FixParts DEF Elsewhere, FixControl
<1>2. CASE Excused
  BY <1>1, <1>2, FixParts DEF FixInv, FixControl
<1>3. CASE FixBody
  <2>1. FixBody'
    BY <1>3 DEF FixBody, Elsewhere, Newest, Holds
  <2> QED BY <1>1, <2>1 DEF FixInv, FixControl, FixBody
<1> QED BY <1>2, <1>3, FixParts

\* The excuses stay once given.
ExcuseKept ==
  /\ nfault' = nfault \/ Fails
  /\ (dirty => dirty')

\* A state that is excused stays excused.
LEMMA ExcusedStays == ASSUME TypeOK, ExcuseKept, UNCHANGED ncrash, Excused PROVE Excused'
<1>1. nfault > 0 => nfault' > 0
  BY DEF TypeOK, BoundsOK, ExcuseKept, Fails
<1> QED BY <1>1 DEF ExcuseKept, Excused

\* Actions that are not about fixnv.
LEMMA FixElsewhere ==
  ASSUME TypeOK, FixInv,
         \/ Modem \/ OpenPipe \/ HeaderEof \/ PayloadEof \/ RestartDone \/ ReadGarbageHeader
         \/ UnknownType \/ OpenFails \/ RuntimeRequest \/ ProductRequest
         \/ RuntimeData \/ ProductData \/ update_productinfofile \/ FsyncProduct
         \/ WriteProductCopy \/ FsyncProductCopy \/ FsyncRuntime \/ FsyncRuntimeCopy
         \/ UNCHANGED vars
  PROVE  FixInv'
<1> SUFFICES Elsewhere /\ ExcuseKept
  BY FixFrame, ExcusedStays DEF Elsewhere
<1>t. cache \in [File -> Content] /\ disk \in [File -> Content]
  BY DEF TypeOK, FilesOK
<1>r. ASSUME NEW f \in File \ {"fixnv", "backupfixnv"}, NEW c, Write(f, c)
      PROVE  /\ cache'["fixnv"] = cache["fixnv"] /\ cache'["backupfixnv"] = cache["backupfixnv"]
             /\ nfault' = nfault \/ Fails
  BY <1>r, <1>t DEF Write, File
<1>s. ASSUME NEW f \in File \ {"fixnv", "backupfixnv"}, Fsync(f)
      PROVE  /\ disk'["fixnv"] = disk["fixnv"] /\ disk'["backupfixnv"] = disk["backupfixnv"]
             /\ UNCHANGED cache
  BY <1>s, <1>t DEF Fsync, File
<1> USE DEF Elsewhere, ExcuseKept, link, daemon, buffer, files, bounds, images, marks
<1>1. CASE Modem
  <2>1. CASE ModemReset
    BY <2>1 DEF ModemReset
  <2>2. ASSUME NEW h \in Requests, ModemSend(h) PROVE Elsewhere /\ ExcuseKept
    BY <2>2 DEF ModemSend
  <2> QED BY <1>1, <2>1, <2>2 DEF Modem
<1>2. CASE OpenPipe
  BY <1>2 DEF OpenPipe
<1>3. CASE HeaderEof
  BY <1>3 DEF HeaderEof, check_reboot
<1>4. CASE PayloadEof
  BY <1>4 DEF PayloadEof, check_reboot
<1>5. CASE RestartDone
  BY <1>5 DEF RestartDone
<1>6. CASE ReadGarbageHeader
  BY <1>6 DEF ReadGarbageHeader
<1>7. CASE UnknownType
  BY <1>7 DEF UnknownType, NextHeader
<1>8. CASE OpenFails
  BY <1>8 DEF OpenFails, NextHeader
<1>9. CASE RuntimeRequest
  BY <1>9 DEF RuntimeRequest, NextHeader
<1>10. CASE ProductRequest
  <2>1. Elsewhere
    BY <1>10 DEF ProductRequest, NextHeader
  <2>2. nfault' = nfault
    BY <1>10 DEF ProductRequest
  <2>3. dirty => dirty'
    BY <1>10 DEF ProductRequest
  <2> QED BY <2>1, <2>2, <2>3
<1>11. CASE RuntimeData
  <2>1. \A f \in File \ {"runtimenv", "runtimenvbkup"} : cache'[f] = cache[f]
    BY <1>11, <1>t DEF RuntimeData
  <2>2. UNCHANGED <<pc, flag, disk, ncrash, hist, acked, fixbuf, touched>> /\ (dirty => dirty')
    BY <1>11 DEF RuntimeData, ReadData
  <2>3. nfault' = nfault \/ Fails
    BY <1>11 DEF RuntimeData
  <2> QED BY <2>1, <2>2, <2>3 DEF File
<1>12. CASE ProductData
  BY <1>12 DEF ProductData, ReadData
<1>13. CASE update_productinfofile
  BY <1>13, <1>r DEF update_productinfofile, Storing, Complete, Finish, File
<1>14. CASE FsyncProduct
  BY <1>14, <1>s DEF FsyncProduct, Storing, File
<1>15. CASE WriteProductCopy
  BY <1>15, <1>r DEF WriteProductCopy, Storing, Finish, File
<1>16. CASE FsyncProductCopy
  BY <1>16, <1>s DEF FsyncProductCopy, Storing, Finish, File
<1>17. CASE FsyncRuntime
  BY <1>17, <1>s DEF FsyncRuntime, Storing, Complete, File
<1>18. CASE FsyncRuntimeCopy
  BY <1>18, <1>s DEF FsyncRuntimeCopy, Storing, Finish, File
<1>19. CASE UNCHANGED vars
  BY <1>19 DEF vars
<1> QED BY <1>1, <1>2, <1>3, <1>4, <1>5, <1>6, <1>7, <1>8, <1>9, <1>10, <1>11, <1>12,
           <1>13, <1>14, <1>15, <1>16, <1>17, <1>18, <1>19

\* The provisioned files are whole.
LEMMA FixInit == TypeOK /\ Init => FixInv
<1> SUFFICES ASSUME TypeOK, Init PROVE FixInv
  OBVIOUS
<1>1. Holds(Blank, hist, acked)
  BY DEF Init, Holds, Valid, calc_checksum, Blank
<1>2. FixControl
  BY DEF Init, FixControl
<1>3. FixBody
  BY <1>1 DEF Init, FixBody, File
<1> QED BY <1>2, <1>3, FixParts

\* A sync command starts: with the flag set, the backup is written next.
LEMMA FixSyncCommand == ASSUME TypeOK, FixInv, SyncCommand PROVE FixInv'
<1>1. PICK h \in Header : NextHeader(h) /\ pc' = IF flag THEN "backup" ELSE "sync"
  BY DEF SyncCommand
<1>2. pc = "header" /\ UNCHANGED <<fixbuf, flag, touched, dirty, hist, acked, cache,
                                  disk, ncrash, nfault>>
  BY DEF SyncCommand, NextHeader, buffer, files, images, marks, bounds
<1>3. FixControl'
  BY <1>1, <1>2, FixParts DEF FixControl
<1>4. Excused => Excused'
  BY <1>2 DEF Excused
<1>5. FixBody => FixBody'
  BY <1>1, <1>2 DEF FixBody, Holds, Newest
<1> QED BY <1>3, <1>4, <1>5, FixParts DEF FixInv, FixControl, FixBody

\* A fixnv request starts: fixnv_buffer becomes the stored file.
LEMMA FixRequest == ASSUME TypeOK, FixInv, FixnvRequest PROVE FixInv'
<1>1. /\ pc = "header" /\ pc' = "payload" /\ fixbuf' = cache["fixnv"]
      /\ UNCHANGED <<flag, dirty, hist, acked, cache, disk, ncrash, nfault>>
  BY DEF FixnvRequest, NextHeader, files, images, bounds
<1>3. FixControl'
  BY <1>1, FixParts DEF FixControl
<1>4. Excused => Excused'
  BY <1>1 DEF Excused
<1>5. FixBody => FixBody'
  BY <1>1 DEF FixBody, Holds, Newest
<1> QED BY <1>3, <1>4, <1>5, FixParts DEF FixInv, FixControl, FixBody

\* Payload goes to fixnv_buffer, which is then touched.
LEMMA FixData == ASSUME TypeOK, FixInv, FixnvData PROVE FixInv'
<1>1. /\ pc = "payload" /\ pc' = "payload" /\ touched'
      /\ UNCHANGED <<flag, dirty, hist, acked, cache, disk, ncrash, nfault>>
  BY DEF FixnvData, ReadData, images
<1>3. FixControl'
  BY <1>1, FixParts DEF FixControl
<1>4. Excused => Excused'
  BY <1>1 DEF Excused
<1>5. FixBody => FixBody'
  BY <1>1 DEF FixBody, Holds, Newest
<1> QED BY <1>3, <1>4, <1>5, FixParts DEF FixInv, FixControl, FixBody

\* fixnv.bin is written: the backup still holds a recent image, or the flash has
\* the old fixnv.bin.
LEMMA FixWrite == ASSUME TypeOK, FixInv, update_fixnvfile PROVE FixInv'
<1>1. /\ pc = "payload" /\ flag' = TRUE /\ touched' = FALSE /\ fixbuf' = Sealed(fixbuf)
      /\ hist' = Append(hist, fixbuf.cells)
      /\ UNCHANGED <<dirty, acked, disk, ncrash>>
      /\ pc' = "fixsync" \/ pc' = "header"
      /\ \/ Fails
         \/ UNCHANGED nfault /\ pc' = "fixsync" /\ cache' = [cache EXCEPT !["fixnv"] = fixbuf']
  BY DEF update_fixnvfile, Complete, Storing, Write, Finish
<1>2. /\ fixbuf.cells \in Image /\ hist \in Seq(Image) /\ acked \in Nat \ {0}
      /\ nfault \in Nat /\ cache \in [File -> Content]
      /\ Valid(Sealed(fixbuf)) /\ Sealed(fixbuf).cells = fixbuf.cells
  BY SealedType DEF TypeOK, FilesOK, DaemonOK, BoundsOK, Content
<1>3. FixControl'
  BY <1>1 DEF FixControl
<1>4. CASE Excused \/ Fails
  <2>1. Excused'
    BY <1>1, <1>2, <1>4 DEF Excused, Fails
  <2> QED BY <1>3, <2>1 DEF FixInv, FixControl
<1>5. CASE FixBody /\ ~Fails
  <2>1. cache'["fixnv"] = fixbuf' /\ cache'["backupfixnv"] = cache["backupfixnv"]
    BY <1>1, <1>2, <1>5 DEF File
  <2>2. Newest(fixbuf)'
    BY <1>1, <1>2 DEF Newest, Valid
  <2>3. \A c : Holds(c, hist, acked) => Holds(c, hist', acked')
    BY <1>1, <1>2, HoldsAppend
  <2>4. /\ (Holds(disk["fixnv"], hist, acked) \/ Holds(disk["backupfixnv"], hist, acked))'
        /\ ncrash' = 0 => Holds(disk["backupfixnv"], hist, acked)'
    BY <1>1, <1>5, <2>3 DEF FixBody
  <2>5. FixBody'
    BY <1>1, <1>5, <2>1, <2>2, <2>4 DEF FixBody
  <2> QED BY <1>3, <2>5 DEF FixInv, FixControl, FixBody
<1> QED BY <1>4, <1>5, FixParts

\* fsync of fixnv.bin: the flash has the newest image.
LEMMA FixFsync == ASSUME TypeOK, FixInv, FsyncFixnv PROVE FixInv'
<1>1. /\ pc = "fixsync" /\ pc' = "header"
      /\ disk' = [disk EXCEPT !["fixnv"] = cache["fixnv"]]
      /\ UNCHANGED <<fixbuf, flag, touched, dirty, hist, acked, cache, ncrash, nfault>>
  BY DEF FsyncFixnv, Finish, Fsync, Storing, images
<1>2. disk'["fixnv"] = cache["fixnv"] /\ disk'["backupfixnv"] = disk["backupfixnv"]
  BY <1>1 DEF TypeOK, FilesOK, File
<1>3. FixControl'
  BY <1>1 DEF FixControl
<1>4. Excused => Excused'
  BY <1>1 DEF Excused
<1>5. ASSUME FixBody PROVE FixBody'
  <2>1. Newest(fixbuf) /\ fixbuf = cache["fixnv"]
    BY <1>1, <1>5, FixParts DEF FixBody, FixControl
  <2>2. Newest(disk["fixnv"])' /\ Newest(fixbuf)'
    BY <1>1, <1>2, <2>1 DEF Newest
  <2>3. Holds(disk["fixnv"], hist, acked)'
    BY <1>1, <1>2, <2>1, HoldsNewest
  <2>4. ncrash' = 0 => Holds(disk["backupfixnv"], hist, acked)'
    BY <1>1, <1>2, <1>5 DEF FixBody
  <2> QED BY <1>1, <1>2, <1>5, <2>2, <2>3, <2>4 DEF FixBody
<1> QED BY <1>3, <1>4, <1>5, FixParts DEF FixInv, FixControl, FixBody

\* The backup is written from a buffer that is the newest image (or dirty).
LEMMA FixBackup == ASSUME TypeOK, FixInv, update_backupfile PROVE FixInv'
<1>1. /\ pc = "backup" /\ (pc' = "bksync" \/ pc' = "sync")
      /\ (dirty => dirty') /\ (touched => dirty')
      /\ UNCHANGED <<fixbuf, flag, touched, hist, acked, disk, ncrash>>
      /\ \/ Fails
         \/ /\ UNCHANGED nfault /\ pc' = "bksync"
            /\ cache' = [cache EXCEPT !["backupfixnv"] = fixbuf]
  BY DEF update_backupfile, Storing, Write, images
<1>2. nfault \in Nat /\ cache \in [File -> Content]
  BY DEF TypeOK, FilesOK, BoundsOK
<1>3. FixControl'
  BY <1>1, FixParts DEF FixControl
<1>4. CASE Excused \/ Fails \/ touched
  <2>1. Excused'
    BY <1>1, <1>2, <1>4 DEF Excused, Fails
  <2> QED BY <1>3, <2>1 DEF FixInv, FixControl
<1>5. CASE FixBody /\ ~Fails /\ ~touched
  <2>1. cache'["fixnv"] = cache["fixnv"] /\ cache'["backupfixnv"] = fixbuf
    BY <1>1, <1>2, <1>5 DEF File
  <2>2. FixBody'
    BY <1>1, <1>5, <2>1 DEF FixBody, Holds, Newest
  <2> QED BY <1>3, <2>2 DEF FixInv, FixControl, FixBody
<1> QED BY <1>4, <1>5, FixParts

\* fsync of the backup: both files have the newest image.
LEMMA FixFsyncBackup == ASSUME TypeOK, FixInv, FsyncBackup PROVE FixInv'
<1>1. /\ pc = "bksync" /\ pc' = "sync"
      /\ disk' = [disk EXCEPT !["backupfixnv"] = cache["backupfixnv"]]
      /\ UNCHANGED <<fixbuf, flag, touched, dirty, hist, acked, cache, ncrash, nfault>>
  BY DEF FsyncBackup, Fsync, Storing, images
<1>2. disk'["fixnv"] = disk["fixnv"] /\ disk'["backupfixnv"] = cache["backupfixnv"]
  BY <1>1 DEF TypeOK, FilesOK, File
<1>3. FixControl'
  BY <1>1 DEF FixControl
<1>4. Excused => Excused'
  BY <1>1 DEF Excused
<1>5. ASSUME FixBody PROVE FixBody'
  <2>1. Newest(fixbuf) /\ fixbuf = cache["backupfixnv"] /\ Newest(disk["fixnv"])
    BY <1>1, <1>5, FixParts DEF FixBody, FixControl
  <2>2. Newest(disk["fixnv"])' /\ Newest(disk["backupfixnv"])' /\ Newest(fixbuf)'
    BY <1>1, <1>2, <2>1 DEF Newest
  <2>3. Holds(disk["backupfixnv"], hist, acked)'
    BY <1>1, <1>2, <2>1, HoldsNewest
  <2> QED BY <1>1, <1>2, <1>5, <2>2, <2>3 DEF FixBody
<1> QED BY <1>3, <1>4, <1>5, FixParts DEF FixInv, FixControl, FixBody

\* The sync is answered: what it acknowledges is in both files.
LEMMA FixAnswer == ASSUME TypeOK, FixInv, SyncAndAnswer PROVE FixInv'
<1>1. /\ pc = "sync" /\ pc' = "header" /\ flag' = FALSE /\ disk' = cache
      /\ acked' = (IF flag THEN Len(hist) ELSE acked)
      /\ UNCHANGED <<fixbuf, touched, dirty, hist, cache, ncrash>>
      /\ UNCHANGED nfault \/ Fails
  BY DEF SyncAndAnswer, Finish, Storing
<1>2. nfault \in Nat
  BY DEF TypeOK, BoundsOK
<1>3. FixControl'
  BY <1>1 DEF FixControl
<1>4. Excused => Excused'
  BY <1>1, <1>2 DEF Excused, Fails
<1>5. ASSUME FixBody PROVE FixBody'
  <2>1. disk'["fixnv"] = disk["fixnv"] /\ disk'["backupfixnv"] = disk["backupfixnv"]
    BY <1>1, <1>5 DEF FixBody
  <2>2. CASE flag
    <3>1. Holds(disk["fixnv"], hist, Len(hist)) /\ Holds(disk["backupfixnv"], hist, Len(hist))
      BY <1>1, <1>5, <2>2, HoldsNewest DEF FixBody
    <3>2. Holds(disk["fixnv"], hist, acked)' /\ Holds(disk["backupfixnv"], hist, acked)'
      BY <1>1, <2>1, <2>2, <3>1
    <3> QED BY <1>1, <3>2 DEF FixBody
  <2>3. CASE ~flag
    <3>1. acked' = acked
      BY <1>1, <2>3
    <3>2. /\ (Holds(disk["fixnv"], hist, acked) \/ Holds(disk["backupfixnv"], hist, acked))'
          /\ ncrash' = 0 => Holds(disk["backupfixnv"], hist, acked)'
      BY <1>1, <1>5, <2>1, <3>1 DEF FixBody
    <3> QED BY <1>1, <3>2 DEF FixBody
  <2> QED BY <2>2, <2>3
<1> QED BY <1>3, <1>4, <1>5, FixParts DEF FixInv, FixControl, FixBody

\* The first power failure tears at most the one file that was being written.
LEMMA FixCrash == ASSUME TypeOK, FixInv, Crash PROVE FixInv'
<1>1. /\ pc' = "open" /\ flag' = FALSE /\ touched' = FALSE /\ ncrash' = ncrash + 1
      /\ cache' = disk'
      /\ \A f \in File : cache[f] = disk[f] => disk'[f] = disk[f]
      /\ UNCHANGED <<dirty, hist, acked, nfault>>
  BY DEF Crash, images
<1>2. ncrash \in Nat
  BY DEF TypeOK, BoundsOK
<1>3. FixControl'
  BY <1>1 DEF FixControl
<1>4. CASE Excused \/ ncrash # 0
  <2>1. Excused'
    BY <1>1, <1>2, <1>4 DEF Excused
  <2> QED BY <1>3, <2>1 DEF FixInv, FixControl
<1>5. CASE FixBody /\ ncrash = 0
  <2>0. "fixnv" \in File /\ "backupfixnv" \in File
    BY DEF File
  <2>1. ASSUME pc # "bksync" PROVE FixBody'
    <3>1. disk'["backupfixnv"] = disk["backupfixnv"]
      BY <1>1, <1>5, <2>0, <2>1 DEF FixBody
    <3>2. Holds(disk["backupfixnv"], hist, acked)'
      BY <1>1, <1>5, <3>1 DEF FixBody
    <3> QED BY <1>1, <1>2, <1>5, <3>2 DEF FixBody
  <2>2. ASSUME pc = "bksync" PROVE FixBody'
    <3>1. disk'["fixnv"] = disk["fixnv"] /\ Newest(disk["fixnv"])
      BY <1>1, <1>5, <2>0, <2>2, FixParts DEF FixBody, FixControl
    <3>2. Holds(disk["fixnv"], hist, acked)'
      BY <1>1, <3>1, HoldsNewest
    <3> QED BY <1>1, <1>2, <1>5, <3>2 DEF FixBody
  <2>3. FixBody'
    BY <2>1, <2>2
  <2> QED BY <1>3, <2>3 DEF FixInv, FixControl, FixBody
<1> QED BY <1>4, <1>5, FixParts

\* FixInv is inductive.
LEMMA FixNext == TypeOK /\ FixInv /\ [Next]_vars => FixInv'
  BY FixElsewhere, FixSyncCommand, FixRequest, FixData, FixWrite, FixFsync, FixBackup,
     FixFsyncBackup, FixAnswer, FixCrash DEF Next, Daemon

\* For every size of the files and every sequence of requests, resets and faults:
\* when the power fails, fixnv.bin or its backup is a whole image at least as new
\* as the one last answered with a sync, with the exceptions NvRecoverable names.
THEOREM FixnvRecoverable == Spec => []NvRecoverable
<1>1. FixInv => NvRecoverable
  BY DEF FixInv, NvRecoverable, Excused
<1>2. Init => TypeOK /\ FixInv
  BY InitType, FixInit
<1>3. TypeOK /\ FixInv /\ [Next]_vars => (TypeOK /\ FixInv)'
  BY NextType, FixNext
<1> QED BY <1>1, <1>2, <1>3, PTL DEF Spec

-----------------------------------------------------------------------------
(* What the system calls leave alone.                                      *)

\* write() of a file changes no other file, and what fails is counted.
LEMMA WriteOther ==
  ASSUME TypeOK, NEW f \in File, NEW c, Write(f, c)
  PROVE  /\ \A g \in File \ {f} : cache'[g] = cache[g]
         /\ (nfault' = nfault /\ cache'[f] = c) \/ Fails
  BY DEF Write, TypeOK, FilesOK

\* fsync() of a file makes the flash agree with it, and changes no other file.
LEMMA FsyncOther ==
  ASSUME TypeOK, NEW f \in File, Fsync(f)
  PROVE  /\ disk'[f] = cache[f] /\ UNCHANGED cache
         /\ \A g \in File \ {f} : disk'[g] = disk[g]
  BY DEF Fsync, TypeOK, FilesOK

\* A failing call leaves a state with a fault.
LEMMA FailsCounted == ASSUME TypeOK, Fails PROVE nfault' # 0
  BY DEF Fails, TypeOK, BoundsOK

\* A power failure leaves a file alone that was not being written.
LEMMA CrashOther ==
  ASSUME Crash
  PROVE  \A f \in File : cache[f] = disk[f] => disk'[f] = disk[f]
  BY DEF Crash

-----------------------------------------------------------------------------
(* The wake lock.                                                          *)

\* Steps of the modem and of the pipe keep Synced.
LEMMA SyncedControl ==
  ASSUME TypeOK, Synced,
         \/ Modem \/ OpenPipe \/ HeaderEof \/ PayloadEof \/ RestartDone \/ ReadGarbageHeader
         \/ UNCHANGED vars
  PROVE  Synced'
<1> USE DEF Synced, link, daemon, files, bounds, images, marks
<1>1. CASE ModemReset
  BY <1>1 DEF ModemReset
<1>2. ASSUME NEW h \in Requests, ModemSend(h) PROVE Synced'
  BY <1>2 DEF ModemSend
<1>3. CASE OpenPipe
  BY <1>3 DEF OpenPipe
<1>4. CASE HeaderEof
  BY <1>4 DEF HeaderEof, check_reboot
<1>5. CASE PayloadEof
  BY <1>5 DEF PayloadEof, check_reboot
<1>6. CASE RestartDone
  BY <1>6 DEF RestartDone
<1>7. CASE ReadGarbageHeader
  BY <1>7 DEF ReadGarbageHeader
<1>8. CASE UNCHANGED vars
  BY <1>8 DEF vars
<1> QED BY <1>1, <1>2, <1>3, <1>4, <1>5, <1>6, <1>7, <1>8 DEF Modem

\* A request takes the lock before anything is written; its payload writes none of
\* the four files.
LEMMA SyncedRequest ==
  ASSUME TypeOK, Synced,
         \/ SyncCommand \/ UnknownType \/ OpenFails \/ FixnvRequest \/ RuntimeRequest
         \/ ProductRequest \/ FixnvData \/ RuntimeData \/ ProductData
  PROVE  Synced'
<1>t. cache \in [File -> Content]
  BY DEF TypeOK, FilesOK
<1> USE DEF Synced, files
<1>1. CASE SyncCommand
  BY <1>1 DEF SyncCommand, NextHeader
<1>2. CASE UnknownType
  BY <1>2 DEF UnknownType, NextHeader
<1>3. CASE OpenFails
  BY <1>3 DEF OpenFails, NextHeader
<1>4. CASE FixnvRequest
  BY <1>4 DEF FixnvRequest, NextHeader
<1>5. CASE RuntimeRequest
  BY <1>5 DEF RuntimeRequest, NextHeader
<1>6. CASE ProductRequest
  BY <1>6 DEF ProductRequest, NextHeader
<1>7. CASE FixnvData
  BY <1>7 DEF FixnvData, ReadData
<1>8. CASE ProductData
  BY <1>8 DEF ProductData, ReadData
<1>9. CASE RuntimeData
  <2>1. \A f \in File \ {"runtimenv", "runtimenvbkup"} : cache'[f] = cache[f]
    BY <1>9, <1>t DEF RuntimeData
  <2>2. UNCHANGED <<pc, wakelock, disk>>
    BY <1>9 DEF RuntimeData, ReadData
  <2> QED BY <2>1, <2>2 DEF File
<1> QED BY <1>1, <1>2, <1>3, <1>4, <1>5, <1>6, <1>7, <1>8, <1>9

\* Each write() is followed by its fsync() before the lock is released.
LEMMA SyncedStore ==
  ASSUME TypeOK, Synced,
         \/ update_fixnvfile \/ FsyncFixnv \/ update_backupfile \/ FsyncBackup
         \/ SyncAndAnswer \/ update_productinfofile \/ FsyncProduct \/ WriteProductCopy
         \/ FsyncProductCopy \/ FsyncRuntime \/ FsyncRuntimeCopy
  PROVE  Synced'
<1> USE DEF Synced, File
<1>1. CASE update_fixnvfile
  <2>1. CASE Write("fixnv", fixbuf') /\ pc' = "fixsync" /\ UNCHANGED wakelock
    <3>1. \A g \in File \ {"fixnv"} : cache'[g] = cache[g]
      BY <2>1, WriteOther
    <3> QED BY <1>1, <2>1, <3>1 DEF update_fixnvfile, Complete
  <2>2. CASE Finish /\ UNCHANGED cache
    BY <1>1, <2>2 DEF update_fixnvfile, Complete, Finish
  <2> QED BY <1>1, <2>1, <2>2 DEF update_fixnvfile
<1>2. CASE FsyncFixnv
  BY <1>2, FsyncOther DEF FsyncFixnv, Finish
<1>3. CASE update_backupfile
  BY <1>3, WriteOther DEF update_backupfile
<1>4. CASE FsyncBackup
  BY <1>4, FsyncOther DEF FsyncBackup
<1>5. CASE SyncAndAnswer
  BY <1>5 DEF SyncAndAnswer, Finish
<1>6. CASE update_productinfofile
  <2>1. CASE Write("productinfo", prodbuf') /\ pc' = "psync" /\ UNCHANGED wakelock
    <3>1. \A g \in File \ {"productinfo"} : cache'[g] = cache[g]
      BY <2>1, WriteOther
    <3> QED BY <1>6, <2>1, <3>1 DEF update_productinfofile, Complete
  <2>2. CASE Finish /\ UNCHANGED cache
    BY <1>6, <2>2 DEF update_productinfofile, Complete, Finish
  <2> QED BY <1>6, <2>1, <2>2 DEF update_productinfofile
<1>7. CASE FsyncProduct
  BY <1>7, FsyncOther DEF FsyncProduct
<1>8. CASE WriteProductCopy
  <2>1. CASE Write("productinfobkup", prodbuf) /\ pc' = "psync2" /\ UNCHANGED wakelock
    <3>1. \A g \in File \ {"productinfobkup"} : cache'[g] = cache[g]
      BY <2>1, WriteOther
    <3> QED BY <1>8, <2>1, <3>1 DEF WriteProductCopy
  <2>2. CASE Finish /\ UNCHANGED cache
    BY <1>8, <2>2 DEF WriteProductCopy, Finish
  <2> QED BY <1>8, <2>1, <2>2 DEF WriteProductCopy
<1>9. CASE FsyncProductCopy
  BY <1>9, FsyncOther DEF FsyncProductCopy, Finish
<1>10. CASE FsyncRuntime
  BY <1>10, FsyncOther DEF FsyncRuntime, Complete
<1>11. CASE FsyncRuntimeCopy
  BY <1>11, FsyncOther DEF FsyncRuntimeCopy, Finish
<1> QED BY <1>1, <1>2, <1>3, <1>4, <1>5, <1>6, <1>7, <1>8, <1>9, <1>10, <1>11

\* Synced is inductive.
LEMMA SyncedNext == TypeOK /\ Synced /\ [Next]_vars => Synced'
<1>1. Crash => Synced'
  BY DEF Crash, Synced
<1> QED BY <1>1, SyncedControl, SyncedRequest, SyncedStore DEF Next, Daemon

\* The initial files are on the flash.
LEMMA SyncedInit == Init => Synced
  BY DEF Init, Synced, File

\* On every path of nvitem.c a fixnv or productinfo file that is written and not
\* yet synced keeps the device awake: the lock is released after fsync().
THEOREM AwakeWhileUnsynced == Spec => []UnsyncedUnderLock
<1>1. Synced => UnsyncedUnderLock
  BY DEF Synced, UnsyncedUnderLock, File
<1>2. Init => TypeOK /\ Synced
  BY InitType, SyncedInit
<1>3. TypeOK /\ Synced /\ [Next]_vars => (TypeOK /\ Synced)'
  BY NextType, SyncedNext
<1> QED BY <1>1, <1>2, <1>3, PTL DEF Spec

-----------------------------------------------------------------------------
(* The two runtimenv files.                                                *)

\* Steps that leave the runtimenv files and a transfer to them alone.
RuntimeAside ==
  /\ UNCHANGED ncrash /\ (UNCHANGED nfault \/ Fails)
  /\ cache'["runtimenv"] = cache["runtimenv"] /\ cache'["runtimenvbkup"] = cache["runtimenvbkup"]
  /\ \/ pc' # "payload"
     \/ head'.type # 1
     \/ pc = "payload" /\ UNCHANGED <<head, offset, bkoffset>>

\* Such steps keep the two files side by side.
LEMMA SideFrame == ASSUME TypeOK, SideBySide, RuntimeAside PROVE SideBySide'
<1>1. nfault' = 0 => nfault = 0
  BY FailsCounted DEF RuntimeAside
<1> QED BY <1>1 DEF SideBySide, RuntimeAside

\* Every action but the runtimenv request and its payload.
LEMMA SideElsewhere ==
  ASSUME TypeOK,
         \/ Modem \/ OpenPipe \/ HeaderEof \/ PayloadEof \/ RestartDone \/ ReadGarbageHeader
         \/ SyncCommand \/ UnknownType \/ OpenFails \/ FixnvRequest \/ ProductRequest
         \/ FixnvData \/ ProductData \/ update_fixnvfile \/ FsyncFixnv \/ update_backupfile
         \/ FsyncBackup \/ SyncAndAnswer \/ update_productinfofile \/ FsyncProduct
         \/ WriteProductCopy \/ FsyncProductCopy \/ FsyncRuntime \/ FsyncRuntimeCopy
         \/ UNCHANGED vars
  PROVE  RuntimeAside
<1>w. ASSUME NEW f \in File \ {"runtimenv", "runtimenvbkup"}, NEW c, Write(f, c)
      PROVE  /\ cache'["runtimenv"] = cache["runtimenv"]
             /\ cache'["runtimenvbkup"] = cache["runtimenvbkup"]
             /\ UNCHANGED nfault \/ Fails
  BY <1>w, WriteOther DEF File
<1>f. \A f : Fsync(f) => UNCHANGED cache
  BY DEF Fsync
<1> USE DEF RuntimeAside, link, daemon, files, bounds, images, marks
<1>1. CASE ModemReset
  BY <1>1 DEF ModemReset
<1>2. ASSUME NEW h \in Requests, ModemSend(h) PROVE RuntimeAside
  BY <1>2 DEF ModemSend
<1>3. CASE OpenPipe
  BY <1>3 DEF OpenPipe
<1>4. CASE HeaderEof
  BY <1>4 DEF HeaderEof, check_reboot
<1>5. CASE PayloadEof
  BY <1>5 DEF PayloadEof, check_reboot
<1>6. CASE RestartDone
  BY <1>6 DEF RestartDone
<1>7. CASE ReadGarbageHeader
  BY <1>7 DEF ReadGarbageHeader
<1>8. CASE SyncCommand
  BY <1>8 DEF SyncCommand, NextHeader
<1>9. CASE UnknownType
  BY <1>9 DEF UnknownType, NextHeader
<1>10. CASE OpenFails
  BY <1>10 DEF OpenFails, NextHeader
<1>11. CASE FixnvRequest
  BY <1>11 DEF FixnvRequest, NextHeader
<1>12. CASE ProductRequest
  BY <1>12 DEF ProductRequest, NextHeader
<1>13. CASE FixnvData
  BY <1>13 DEF FixnvData, ReadData
<1>14. CASE ProductData
  BY <1>14 DEF ProductData, ReadData
<1>15. CASE update_fixnvfile
  <2>1. UNCHANGED ncrash /\ pc' # "payload"
    BY <1>15 DEF update_fixnvfile, Storing, Finish
  <2>2. CASE Write("fixnv", fixbuf')
    BY <1>w, <2>1, <2>2 DEF File
  <2>3. CASE Fails /\ UNCHANGED cache
    BY <2>1, <2>3
  <2> QED BY <1>15, <2>2, <2>3 DEF update_fixnvfile
<1>16. CASE FsyncFixnv
  BY <1>16, <1>f DEF FsyncFixnv, Storing, Finish
<1>17. CASE update_backupfile
  <2>1. UNCHANGED ncrash /\ pc' # "payload"
    BY <1>17 DEF update_backupfile, Storing
  <2>2. CASE Write("backupfixnv", fixbuf)
    BY <1>w, <2>1, <2>2 DEF File
  <2>3. CASE Fails /\ UNCHANGED cache
    BY <2>1, <2>3
  <2> QED BY <1>17, <2>2, <2>3 DEF update_backupfile
<1>18. CASE FsyncBackup
  BY <1>18, <1>f DEF FsyncBackup, Storing
<1>19. CASE SyncAndAnswer
  BY <1>19 DEF SyncAndAnswer, Storing, Finish
<1>20. CASE update_productinfofile
  <2>1. UNCHANGED ncrash /\ pc' # "payload"
    BY <1>20 DEF update_productinfofile, Storing, Finish
  <2>2. CASE Write("productinfo", prodbuf')
    BY <1>w, <2>1, <2>2 DEF File
  <2>3. CASE Fails /\ UNCHANGED cache
    BY <2>1, <2>3
  <2> QED BY <1>20, <2>2, <2>3 DEF update_productinfofile
<1>21. CASE FsyncProduct
  BY <1>21, <1>f DEF FsyncProduct, Storing
<1>22. CASE WriteProductCopy
  <2>1. UNCHANGED ncrash /\ pc' # "payload"
    BY <1>22 DEF WriteProductCopy, Storing, Finish
  <2>2. CASE Write("productinfobkup", prodbuf)
    BY <1>w, <2>1, <2>2 DEF File
  <2>3. CASE Fails /\ UNCHANGED cache
    BY <2>1, <2>3
  <2> QED BY <1>22, <2>2, <2>3 DEF WriteProductCopy
<1>23. CASE FsyncProductCopy
  BY <1>23, <1>f DEF FsyncProductCopy, Storing, Finish
<1>24. CASE FsyncRuntime
  BY <1>24, <1>f DEF FsyncRuntime, Storing
<1>25. CASE FsyncRuntimeCopy
  BY <1>25, <1>f DEF FsyncRuntimeCopy, Storing, Finish
<1>26. CASE UNCHANGED vars
  BY <1>26 DEF vars
<1> QED BY <1>1, <1>2, <1>3, <1>4, <1>5, <1>6, <1>7, <1>8, <1>9, <1>10, <1>11, <1>12, <1>13,
           <1>14, <1>15, <1>16, <1>17, <1>18, <1>19, <1>20, <1>21, <1>22, <1>23, <1>24, <1>25,
           <1>26 DEF Modem

\* A runtimenv request positions both files.
LEMMA SideRequest == ASSUME SideBySide, RuntimeRequest PROVE SideBySide'
  BY DEF SideBySide, RuntimeRequest, NextHeader, files, bounds

\* A chunk that is written without a fault goes to the same place of both files.
LEMMA SideData == ASSUME TypeOK, SideBySide, RuntimeData PROVE SideBySide'
<1> SUFFICES ASSUME nfault' = 0, ncrash' = 0
             PROVE  /\ cache'["runtimenv"].cells = cache'["runtimenvbkup"].cells
                    /\ offset' = bkoffset'
  BY DEF SideBySide
<1>1. ~Fails
  BY FailsCounted
<1>2. PICK n \in 1 .. Chunk :
        /\ ReadData(n) /\ UNCHANGED nfault
        /\ cache' = [cache EXCEPT !["runtimenv"].cells = Stored(@, offset, n),
                                  !["runtimenvbkup"].cells = Stored(@, bkoffset, n)]
        /\ offset' = offset + n /\ bkoffset' = bkoffset + n
  BY <1>1 DEF RuntimeData
<1>3. /\ cache["runtimenv"].cells = cache["runtimenvbkup"].cells
      /\ pc = "payload" /\ head.type = 1 /\ offset = bkoffset
  BY <1>2 DEF SideBySide, RuntimeData, ReadData
<1>4. /\ cache'["runtimenv"].cells = Stored(cache["runtimenv"].cells, offset, n)
      /\ cache'["runtimenvbkup"].cells = Stored(cache["runtimenvbkup"].cells, bkoffset, n)
  BY <1>2 DEF TypeOK, FilesOK, File, Content
<1> QED BY <1>2, <1>3, <1>4

\* SideBySide is inductive.
LEMMA SideNext == TypeOK /\ SideBySide /\ [Next]_vars => SideBySide'
<1>1. TypeOK /\ Crash => SideBySide'
  BY DEF Crash, SideBySide, TypeOK, BoundsOK
<1> QED BY <1>1, SideElsewhere, SideFrame, SideRequest, SideData DEF Next, Daemon

\* Without power failures and failed writes, the two runtimenv files have the same
\* content between requests, however the payload was cut into reads and wherever a
\* reset of the modem cut it off.
THEOREM CopiesAgree == Spec => []RuntimeCopiesAgree
<1>1. SideBySide => RuntimeCopiesAgree
  BY DEF SideBySide, RuntimeCopiesAgree
<1>2. Init => TypeOK /\ SideBySide
  BY InitType DEF Init, SideBySide, File
<1>3. TypeOK /\ SideBySide /\ [Next]_vars => (TypeOK /\ SideBySide)'
  BY NextType, SideNext
<1> QED BY <1>1, <1>2, <1>3, PTL DEF Spec

-----------------------------------------------------------------------------
(* One copy of productinfo survives.                                       *)

\* What ProductInv says of a state without faults, up to the first power failure.
ProductBody ==
  /\ \/ Holds(disk["productinfo"], phist, packed)
     \/ Holds(disk["productinfobkup"], phist, packed)
  /\ ncrash = 0 => Holds(disk["productinfobkup"], phist, packed)
  /\ pc \in {"psync", "pcopy", "psync2"} => NewestProduct(prodbuf)
  /\ pc \in {"pcopy", "psync2"} => NewestProduct(disk["productinfo"])
  /\ pc = "psync" => cache["productinfo"] = prodbuf
  /\ pc = "psync2" => cache["productinfobkup"] = prodbuf

\* ProductInv names its body.
LEMMA ProductParts == ProductInv <=> (nfault = 0 /\ ncrash <= 1 => ProductBody)
  BY DEF ProductInv, ProductBody

\* The newest image counts as recent whatever has been stored in both files.
LEMMA HoldsNewestProduct ==
  ASSUME TypeOK, NEW c, NewestProduct(c)
  PROVE  Holds(c, phist, packed) /\ Holds(c, phist, Len(phist))
<1>1. Len(phist) \in packed .. Len(phist) /\ Len(phist) \in Len(phist) .. Len(phist)
  BY DEF TypeOK, FilesOK
<1> QED BY <1>1 DEF NewestProduct, Holds

\* Steps that leave the two productinfo files and their buffer alone.
ProductAside ==
  /\ UNCHANGED <<phist, packed, ncrash>> /\ (UNCHANGED nfault \/ Fails)
  /\ disk'["productinfo"] = disk["productinfo"]
  /\ disk'["productinfobkup"] = disk["productinfobkup"]
  /\ \/ pc' \notin {"psync", "pcopy", "psync2"}
     \/ pc' = pc /\ UNCHANGED <<prodbuf, cache>>

\* Such steps keep ProductInv.
LEMMA ProductFrame == ASSUME TypeOK, ProductInv, ProductAside PROVE ProductInv'
<1> SUFFICES ASSUME nfault' = 0, ncrash' <= 1 PROVE ProductBody'
  BY DEF ProductInv, ProductBody
<1>1. nfault = 0 /\ ncrash <= 1
  BY FailsCounted DEF ProductAside
<1>2. ProductBody
  BY <1>1, ProductParts
<1> QED BY <1>2 DEF ProductBody, ProductAside, Holds, NewestProduct

\* Every action that writes neither productinfo file.
LEMMA ProductElsewhere ==
  ASSUME TypeOK, Synced,
         \/ Modem \/ OpenPipe \/ HeaderEof \/ PayloadEof \/ RestartDone \/ ReadGarbageHeader
         \/ SyncCommand \/ UnknownType \/ OpenFails \/ FixnvRequest \/ RuntimeRequest
         \/ ProductRequest \/ FixnvData \/ RuntimeData \/ ProductData \/ update_fixnvfile
         \/ FsyncFixnv \/ update_backupfile \/ FsyncBackup \/ SyncAndAnswer
         \/ FsyncRuntime \/ FsyncRuntimeCopy \/ UNCHANGED vars
  PROVE  ProductAside
<1>w. \A f, c : Write(f, c) => UNCHANGED nfault \/ Fails
  BY DEF Write
<1>f. ASSUME NEW f \in File \ {"productinfo", "productinfobkup"}, Fsync(f)
      PROVE  /\ disk'["productinfo"] = disk["productinfo"] /\ UNCHANGED cache
             /\ disk'["productinfobkup"] = disk["productinfobkup"]
  BY <1>f, FsyncOther DEF File
<1> USE DEF ProductAside, link, daemon, buffer, files, bounds, images, marks
<1>1. CASE ModemReset
  BY <1>1 DEF ModemReset
<1>2. ASSUME NEW h \in Requests, ModemSend(h) PROVE ProductAside
  BY <1>2 DEF ModemSend
<1>3. CASE OpenPipe
  BY <1>3 DEF OpenPipe
<1>4. CASE HeaderEof
  BY <1>4 DEF HeaderEof, check_reboot
<1>5. CASE PayloadEof
  BY <1>5 DEF PayloadEof, check_reboot
<1>6. CASE RestartDone
  BY <1>6 DEF RestartDone
<1>7. CASE ReadGarbageHeader
  BY <1>7 DEF ReadGarbageHeader
<1>8. CASE SyncCommand
  BY <1>8 DEF SyncCommand, NextHeader
<1>9. CASE UnknownType
  BY <1>9 DEF UnknownType, NextHeader
<1>10. CASE OpenFails
  BY <1>10 DEF OpenFails, NextHeader
<1>11. CASE FixnvRequest
  BY <1>11 DEF FixnvRequest, NextHeader
<1>12. CASE RuntimeRequest
  BY <1>12 DEF RuntimeRequest, NextHeader
<1>13. CASE ProductRequest
  BY <1>13 DEF ProductRequest, NextHeader
<1>14. CASE FixnvData
  BY <1>14 DEF FixnvData, ReadData
<1>15. CASE RuntimeData
  BY <1>15 DEF RuntimeData, ReadData
<1>16. CASE ProductData
  BY <1>16 DEF ProductData, ReadData
<1>17. CASE update_fixnvfile
  BY <1>17, <1>w DEF update_fixnvfile, Storing, Finish
<1>18. CASE FsyncFixnv
  BY <1>18, <1>f DEF FsyncFixnv, Storing, Finish, File
<1>19. CASE update_backupfile
  BY <1>19, <1>w DEF update_backupfile, Storing
<1>20. CASE FsyncBackup
  BY <1>20, <1>f DEF FsyncBackup, Storing, File
<1>21. CASE SyncAndAnswer
  BY <1>21 DEF SyncAndAnswer, Storing, Finish, Synced
<1>22. CASE FsyncRuntime
  BY <1>22, <1>f DEF FsyncRuntime, Storing, File
<1>23. CASE FsyncRuntimeCopy
  BY <1>23, <1>f DEF FsyncRuntimeCopy, Storing, Finish, File
<1>24. CASE UNCHANGED vars
  BY <1>24 DEF vars
<1> QED BY <1>1, <1>2, <1>3, <1>4, <1>5, <1>6, <1>7, <1>8, <1>9, <1>10, <1>11, <1>12, <1>13,
           <1>14, <1>15, <1>16, <1>17, <1>18, <1>19, <1>20, <1>21, <1>22, <1>23, <1>24
           DEF Modem

\* The first file is written: the flash still has what it had.
LEMMA ProductWrite == ASSUME TypeOK, ProductInv, update_productinfofile PROVE ProductInv'
<1> SUFFICES ASSUME nfault' = 0, ncrash' <= 1 PROVE ProductBody'
  BY DEF ProductInv, ProductBody
<1>1. ~Fails
  BY FailsCounted
<1>2. /\ prodbuf' = Sealed(prodbuf) /\ phist' = Append(phist, prodbuf.cells) /\ pc' = "psync"
      /\ UNCHANGED <<nfault, ncrash, disk, packed>>
      /\ cache' = [cache EXCEPT !["productinfo"] = prodbuf']
  BY <1>1 DEF update_productinfofile, Write, Storing
<1>3. /\ prodbuf.cells \in Image /\ phist \in Seq(Image) /\ packed \in Nat \ {0}
      /\ Valid(Sealed(prodbuf)) /\ Sealed(prodbuf).cells = prodbuf.cells
  BY SealedType DEF TypeOK, FilesOK, DaemonOK, Content
<1>4. cache'["productinfo"] = prodbuf'
  BY <1>2 DEF TypeOK, FilesOK, File
<1>5. NewestProduct(prodbuf)'
  BY <1>2, <1>3 DEF NewestProduct, Valid
<1>6. \A c : Holds(c, phist, packed) => Holds(c, phist', packed')
  BY <1>2, <1>3, HoldsAppend
<1>7. ProductBody
  BY <1>2, ProductParts
<1>8. /\ \/ Holds(disk["productinfo"], phist, packed)'
         \/ Holds(disk["productinfobkup"], phist, packed)'
      /\ ncrash' = 0 => Holds(disk["productinfobkup"], phist, packed)'
  BY <1>2, <1>6, <1>7 DEF ProductBody
<1> QED BY <1>2, <1>4, <1>5, <1>8 DEF ProductBody

\* fsync of the first file: it holds the newest image.
LEMMA ProductFsync == ASSUME TypeOK, ProductInv, FsyncProduct PROVE ProductInv'
<1> SUFFICES ASSUME nfault' = 0, ncrash' <= 1 PROVE ProductBody'
  BY DEF ProductInv, ProductBody
<1>1. pc = "psync" /\ pc' = "pcopy" /\ UNCHANGED <<prodbuf, phist, packed, ncrash, nfault>>
  BY DEF FsyncProduct, Storing, images
<1>2. /\ disk'["productinfo"] = cache["productinfo"]
      /\ disk'["productinfobkup"] = disk["productinfobkup"]
  BY FsyncOther DEF FsyncProduct, File
<1>3. ProductBody
  BY <1>1, ProductParts
<1>4. NewestProduct(prodbuf) /\ cache["productinfo"] = prodbuf
  BY <1>1, <1>3 DEF ProductBody
<1>5. NewestProduct(prodbuf)' /\ NewestProduct(disk["productinfo"])'
  BY <1>1, <1>2, <1>4 DEF NewestProduct
<1>6. Holds(disk["productinfo"], phist, packed)'
  BY <1>1, <1>2, <1>4, HoldsNewestProduct
<1> QED BY <1>1, <1>2, <1>3, <1>5, <1>6 DEF ProductBody

\* The copy is written from the buffer that the first file already holds.
LEMMA ProductCopy == ASSUME TypeOK, ProductInv, WriteProductCopy PROVE ProductInv'
<1> SUFFICES ASSUME nfault' = 0, ncrash' <= 1 PROVE ProductBody'
  BY DEF ProductInv, ProductBody
<1>1. ~Fails
  BY FailsCounted
<1>2. /\ pc = "pcopy" /\ pc' = "psync2"
      /\ UNCHANGED <<prodbuf, phist, packed, ncrash, nfault, disk>>
      /\ cache' = [cache EXCEPT !["productinfobkup"] = prodbuf]
  BY <1>1 DEF WriteProductCopy, Write, Storing, images
<1>3. cache'["productinfobkup"] = prodbuf
  BY <1>2 DEF TypeOK, FilesOK, File
<1>4. ProductBody
  BY <1>2, ProductParts
<1> QED BY <1>2, <1>3, <1>4 DEF ProductBody, Holds, NewestProduct

\* fsync of the copy: both files hold the newest image.
LEMMA ProductFsyncCopy == ASSUME TypeOK, ProductInv, FsyncProductCopy PROVE ProductInv'
<1> SUFFICES ASSUME nfault' = 0, ncrash' <= 1 PROVE ProductBody'
  BY DEF ProductInv, ProductBody
<1>1. /\ pc = "psync2" /\ pc' = "header" /\ packed' = Len(phist)
      /\ UNCHANGED <<prodbuf, phist, ncrash, nfault>>
  BY DEF FsyncProductCopy, Storing, Finish
<1>2. disk'["productinfobkup"] = cache["productinfobkup"]
  BY FsyncOther DEF FsyncProductCopy, File
<1>3. ProductBody
  BY <1>1, ProductParts
<1>4. NewestProduct(prodbuf) /\ cache["productinfobkup"] = prodbuf
  BY <1>1, <1>3 DEF ProductBody
<1>5. Holds(disk["productinfobkup"], phist, packed)'
  BY <1>1, <1>2, <1>4, HoldsNewestProduct
<1> QED BY <1>1, <1>5 DEF ProductBody

\* The first power failure tears at most the file that was being written.
LEMMA ProductCrash == ASSUME TypeOK, Synced, ProductInv, Crash PROVE ProductInv'
<1> SUFFICES ASSUME nfault' = 0, ncrash' <= 1 PROVE ProductBody'
  BY DEF ProductInv, ProductBody
<1>1. pc' = "open" /\ ncrash' = ncrash + 1 /\ UNCHANGED <<phist, packed, nfault>>
  BY DEF Crash, images
<1>2. ncrash = 0 /\ ncrash' = 1
  BY <1>1 DEF TypeOK, BoundsOK
<1>3. ProductBody
  BY <1>1, <1>2, ProductParts
<1>4. Holds(disk["productinfo"], phist, packed)' \/ Holds(disk["productinfobkup"], phist, packed)'
  <2>1. CASE pc = "psync2"
    <3>1. disk'["productinfo"] = disk["productinfo"] /\ NewestProduct(disk["productinfo"])
      BY <1>3, <2>1, CrashOther DEF Synced, ProductBody, File
    <3> QED BY <1>1, <3>1, HoldsNewestProduct
  <2>2. CASE pc # "psync2"
    <3>1. disk'["productinfobkup"] = disk["productinfobkup"]
      BY <2>2, CrashOther DEF Synced, File
    <3> QED BY <1>1, <1>2, <1>3, <3>1 DEF ProductBody
  <2> QED BY <2>1, <2>2
<1> QED BY <1>1, <1>2, <1>4 DEF ProductBody

\* ProductInv is inductive.
LEMMA ProductNext == TypeOK /\ Synced /\ ProductInv /\ [Next]_vars => ProductInv'
  BY ProductElsewhere, ProductFrame, ProductWrite, ProductFsync, ProductCopy,
     ProductFsyncCopy, ProductCrash DEF Next, Daemon

\* The provisioned productinfo files are whole.
LEMMA ProductInit == Init => ProductInv
<1> SUFFICES ASSUME Init PROVE ProductBody
  BY DEF ProductInv, ProductBody
<1>1. Holds(Blank, phist, packed)
  BY DEF Init, Holds, Valid, calc_checksum, Blank
<1> QED BY <1>1 DEF Init, ProductBody, File

\* When the power fails, anywhere in update_productinfofile too, one of the two
\* productinfo files is a whole image at least as new as the one last stored in
\* both, with the exceptions ProductRecoverable names.
THEOREM ProductSurvives == Spec => []ProductRecoverable
<1>1. TypeOK /\ ProductInv => ProductRecoverable
  <2> SUFFICES ASSUME TypeOK, ProductInv, nfault = 0, ncrash <= 1 PROVE ProductRecoverable
    BY DEF ProductRecoverable, TypeOK, BoundsOK
  <2>1. ProductBody
    BY ProductParts
  <2> QED BY <2>1 DEF ProductBody, ProductRecoverable
<1>2. Init => TypeOK /\ Synced /\ ProductInv
  BY InitType, SyncedInit, ProductInit
<1>3. TypeOK /\ Synced /\ ProductInv /\ [Next]_vars => (TypeOK /\ Synced /\ ProductInv)'
  BY NextType, SyncedNext, ProductNext
<1> QED BY <1>1, <1>2, <1>3, PTL DEF Spec

-----------------------------------------------------------------------------
(* The pipe is read in step.                                               *)

\* After n items of the payload are read, the rest of it is at the front.
LEMMA FramedDrop ==
  ASSUME NEW p \in Seq(Item), NEW k \in Nat, NEW n \in 1 .. k, Framed(p, k)
  PROVE  /\ \A i \in 1 .. n : p[i].kind = "data"
         /\ Framed(SubSeq(p, n + 1, Len(p)), k - n)
<1> DEFINE q == SubSeq(p, n + 1, Len(p))
<1>1. k <= Len(p) /\ \A j \in 1 .. k : p[j].kind = "data"
  BY DEF Framed
<1>2. q \in Seq(Item) /\ Len(q) = Len(p) - n /\ \A i \in 1 .. Len(q) : q[i] = p[i + n]
  BY <1>1
<1> HIDE DEF q
<1>3. k - n <= Len(q) /\ \A j \in 1 .. k - n : q[j].kind = "data"
  BY <1>1, <1>2
<1>4. k - n < Len(q) => q[(k - n) + 1].kind = "head"
  BY <1>1, <1>2 DEF Framed
<1>5. ASSUME NEW j \in (k - n) + 1 .. Len(q), q[j].kind = "head"
      PROVE  /\ q[j].hdr \in Requests /\ j + q[j].hdr.size <= Len(q)
             /\ \A m \in j + 1 .. j + q[j].hdr.size : q[m].kind = "data"
             /\ j + q[j].hdr.size < Len(q) => q[(j + q[j].hdr.size) + 1].kind = "head"
  <2>1. j + n \in k + 1 .. Len(p) /\ q[j] = p[j + n]
    BY <1>1, <1>2
  <2>2. q[j].hdr.size \in Nat
    <3>1. j + n \in 1 .. Len(p)
      BY <2>1
    <3>2. q[j] \in Item
      BY <2>1, <3>1
    <3> QED BY <3>2 DEF Item, Header
  <2> DEFINE z == q[j].hdr.size
  <2>3. /\ q[j].hdr \in Requests /\ (j + n) + z <= Len(p)
        /\ \A m \in (j + n) + 1 .. (j + n) + z : p[m].kind = "data"
        /\ (j + n) + z < Len(p) => p[((j + n) + z) + 1].kind = "head"
    BY <1>5, <2>1 DEF Framed
  <2>z. z \in Nat
    BY <2>2
  <2> HIDE DEF z
  <2>4. ASSUME NEW m \in j + 1 .. j + z PROVE q[m].kind = "data"
    <3>1. m \in 1 .. Len(q) /\ m + n \in (j + n) + 1 .. (j + n) + z
      BY <1>2, <2>z, <2>3
    <3> QED BY <1>2, <2>3, <3>1
  <2>5. ASSUME j + z < Len(q) PROVE q[(j + z) + 1].kind = "head"
    <3>1. (j + z) + 1 \in 1 .. Len(q) /\ ((j + z) + 1) + n = ((j + n) + z) + 1
      BY <1>2, <2>z, <2>5
    <3>2. (j + n) + z < Len(p)
      BY <1>2, <2>z, <2>5
    <3>3. \A i \in 1 .. Len(q) : q[i] = p[i + n]
      BY <1>2
    <3>4. q[(j + z) + 1] = p[((j + z) + 1) + n]
      BY <3>1, <3>3
    <3> QED BY <2>3, <3>1, <3>2, <3>4
  <2>6. j + z <= Len(q)
    BY <1>2, <2>z, <2>3
  <2> QED BY <2>3, <2>4, <2>5, <2>6 DEF z
<1>6. Framed(q, k - n)
  BY <1>3, <1>4, <1>5 DEF Framed
<1> QED BY <1>1, <1>6 DEF q

\* Between requests the first item is the header of a request, and its payload
\* follows.
LEMMA FramedHead ==
  ASSUME NEW p \in Seq(Item), p # <<>>, Framed(p, 0)
  PROVE  /\ Head(p).kind = "head" /\ Head(p).hdr \in Requests
         /\ Framed(Tail(p), Head(p).hdr.size)
<1> DEFINE q == Tail(p)
<1>1. Len(p) \in Nat \ {0} /\ Head(p) = p[1] /\ p[1] \in Item
  OBVIOUS
<1>2. Len(q) = Len(p) - 1 /\ \A i \in 1 .. Len(q) : q[i] = p[i + 1]
  BY <1>1
<1> HIDE DEF q
<1>3. p[1].kind = "head"
  BY <1>1 DEF Framed
<1>4. PICK z \in Nat : z = p[1].hdr.size
  BY <1>1 DEF Item, Header
<1>5. /\ p[1].hdr \in Requests /\ 1 + z <= Len(p)
      /\ \A m \in 1 + 1 .. 1 + z : p[m].kind = "data"
      /\ 1 + z < Len(p) => p[(1 + z) + 1].kind = "head"
  BY <1>1, <1>3, <1>4 DEF Framed
<1>6. ASSUME NEW j \in z + 1 .. Len(q), q[j].kind = "head"
      PROVE  /\ q[j].hdr \in Requests /\ j + q[j].hdr.size <= Len(q)
             /\ \A m \in j + 1 .. j + q[j].hdr.size : q[m].kind = "data"
             /\ j + q[j].hdr.size < Len(q) => q[(j + q[j].hdr.size) + 1].kind = "head"
  <2>1. j \in 1 .. Len(q) /\ j + 1 \in 0 + 1 .. Len(p) /\ q[j] = p[j + 1] /\ q[j] \in Item
    BY <1>1, <1>2
  <2>2. PICK y \in Nat : y = q[j].hdr.size
    BY <2>1 DEF Item, Header
  <2>3. /\ q[j].hdr \in Requests /\ (j + 1) + y <= Len(p)
        /\ \A m \in (j + 1) + 1 .. (j + 1) + y : p[m].kind = "data"
        /\ (j + 1) + y < Len(p) => p[((j + 1) + y) + 1].kind = "head"
    BY <1>6, <2>1, <2>2 DEF Framed
  <2>4. ASSUME NEW m \in j + 1 .. j + y PROVE q[m].kind = "data"
    <3>1. m \in 1 .. Len(q) /\ m + 1 \in (j + 1) + 1 .. (j + 1) + y
      BY <1>1, <1>2, <2>3
    <3> QED BY <1>2, <2>3, <3>1
  <2>5. ASSUME j + y < Len(q) PROVE q[(j + y) + 1].kind = "head"
    <3>1. (j + y) + 1 \in 1 .. Len(q) /\ ((j + y) + 1) + 1 = ((j + 1) + y) + 1
      BY <1>1, <1>2, <2>5
    <3> QED BY <1>1, <1>2, <2>3, <2>5, <3>1
  <2>6. j + y <= Len(q)
    BY <1>1, <1>2, <2>3
  <2> QED BY <2>2, <2>3, <2>4, <2>5, <2>6
<1>7. /\ z <= Len(q) /\ (\A j \in 1 .. z : q[j].kind = "data")
      /\ z < Len(q) => q[z + 1].kind = "head"
  <2>1. z <= Len(q)
    BY <1>1, <1>2, <1>5
  <2>2. ASSUME NEW j \in 1 .. z PROVE q[j].kind = "data"
    <3>1. j \in 1 .. Len(q) /\ j + 1 \in 1 + 1 .. 1 + z
      BY <1>1, <1>2, <2>1
    <3> QED BY <1>2, <1>5, <3>1
  <2>3. ASSUME z < Len(q) PROVE q[z + 1].kind = "head"
    <3>1. z + 1 \in 1 .. Len(q) /\ 1 + z < Len(p) /\ (z + 1) + 1 = (1 + z) + 1
      BY <1>1, <1>2, <2>3
    <3>2. q[z + 1] = p[(1 + z) + 1]
      BY <1>2, <3>1
    <3> QED BY <1>5, <3>1, <3>2
  <2> QED BY <2>1, <2>2, <2>3
<1>8. Framed(q, z)
  BY <1>6, <1>7 DEF Framed
<1> QED BY <1>1, <1>3, <1>4, <1>5, <1>8 DEF q

\* The modem appends a whole request.
LEMMA FramedSend ==
  ASSUME NEW p \in Seq(Item), NEW k \in Nat, NEW h \in Requests, NEW v \in 0 .. MaxReq,
         Framed(p, k)
  PROVE  Framed(p \o <<Heading(h, v)>> \o [i \in 1 .. h.size |-> Payload(v)], k)
<1> DEFINE s == p \o <<Heading(h, v)>> \o [i \in 1 .. h.size |-> Payload(v)]
           L == Len(p)
<1>1. h \in Header /\ h.size \in Nat /\ L \in Nat
  BY DEF Requests, Header
<1>2. PICK z \in Nat : z = h.size
  BY <1>1
<1>3. Heading(h, v) \in Item /\ Payload(v) \in Item
  BY <1>1, BlankType DEF Heading, Payload, Item
<1>4. [i \in 1 .. h.size |-> Payload(v)] \in Seq(Item) /\ <<Heading(h, v)>> \in Seq(Item)
  BY <1>1, <1>3
<1>5. /\ s \in Seq(Item) /\ Len(s) = (L + 1) + z
      /\ \A i \in 1 .. L : s[i] = p[i]
      /\ s[L + 1] = Heading(h, v)
      /\ \A i \in L + 2 .. Len(s) : s[i] = Payload(v)
  <2> DEFINE a == p \o <<Heading(h, v)>>
             d == [i \in 1 .. h.size |-> Payload(v)]
  <2>1. /\ a \in Seq(Item) /\ Len(a) = L + 1 /\ a[L + 1] = Heading(h, v)
        /\ \A i \in 1 .. L : a[i] = p[i]
    BY <1>3
  <2>2. d \in Seq(Item) /\ Len(d) = z /\ \A i \in 1 .. z : d[i] = Payload(v)
    BY <1>1, <1>2, <1>3
  <2>3. s = a \o d
    OBVIOUS
  <2> HIDE DEF a, d, s
  <2>4. s \in Seq(Item) /\ Len(s) = (L + 1) + z
    <3>1. a \o d \in Seq(Item) /\ Len(a \o d) = Len(a) + Len(d)
      BY <2>1, <2>2, ConcatType
    <3> QED BY <2>1, <2>2, <2>3, <3>1
  <2>5. \A i \in 1 .. L + 1 : s[i] = a[i]
    BY <1>1, <2>1, <2>2, <2>3
  <2>6. ASSUME NEW i \in L + 2 .. Len(s) PROVE s[i] = Payload(v)
    <3>1. i - Len(a) \in 1 .. z /\ i \in Nat /\ i > Len(a) /\ i <= Len(a) + Len(d)
      BY <1>1, <2>1, <2>2, <2>4
    <3>2. s[i] = d[i - Len(a)]
      BY <2>1, <2>2, <2>3, <3>1
    <3> QED BY <2>2, <3>1, <3>2
  <2> QED BY <1>1, <2>1, <2>4, <2>5, <2>6
<1>6. Heading(h, v).kind = "head" /\ Heading(h, v).hdr = h /\ Payload(v).kind = "data"
  BY DEF Heading, Payload
<1> HIDE DEF s
<1>7. k <= L /\ k <= Len(s) /\ (\A j \in 1 .. k : s[j].kind = "data")
      /\ (k < Len(s) => s[k + 1].kind = "head")
  <2>1. k <= L /\ (\A j \in 1 .. k : p[j].kind = "data") /\ (k < L => p[k + 1].kind = "head")
    BY DEF Framed
  <2>2. CASE k < L
    BY <1>1, <1>5, <2>1, <2>2
  <2>3. CASE k = L
    BY <1>1, <1>5, <1>6, <2>1, <2>3
  <2> QED BY <1>1, <2>1, <2>2, <2>3
<1>8. ASSUME NEW j \in k + 1 .. Len(s), s[j].kind = "head"
      PROVE  /\ s[j].hdr \in Requests /\ j + s[j].hdr.size <= Len(s)
             /\ \A m \in j + 1 .. j + s[j].hdr.size : s[m].kind = "data"
             /\ j + s[j].hdr.size < Len(s) => s[(j + s[j].hdr.size) + 1].kind = "head"
  <2>1. CASE j <= L
    <3>1. j \in k + 1 .. L /\ s[j] = p[j] /\ s[j] \in Item
      BY <1>1, <1>5, <2>1
    <3>2. PICK y \in Nat : y = s[j].hdr.size
      BY <3>1 DEF Item, Header
    <3>3. /\ s[j].hdr \in Requests /\ j + y <= L
          /\ \A m \in j + 1 .. j + y : p[m].kind = "data"
          /\ j + y < L => p[(j + y) + 1].kind = "head"
      BY <1>8, <3>1, <3>2 DEF Framed
    <3>4. ASSUME NEW m \in j + 1 .. j + y PROVE s[m].kind = "data"
      <4>1. m \in Int /\ j + 1 <= m /\ m <= j + y /\ j \in Nat /\ j + y <= L
        BY <1>1, <3>1, <3>3
      <4>2. m \in 1 .. L
        BY <1>1, <4>1
      <4> QED BY <1>5, <3>3, <4>2
    <3>5. s[(j + y) + 1].kind = "head"
      <4>1. CASE j + y < L
        <5>1. (j + y) + 1 \in 1 .. L
          BY <1>1, <3>1, <4>1
        <5> QED BY <1>5, <3>3, <4>1, <5>1
      <4>2. CASE j + y = L
        BY <1>5, <1>6, <4>2
      <4> QED BY <1>1, <3>1, <3>3, <4>1, <4>2
    <3>6. j + y <= Len(s)
      BY <1>1, <1>5, <3>3
    <3> QED BY <3>2, <3>3, <3>4, <3>5, <3>6
  <2>2. CASE j = L + 1
    <3>1. s[j].hdr = h /\ j + z = Len(s)
      BY <1>1, <1>5, <1>6, <2>2
    <3>2. \A m \in j + 1 .. j + z : s[m].kind = "data"
      BY <1>1, <1>5, <1>6, <2>2, <3>1
    <3> QED BY <1>1, <1>2, <1>5, <3>1, <3>2
  <2>3. CASE j > L + 1
    BY <1>1, <1>5, <1>6, <1>8, <2>3
  <2> QED BY <1>1, <1>5, <2>1, <2>2, <2>3
<1>9. Framed(s, k)
  BY <1>7, <1>8 DEF Framed
<1> QED BY <1>9 DEF s

\* What is missing of the payload of the request that is carried out.
Missing == IF pc = "payload" THEN total ELSE 0

\* The pipe where FrameInv says something: framed, or behind an undrained header.
Parsed ==
  \/ Framed(pipe, Missing)
  \/ pc = "header" /\ Undrained /\ Framed(pipe, head.size)

\* Steps that do not use the pipe, and do not skip any payload.
PipeAside ==
  /\ UNCHANGED <<pipe, eof, misread>> /\ (UNCHANGED nfault \/ Fails)
  /\ Missing' = Missing
  /\ pc # "header" \/ UNCHANGED <<pc, head>>

\* FrameInv with its parts named.
LEMMA FrameParts ==
  FrameInv <=> (nfault = 0 /\ ~misread => (eof => pipe = <<>>) /\ (~eof => Parsed))
  BY DEF FrameInv, Parsed, Missing

\* Such steps keep the pipe framed.
LEMMA FrameFrame == ASSUME TypeOK, FrameInv, PipeAside PROVE FrameInv'
<1> SUFFICES ASSUME nfault' = 0, ~misread'
             PROVE  (eof' => pipe' = <<>>) /\ (~eof' => Parsed')
  BY DEF FrameInv, Parsed, Missing
<1>1. nfault = 0
  BY FailsCounted DEF PipeAside
<1>2. ~misread /\ (eof => pipe = <<>>) /\ (~eof => Parsed)
  BY <1>1, FrameParts DEF PipeAside
<1>3. CASE pc # "header"
  BY <1>2, <1>3 DEF PipeAside, Parsed
<1>4. CASE UNCHANGED <<pc, head>>
  BY <1>2, <1>4 DEF PipeAside, Parsed, Undrained
<1> QED BY <1>3, <1>4 DEF PipeAside

\* An empty pipe is framed when no payload is missing.
LEMMA FramedEmpty == Framed(<<>>, 0)
  BY DEF Framed

\* Steps of the daemon off the pipe: a complete payload has nothing missing.
LEMMA FrameStore ==
  ASSUME TypeOK,
         \/ OpenPipe \/ RestartDone \/ update_fixnvfile \/ FsyncFixnv \/ update_backupfile
         \/ FsyncBackup \/ SyncAndAnswer \/ update_productinfofile \/ FsyncProduct
         \/ WriteProductCopy \/ FsyncProductCopy \/ FsyncRuntime \/ FsyncRuntimeCopy
         \/ UNCHANGED vars
  PROVE  PipeAside
<1>w. \A f, c : Write(f, c) => UNCHANGED nfault \/ Fails
  BY DEF Write
<1> USE DEF PipeAside, Missing, link, marks
<1>1. CASE OpenPipe
  BY <1>1 DEF OpenPipe
<1>2. CASE RestartDone
  BY <1>2 DEF RestartDone, bounds
<1>3. CASE update_fixnvfile
  BY <1>3, <1>w DEF update_fixnvfile, Complete, Storing, Finish
<1>4. CASE FsyncFixnv
  BY <1>4 DEF FsyncFixnv, Storing, Finish
<1>5. CASE update_backupfile
  BY <1>5, <1>w DEF update_backupfile, Storing
<1>6. CASE FsyncBackup
  BY <1>6 DEF FsyncBackup, Storing
<1>7. CASE SyncAndAnswer
  BY <1>7 DEF SyncAndAnswer, Storing, Finish
<1>8. CASE update_productinfofile
  BY <1>8, <1>w DEF update_productinfofile, Complete, Storing, Finish
<1>9. CASE FsyncProduct
  BY <1>9 DEF FsyncProduct, Storing
<1>10. CASE WriteProductCopy
  BY <1>10, <1>w DEF WriteProductCopy, Storing, Finish
<1>11. CASE FsyncProductCopy
  BY <1>11 DEF FsyncProductCopy, Storing, Finish
<1>12. CASE FsyncRuntime
  BY <1>12 DEF FsyncRuntime, Complete, Storing
<1>13. CASE FsyncRuntimeCopy
  BY <1>13 DEF FsyncRuntimeCopy, Storing, Finish
<1>14. CASE UNCHANGED vars
  BY <1>14 DEF vars, daemon, bounds
<1> QED BY <1>1, <1>2, <1>3, <1>4, <1>5, <1>6, <1>7, <1>8, <1>9, <1>10, <1>11, <1>12, <1>13,
           <1>14

\* The modem appends whole requests; a reset, or a power failure, empties the pipe;
\* end of file is seen on an empty pipe.
LEMMA FrameLink ==
  ASSUME TypeOK, FrameInv, Modem \/ HeaderEof \/ PayloadEof \/ Crash
  PROVE  FrameInv'
<1> SUFFICES ASSUME nfault' = 0, ~misread'
             PROVE  (eof' => pipe' = <<>>) /\ (~eof' => Parsed')
  BY DEF FrameInv, Parsed, Missing
<1>1. CASE ModemReset
  BY <1>1 DEF ModemReset
<1>2. ASSUME NEW h \in Requests, ModemSend(h) PROVE ~eof' /\ Parsed'
  <2>1. /\ ~eof /\ UNCHANGED <<eof, misread, nfault, pc, total, head>>
        /\ nreq + 1 \in 0 .. MaxReq
    BY <1>2, NvAssumption DEF ModemSend, marks, daemon, TypeOK, BoundsOK
  <2>2. Parsed
    BY <2>1, FrameParts
  <2>3. /\ Missing \in Nat /\ head.size \in Nat /\ pipe \in Seq(Item)
        /\ Missing' = Missing /\ Undrained' = Undrained
    BY <2>1, NvAssumption DEF Missing, Undrained, TypeOK, DaemonOK, Header
  <2>4. \A k \in Nat : Framed(pipe, k) => Framed(pipe', k)
    BY <1>2, <2>1, <2>3, FramedSend DEF ModemSend
  <2> QED BY <2>1, <2>2, <2>3, <2>4 DEF Parsed
<1>3. CASE HeaderEof \/ PayloadEof
  <2>1. /\ eof /\ ~eof' /\ UNCHANGED <<pipe, misread>> /\ pc' # "payload"
        /\ UNCHANGED nfault \/ Fails
    BY <1>3 DEF HeaderEof, PayloadEof, check_reboot, marks
  <2>2. pipe' = <<>>
    BY <2>1, FailsCounted, FrameParts
  <2> QED BY <2>1, <2>2, FramedEmpty DEF Missing, Parsed
<1>4. CASE Crash
  <2>1. pipe' = <<>> /\ ~eof' /\ pc' = "open"
    BY <1>4 DEF Crash
  <2> QED BY <2>1, FramedEmpty DEF Missing, Parsed
<1> QED BY <1>1, <1>2, <1>3, <1>4 DEF Modem

\* The pipe of a daemon that is about to read a header: data is in front only when
\* the payload of an unknown type was left there.
LEMMA FrameFront ==
  ASSUME TypeOK, FrameInv, nfault = 0, ~misread, ~eof, pc = "header", pipe # <<>>
  PROVE  \/ Framed(pipe, 0) /\ Head(pipe).kind = "head"
         \/ Undrained /\ Head(pipe).kind = "data"
<1>1. /\ pipe \in Seq(Item) /\ head.size \in Nat /\ Head(pipe) = pipe[1]
      /\ Framed(pipe, 0) \/ (Undrained /\ Framed(pipe, head.size))
  BY FrameParts DEF Parsed, Missing, TypeOK, DaemonOK, Header
<1>2. CASE Framed(pipe, 0)
  BY <1>1, <1>2, FramedHead
<1>3. CASE Undrained /\ Framed(pipe, head.size)
  <2>1. head.size > 0 /\ \A j \in 1 .. head.size : pipe[j].kind = "data"
    BY <1>3 DEF Undrained, Framed
  <2>2. pipe[1].kind = "data"
    BY <1>1, <2>1
  <2> QED BY <1>1, <1>3, <2>2
<1> QED BY <1>1, <1>2, <1>3

\* A header is read where a header is, and its payload is what is missing then, or
\* what an unknown type leaves behind.
LEMMA FrameRequest ==
  ASSUME TypeOK, FrameInv,
         \/ ReadGarbageHeader \/ SyncCommand \/ UnknownType \/ OpenFails \/ FixnvRequest
         \/ RuntimeRequest \/ ProductRequest
  PROVE  FrameInv'
<1> SUFFICES ASSUME nfault' = 0, ~misread'
             PROVE  (eof' => pipe' = <<>>) /\ (~eof' => Parsed')
  BY DEF FrameInv, Parsed, Missing
<1>1. ~Fails
  BY FailsCounted
<1>2. /\ pc = "header" /\ ~eof /\ pipe # <<>> /\ pipe' = Tail(pipe) /\ UNCHANGED <<eof, nfault>>
      /\ UNCHANGED misread /\ Head(pipe).kind = "head"
  BY <1>1 DEF ReadGarbageHeader, SyncCommand, UnknownType, OpenFails, FixnvRequest,
              RuntimeRequest, ProductRequest, NextHeader, bounds, marks
<1>3. Framed(pipe, 0) /\ pipe \in Seq(Item)
  BY <1>2, FrameFront DEF TypeOK, DaemonOK
<1>4. /\ Head(pipe).hdr \in Requests
      /\ Framed(Tail(pipe), Head(pipe).hdr.size)
  BY <1>2, <1>3, FramedHead
<1>5. ~ReadGarbageHeader /\ ~OpenFails
  BY <1>1, <1>2 DEF ReadGarbageHeader, OpenFails
<1>6. PICK h \in Header : /\ h = Head(pipe).hdr /\ head' = h
                          /\ \/ h.req_type = 1 /\ pc' # "payload"
                             \/ h.req_type = 0 /\ h.type = 3 /\ pc' = "header"
                             \/ pc' = "payload" /\ total' = h.size
  BY <1>2, <1>5 DEF SyncCommand, UnknownType, FixnvRequest, RuntimeRequest, ProductRequest,
                    NextHeader
<1>7. h \in Requests /\ (h.req_type = 1 => h.size = 0) /\ h.size \in Nat
  BY <1>4, <1>6, NvAssumption DEF Requests, Header
<1>8. CASE h.req_type = 0 /\ h.type = 3 /\ pc' = "header" /\ h.size > 0
  BY <1>2, <1>4, <1>6, <1>8 DEF Parsed, Undrained
<1>9. CASE ~(h.req_type = 0 /\ h.type = 3 /\ pc' = "header" /\ h.size > 0)
  <2>1. Missing' = h.size
    BY <1>6, <1>7, <1>9 DEF Missing
  <2> QED BY <1>2, <1>4, <1>6, <2>1 DEF Parsed
<1> QED BY <1>8, <1>9

\* What the payload loop reads is payload.
LEMMA FrameData ==
  ASSUME TypeOK, FrameInv, FixnvData \/ RuntimeData \/ ProductData, nfault' = 0, ~misread
  PROVE  FrameInv' /\ ~misread'
<1>1. ~Fails
  BY FailsCounted
<1>2. PICK n \in 1 .. Chunk : ReadData(n) /\ total' = total - n /\ UNCHANGED nfault
  BY <1>1 DEF FixnvData, RuntimeData, ProductData
<1>3. /\ pc = "payload" /\ ~eof /\ UNCHANGED <<pc, eof>> /\ pipe' = SubSeq(pipe, n + 1, Len(pipe))
      /\ misread' = (misread \/ \E i \in 1 .. n : pipe[i].kind = "head")
      /\ n <= total
  BY <1>2 DEF ReadData
<1>4. Framed(pipe, total)
  BY <1>2, <1>3, FrameParts DEF Missing, Parsed
<1>5. pipe \in Seq(Item) /\ total \in Nat /\ n \in 1 .. total
  BY <1>3, NvAssumption DEF TypeOK, DaemonOK
<1>6. (\A i \in 1 .. n : pipe[i].kind = "data") /\ Framed(SubSeq(pipe, n + 1, Len(pipe)), total - n)
  BY <1>4, <1>5, FramedDrop
<1>7. ~misread'
  BY <1>3, <1>6
<1>8. Missing' = total - n
  BY <1>2, <1>3 DEF Missing
<1>9. FrameInv'
  BY <1>3, <1>6, <1>8 DEF FrameInv, Missing
<1> QED BY <1>7, <1>9

\* After a misread or a fault there is nothing left to prove.
LEMMA FrameOver == ASSUME TypeOK, [Next]_vars, nfault' # 0 \/ misread PROVE FrameInv'
<1>1. misread => misread'
  <2>1. CASE Daemon
    <3> USE DEF marks, Storing
    <3>1. ASSUME NEW n \in 1 .. Chunk, ReadData(n) PROVE misread => misread'
      BY <3>1 DEF ReadData
    <3>2. CASE FixnvData \/ RuntimeData \/ ProductData
      BY <3>1, <3>2 DEF FixnvData, RuntimeData, ProductData
    <3>3. CASE ~(FixnvData \/ RuntimeData \/ ProductData)
      <4>1. CASE \/ OpenPipe \/ HeaderEof \/ PayloadEof \/ RestartDone \/ ReadGarbageHeader
                 \/ SyncCommand \/ UnknownType \/ OpenFails \/ FixnvRequest \/ RuntimeRequest
                 \/ ProductRequest
        BY <4>1 DEF OpenPipe, HeaderEof, PayloadEof, RestartDone, ReadGarbageHeader,
           SyncCommand, UnknownType, OpenFails, FixnvRequest, RuntimeRequest, ProductRequest
      <4>2. CASE ~(\/ OpenPipe \/ HeaderEof \/ PayloadEof \/ RestartDone \/ ReadGarbageHeader
                   \/ SyncCommand \/ UnknownType \/ OpenFails \/ FixnvRequest
                   \/ RuntimeRequest \/ ProductRequest)
        BY <2>1, <3>3, <4>2 DEF Daemon, update_fixnvfile, FsyncFixnv, update_backupfile,
           FsyncBackup, SyncAndAnswer, update_productinfofile, FsyncProduct, WriteProductCopy,
           FsyncProductCopy, FsyncRuntime, FsyncRuntimeCopy
      <4> QED BY <4>1, <4>2
    <3> QED BY <3>2, <3>3
  <2>2. CASE Modem
    BY <2>2 DEF Modem, ModemReset, ModemSend, marks
  <2>3. CASE Crash
    BY <2>3 DEF Crash
  <2>4. CASE UNCHANGED vars
    BY <2>4 DEF vars, marks
  <2> QED BY <2>1, <2>2, <2>3, <2>4 DEF Next
<1> QED BY <1>1 DEF FrameInv

\* FrameInv is inductive.
LEMMA FrameNext == TypeOK /\ FrameInv /\ [Next]_vars => FrameInv'
  BY FrameStore, FrameFrame, FrameLink, FrameRequest, FrameData, FrameOver DEF Next, Daemon

\* A step that loses the framing.
LEMMA FrameLost ==
  ASSUME TypeOK, FrameInv, [Next]_vars, ~misread, misread', ~(nfault' > 0)
  PROVE  pc = "header" /\ Undrained
<1>1. nfault' = 0 /\ TypeOK'
  BY NextType DEF TypeOK, BoundsOK
<1>2. ~PipeAside
  BY DEF PipeAside
<1>3. ~(Modem \/ HeaderEof \/ PayloadEof \/ Crash)
  BY DEF Modem, ModemReset, ModemSend, HeaderEof, PayloadEof, Crash, marks
<1>4. ~(FixnvData \/ RuntimeData \/ ProductData)
  BY <1>1, FrameData
<1>5. ~(\/ SyncCommand \/ UnknownType \/ OpenFails \/ FixnvRequest \/ RuntimeRequest
        \/ ProductRequest)
  BY DEF SyncCommand, UnknownType, OpenFails, FixnvRequest, RuntimeRequest, ProductRequest, marks
<1>6. ReadGarbageHeader
  BY <1>2, <1>3, <1>4, <1>5, FrameStore DEF Next, Daemon
<1>7. /\ pc = "header" /\ ~eof /\ pipe # <<>> /\ Head(pipe).kind = "data" /\ nfault = 0
  BY <1>1, <1>6 DEF ReadGarbageHeader, bounds
<1> QED BY <1>7, FrameFront

\* For every data buffer and every cut of the pipe into reads, through resets, end
\* of file and restarts, the daemon reads headers as headers and payload as payload,
\* until a call fails or the payload of an unknown type is left in the pipe.
THEOREM FramingCorrect == Spec => FramingKept
<1>1. TypeOK /\ FrameInv /\ [Next]_vars
        => [~misread /\ misread' => nfault' > 0 \/ (pc = "header" /\ Undrained)]_vars
  BY FrameLost
<1>2. Init => TypeOK /\ FrameInv
  <2> SUFFICES ASSUME Init PROVE FrameInv
    BY InitType
  <2> QED BY FramedEmpty DEF Init, FrameInv
<1>3. TypeOK /\ FrameInv /\ [Next]_vars => (TypeOK /\ FrameInv)'
  BY NextType, FrameNext
<1> QED BY <1>1, <1>2, <1>3, PTL DEF Spec, FramingKept

=============================================================================
