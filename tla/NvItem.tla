------------------------------- MODULE NvItem -------------------------------
(***************************************************************************)
(* The NV item daemon of src/common/apps/nvm_daemon/nvitem.c (the NAND     *)
(* build: CONFIG_EMMC undefined).  The modem sends requests through        *)
(* /dev/vbpipe1; the daemon stores them in three pairs of files:           *)
(*   fixnv       /fixnv/fixnv.bin, copied to /backupfixnv on "sync";       *)
(*   runtimenv   two files written chunk by chunk, side by side;           *)
(*   productinfo two files written one after the other.                    *)
(*                                                                         *)
(* Abstractions.  A file is NCells cells and a trailer (checksum, index).  *)
(* The value of a cell is the number of the request that wrote it.  The    *)
(* checksum is the content it was computed from, so that a torn file is    *)
(* recognised (no collisions).  The 0x5a marker, the log file and the log  *)
(* index (select_log_file) are left out: nothing reads them back.          *)
(* Each file has a page-cache image and a durable image; fsync makes the   *)
(* second equal to the first, and a power failure leaves any mixture.      *)
(***************************************************************************)
EXTENDS Integers, Sequences, FiniteSets

CONSTANTS
  NCells,     \* cells of an NV file
  Chunk,      \* DATA_BUF_LEN, in cells
  Types,      \* bound: the file types in the modem's requests
  MaxReq,     \* bound: requests the modem sends
  MaxCrash,   \* bound: power failures
  MaxReset,   \* bound: modem resets (read on the pipe returns 0)
  MaxFault    \* bound: failing open/write calls

ASSUME NvAssumption ==
  /\ NCells \in Nat \ {0} /\ Chunk \in Nat \ {0} /\ Types \subseteq 0 .. 3
  /\ MaxReq \in Nat /\ MaxCrash \in Nat /\ MaxReset \in Nat /\ MaxFault \in Nat

VARIABLES
  pc,         \* where the daemon's main() is
  pipe,       \* vbpipe1, modem to daemon: headers and data cells in order
  eof,        \* vbpipe has received a sysconf: the next read will return 0
  guest,      \* is the modem guest OS started?
  monitor,    \* last signal sent to sprd_monitor
  wakelock,   \* "NvItemdLock"
  head,       \* req_header
  offset,     \* fixnv_buffer_offset, phasecheck_buffer_offset, or fd's file offset
  bkoffset,   \* file offset of runtime_nvitem_bkfd
  total,      \* cells of the payload still to be read
  fixbuf,     \* fixnv_buffer
  prodbuf,    \* phasecheck_buffer
  indexvalue, \* shared by fixnv and productinfo
  flag,       \* update_finxn_flag
  cache,      \* content of each file as read() returns it
  disk        \* content of each file that survives a power failure

VARIABLES
  nreq, ncrash, nreset, \* requests, power failures, modem resets so far
  nfault,     \* open() and write() calls that have failed so far
  hist,       \* fixnv images the daemon has assembled, in order
  phist,      \* productinfo images the daemon has assembled, in order
  acked,      \* position in hist of the image of the last sync that wrote the backup
  packed,     \* position in phist of the last image stored in both files
  touched,    \* payload has entered fixnv_buffer since it last was a whole image
  dirty,      \* a sync has saved a touched fixnv_buffer
  misread,    \* a header was read as data, or data as a header
  waiting     \* sync commands the modem has no answer to

link   == <<pipe, eof, guest, monitor>>
buffer == <<fixbuf, prodbuf, indexvalue>>
daemon == <<head, offset, bkoffset, total, buffer, flag>>
files  == <<cache, disk>>
bounds == <<nreq, ncrash, nreset, nfault>>
images == <<hist, phist, acked, packed>>
marks  == <<touched, dirty, misread>>
vars   == <<pc, link, wakelock, daemon, files, bounds, images, marks, waiting>>

Cell  == 0 .. NCells - 1
Image == [Cell -> 0 .. MaxReq]
File  == {"fixnv", "backupfixnv", "runtimenv", "runtimenvbkup",
          "productinfo", "productinfobkup"}
IndexModulus == 100
Content == [cells : Image, sum : Image, index : 0 .. IndexModulus - 1]

\* request_header_t: type 0 fixnv, 1 runtimenv, 2 productinfo; req_type 1 is
\* the sync command.  type 3 stands for every unknown file type.
Header == [req_type : {0, 1}, type : 0 .. 3, offset : Cell, size : 0 .. NCells]

calc_checksum(cells) == cells
Valid(c) == c.sum = calc_checksum(c.cells)

\* The words of a file that reach the flash one by one: the cells, the
\* checksum (word NCells) and the index (word NCells + 1).
Word == 0 .. NCells + 1

\* What is left of a file when, of content b written over a, only the words of
\* "done" have reached it.
Torn(a, b, done) ==
  [cells |-> [x \in Cell |-> IF x \in done THEN b.cells[x] ELSE a.cells[x]],
   sum   |-> IF NCells \in done THEN b.sum ELSE a.sum,
   index |-> IF NCells + 1 \in done THEN b.index ELSE a.index]

-----------------------------------------------------------------------------
\* A file as provisioned; the index is about to wrap.
Blank == [cells |-> [x \in Cell |-> 0], sum |-> [x \in Cell |-> 0], index |-> IndexModulus - 1]

NoHeader == [req_type |-> 0, type |-> 3, offset |-> 0, size |-> 0]

Init ==
  /\ pc = "open" /\ pipe = <<>> /\ eof = FALSE
  /\ guest = "started" /\ monitor = "none" /\ wakelock = FALSE
  /\ head = NoHeader /\ offset = 0 /\ bkoffset = 0 /\ total = 0
  /\ fixbuf = Blank /\ prodbuf = Blank /\ indexvalue = 0 /\ flag = FALSE
  /\ cache = [f \in File |-> Blank] /\ disk = [f \in File |-> Blank]
  /\ nreq = 0 /\ ncrash = 0 /\ nreset = 0 /\ nfault = 0
  /\ hist = <<Blank.cells>> /\ phist = <<Blank.cells>> /\ acked = 1 /\ packed = 1
  /\ touched = FALSE /\ dirty = FALSE /\ misread = FALSE
  /\ waiting = 0

-----------------------------------------------------------------------------
(* The modem and the power supply (external).                              *)

Heading(h, v) == [kind |-> "head", hdr |-> h, ver |-> v]
Payload(v) == [kind |-> "data", hdr |-> NoHeader, ver |-> v]

\* The requests of a modem that keeps to the file sizes: sync, a request of an
\* unknown type with or without payload, or a store of 1..NCells cells.
Requests ==
  { h \in Header :
      \/ h.req_type = 1 /\ h.type = 0 /\ h.offset = 0 /\ h.size = 0
      \/ h.req_type = 0 /\ h.type \in Types \cap {3} /\ h.offset = 0
      \/ h.req_type = 0 /\ h.type \in Types \ {3} /\ h.size > 0 /\ h.offset + h.size <= NCells }

ModemSend(h) ==
  /\ pc # "lost" /\ guest = "started" /\ ~eof /\ nreq < MaxReq
  /\ nreq' = nreq + 1
  /\ pipe' = pipe \o <<Heading(h, nreq + 1)>> \o [i \in 1 .. h.size |-> Payload(nreq + 1)]
  /\ waiting' = waiting + h.req_type
  /\ UNCHANGED <<pc, eof, guest, monitor, wakelock, daemon, files, ncrash, nreset,
                 nfault, images, marks>>

\* The guest stops, or only renegotiates the pipe: what is in the pipe is lost.
ModemReset ==
  /\ pc # "lost" /\ guest = "started" /\ ~eof /\ nreset < MaxReset
  /\ nreset' = nreset + 1
  /\ pipe' = <<>> /\ eof' = TRUE /\ waiting' = 0
  /\ guest' \in {"started", "not_started"}
  /\ UNCHANGED <<pc, monitor, wakelock, daemon, files, nreq, ncrash, nfault, images, marks>>

\* Power failure and boot: the daemon and the modem start afresh.
Crash ==
  /\ pc # "lost" /\ ncrash < MaxCrash
  /\ ncrash' = ncrash + 1
  /\ \E done \in [{f \in File : cache[f] # disk[f]} -> SUBSET Word] :
       disk' = [f \in File |-> IF cache[f] = disk[f] THEN disk[f]
                               ELSE Torn(disk[f], cache[f], done[f])]
  /\ cache' = disk'
  /\ pc' = "open" /\ pipe' = <<>> /\ eof' = FALSE
  /\ guest' = "started" /\ monitor' = "none" /\ wakelock' = FALSE
  /\ head' = NoHeader /\ offset' = 0 /\ bkoffset' = 0 /\ total' = 0
  /\ fixbuf' = Blank /\ prodbuf' = Blank /\ indexvalue' = 0 /\ flag' = FALSE
  /\ touched' = FALSE /\ waiting' = 0
  /\ UNCHANGED <<nreq, nreset, nfault, images, dirty, misread>>

-----------------------------------------------------------------------------
(* Opening the pipe, end of file, check_mocor_reboot.                      *)

\* A system call fails; MaxFault bounds how often.
Fails == nfault < MaxFault /\ nfault' = nfault + 1

\* reopen_vbpipe: open /dev/vbpipe1, or exit(1).
OpenPipe ==
  /\ pc = "open"
  /\ \/ pc' = "header" /\ UNCHANGED nfault
     \/ pc' = "exited" /\ Fails
  /\ UNCHANGED <<link, wakelock, daemon, files, nreq, ncrash, nreset, images, marks,
                 waiting>>

\* Where check_reboot goes: a guest that is not started is loaded, restarted and
\* given 20s.  Its status may be unreadable, or the restart may fail (faults).
check_reboot(resting, done) ==
  \/ /\ guest = "started"
     /\ pc' = done /\ UNCHANGED <<guest, monitor, nfault>>
  \/ /\ guest = "not_started"
     /\ pc' = resting /\ monitor' = "SIGUSR1"
     /\ \/ guest' = "started" /\ UNCHANGED nfault
        \/ Fails /\ UNCHANGED guest
  \/ /\ guest = "not_started" /\ Fails
     /\ pc' = done /\ UNCHANGED <<guest, monitor>>

\* read() returns 0: check_mocor_reboot, then the pipe is reopened.  The wake
\* lock is released only when this happens inside the payload loop.
HeaderEof ==
  /\ pc = "header" /\ eof
  /\ check_reboot("restart", "open")
  /\ eof' = FALSE /\ wakelock' = TRUE
  /\ UNCHANGED <<pipe, daemon, files, nreq, ncrash, nreset, images, marks, waiting>>

\* Mutant of PayloadEof: the pipe is reopened without check_mocor_reboot.
PayloadEof_NoReboot ==
  /\ pc = "payload" /\ total > 0 /\ eof
  /\ pc' = "open"
  /\ eof' = FALSE /\ wakelock' = FALSE
  /\ UNCHANGED <<pipe, guest, monitor, daemon, files, bounds, images, marks, waiting>>

PayloadEof ==
  /\ pc = "payload" /\ total > 0 /\ eof
  /\ check_reboot("restart_payload", "open")
  /\ eof' = FALSE /\ wakelock' = (pc' # "open")
  /\ UNCHANGED <<pipe, daemon, files, nreq, ncrash, nreset, images, marks, waiting>>

\* The end of check_reboot, 20s after the guest was resumed.
RestartDone ==
  /\ pc \in {"restart", "restart_payload"}
  /\ monitor' = "SIGUSR2"
  /\ wakelock' = (pc = "restart")
  /\ pc' = "open"
  /\ UNCHANGED <<pipe, eof, guest, daemon, files, bounds, images, marks, waiting>>

-----------------------------------------------------------------------------
(* Reading a request header.  A read error (r_cnt < 0) releases the lock   *)
(* and retries: it leaves the state as it was.                             *)

\* The next item in the pipe is the header h of a request.
NextHeader(h) ==
  /\ pc = "header" /\ ~eof /\ pipe # <<>>
  /\ Head(pipe).kind = "head" /\ Head(pipe).hdr = h
  /\ pipe' = Tail(pipe) /\ head' = h
  /\ UNCHANGED <<eof, guest, monitor>>

\* Payload is taken for a header: what the daemon does next, its files included,
\* depends on the payload's bytes, and the model stops here.
ReadGarbageHeader ==
  /\ pc = "header" /\ ~eof /\ pipe # <<>> /\ Head(pipe).kind = "data"
  /\ pipe' = Tail(pipe) /\ pc' = "lost" /\ misread' = TRUE /\ wakelock' = TRUE
  /\ UNCHANGED <<eof, guest, monitor, daemon, files, bounds, images, touched, dirty, waiting>>

SyncCommand ==
  \E h \in Header :
    /\ NextHeader(h) /\ h.req_type = 1
    /\ pc' = IF flag THEN "backup" ELSE "sync"
    /\ wakelock' = TRUE
    /\ UNCHANGED <<offset, bkoffset, total, buffer, flag, files, bounds, images,
                   marks, waiting>>

\* An unknown type is skipped without reading its payload, which stays in the pipe.
UnknownType ==
  \E h \in Header :
    /\ NextHeader(h) /\ h.req_type = 0 /\ h.type = 3
    /\ wakelock' = FALSE
    /\ UNCHANGED <<pc, offset, bkoffset, total, buffer, flag, files, bounds, images,
                   marks, waiting>>

\* A file of the request cannot be opened: exit(1).
OpenFails ==
  \E h \in Header :
    /\ NextHeader(h) /\ h.req_type = 0 /\ h.type # 3
    /\ Fails /\ pc' = "exited" /\ wakelock' = FALSE
    /\ UNCHANGED <<offset, bkoffset, total, buffer, flag, files, nreq, ncrash, nreset,
                   images, marks, waiting>>

\* Type 0: fixnv_buffer is loaded from the file, whose checksum is not looked at.
FixnvRequest ==
  \E h \in Header :
    /\ NextHeader(h) /\ h.req_type = 0 /\ h.type = 0
    /\ fixbuf' = cache["fixnv"] /\ indexvalue' = cache["fixnv"].index
    /\ offset' = h.offset /\ total' = h.size /\ pc' = "payload" /\ wakelock' = TRUE
    /\ touched' = FALSE
    /\ UNCHANGED <<bkoffset, prodbuf, flag, files, bounds, images, dirty, misread, waiting>>

\* Mutant of RuntimeRequest: the copy is not positioned (no second lseek).
RuntimeRequest_CopyNotSought ==
  \E h \in Header :
    /\ NextHeader(h) /\ h.req_type = 0 /\ h.type = 1
    /\ offset' = h.offset /\ bkoffset' = 0
    /\ total' = h.size /\ pc' = "payload" /\ wakelock' = TRUE
    /\ UNCHANGED <<buffer, flag, files, bounds, images, marks, waiting>>

\* Type 1: both files are opened and positioned.
RuntimeRequest ==
  \E h \in Header :
    /\ NextHeader(h) /\ h.req_type = 0 /\ h.type = 1
    /\ offset' = h.offset /\ bkoffset' = h.offset
    /\ total' = h.size /\ pc' = "payload" /\ wakelock' = TRUE
    /\ UNCHANGED <<buffer, flag, files, bounds, images, marks, waiting>>

\* Type 2: as type 0, for phasecheck_buffer.
ProductRequest ==
  \E h \in Header :
    /\ NextHeader(h) /\ h.req_type = 0 /\ h.type = 2
    /\ prodbuf' = cache["productinfo"] /\ indexvalue' = cache["productinfo"].index
    /\ offset' = h.offset /\ total' = h.size /\ pc' = "payload" /\ wakelock' = TRUE
    /\ UNCHANGED <<bkoffset, fixbuf, flag, files, bounds, images, touched, dirty,
                   misread, waiting>>

-----------------------------------------------------------------------------
(* The payload loop.                                                       *)

\* Mutant of ReadData: the buffer is filled whatever is missing of the payload.
ReadData_WholeBuffer(n) ==
  /\ pc = "payload" /\ ~eof /\ total > 0
  /\ n \in 1 .. Len(pipe) /\ n <= Chunk
  /\ pipe' = SubSeq(pipe, n + 1, Len(pipe))
  /\ misread' = (misread \/ \E i \in 1 .. n : pipe[i].kind = "head")
  /\ UNCHANGED <<pc, eof, guest, monitor, wakelock, head, indexvalue, flag, disk, nreq,
                 ncrash, nreset, images, dirty, waiting>>

\* read() returns the first n items in the pipe, at most what is missing of
\* the payload and at most the data buffer.
ReadData(n) ==
  /\ pc = "payload" /\ ~eof
  /\ n \in 1 .. Len(pipe) /\ n <= total /\ n <= Chunk
  /\ pipe' = SubSeq(pipe, n + 1, Len(pipe))
  /\ misread' = (misread \/ \E i \in 1 .. n : pipe[i].kind = "head")
  /\ UNCHANGED <<pc, eof, guest, monitor, wakelock, head, indexvalue, flag, disk, nreq,
                 ncrash, nreset, images, dirty, waiting>>

\* An image after the first n items of the pipe are stored from position o on.
Stored(cells, o, n) ==
  [x \in Cell |-> IF x \in o .. o + n - 1 THEN pipe[x - o + 1].ver ELSE cells[x]]

FixnvData ==
  /\ head.type = 0
  /\ \E n \in 1 .. Chunk :
       /\ ReadData(n)
       /\ fixbuf' = [fixbuf EXCEPT !.cells = Stored(@, offset, n)]
       /\ offset' = offset + n /\ total' = total - n
  /\ touched' = TRUE
  /\ UNCHANGED <<bkoffset, prodbuf, cache, nfault>>

ProductData ==
  /\ head.type = 2
  /\ \E n \in 1 .. Chunk :
       /\ ReadData(n)
       /\ prodbuf' = [prodbuf EXCEPT !.cells = Stored(@, offset, n)]
       /\ offset' = offset + n /\ total' = total - n
  /\ UNCHANGED <<bkoffset, fixbuf, cache, nfault, touched>>

\* The data goes to both files.  A write that fails restarts the loop without
\* counting the data as read, although the pipe no longer has it.  A short
\* write (w_cnt < r_cnt) is not noticed.
RuntimeData ==
  /\ head.type = 1
  /\ \E n \in 1 .. Chunk :
       /\ ReadData(n)
       /\ \/ \E w \in 0 .. n, b \in 0 .. n :
               /\ cache' = [cache EXCEPT !["runtimenv"].cells = Stored(@, offset, w),
                                         !["runtimenvbkup"].cells = Stored(@, bkoffset, b)]
               /\ offset' = offset + w /\ bkoffset' = bkoffset + b /\ total' = total - n
               /\ IF w = n /\ b = n THEN UNCHANGED nfault ELSE Fails
          \/ Fails /\ UNCHANGED <<cache, offset, bkoffset, total>>
          \/ \E w \in 0 .. n :
               /\ Fails
               /\ cache' = [cache EXCEPT !["runtimenv"].cells = Stored(@, offset, w)]
               /\ offset' = offset + w
               /\ UNCHANGED <<bkoffset, total>>
  /\ UNCHANGED <<fixbuf, prodbuf, touched>>

-----------------------------------------------------------------------------
(* Storing a complete payload.                                             *)

\* write() of a whole file: all of it or, a fault, only its first words.
Write(f, c) ==
  \/ cache' = [cache EXCEPT ![f] = c] /\ UNCHANGED nfault
  \/ Fails /\ \E k \in Word : cache' = [cache EXCEPT ![f] = Torn(@, c, 0 .. k - 1)]

Fsync(f) == disk' = [disk EXCEPT ![f] = cache[f]] /\ UNCHANGED cache

\* The payload of a request of type t is complete.
Complete(t) == pc = "payload" /\ total = 0 /\ head.type = t

\* Mutant of Sealed: the index does not wrap.
Sealed_NoWrap(b) ==
  [cells |-> b.cells, sum |-> calc_checksum(b.cells), index |-> indexvalue + 1]

\* The trailer that update_fixnvfile and update_productinfofile compute.
Sealed(b) ==
  [cells |-> b.cells, sum |-> calc_checksum(b.cells), index |-> (indexvalue + 1) % IndexModulus]

\* What every step of this section leaves alone.
Storing ==
  UNCHANGED <<link, head, offset, bkoffset, total, indexvalue, nreq, ncrash, nreset, misread>>

\* The request is finished: back to the read of the next header.
Finish == pc' = "header" /\ wakelock' = FALSE

\* update_finxn_flag = 1; update_fixnvfile up to its write().
update_fixnvfile ==
  /\ Complete(0)
  /\ flag' = TRUE
  /\ fixbuf' = Sealed(fixbuf) /\ hist' = Append(hist, fixbuf.cells) /\ touched' = FALSE
  /\ \/ Write("fixnv", fixbuf') /\ pc' = "fixsync" /\ UNCHANGED wakelock
     \/ Fails /\ Finish /\ UNCHANGED cache
  /\ Storing /\ UNCHANGED <<prodbuf, disk, phist, acked, packed, dirty, waiting>>

\* Mutant of FsyncFixnv: the fsync before close is left out.
FsyncFixnv_Skipped ==
  /\ pc = "fixsync" /\ UNCHANGED files /\ Finish
  /\ Storing /\ UNCHANGED <<fixbuf, prodbuf, flag, nfault, images, touched, dirty, waiting>>

FsyncFixnv ==
  /\ pc = "fixsync" /\ Fsync("fixnv") /\ Finish
  /\ Storing /\ UNCHANGED <<fixbuf, prodbuf, flag, nfault, images, touched, dirty, waiting>>

\* Mutant of update_backupfile: the wake lock is released before the fsync.
update_backupfile_EarlyRelease ==
  /\ pc = "backup"
  /\ dirty' = (dirty \/ touched)
  /\ Write("backupfixnv", fixbuf) /\ pc' = "bksync" /\ wakelock' = FALSE
  /\ Storing /\ UNCHANGED <<fixbuf, prodbuf, flag, disk, images, touched, waiting>>

\* The sync command saves fixnv_buffer as it is.
update_backupfile ==
  /\ pc = "backup"
  /\ dirty' = (dirty \/ touched)
  /\ \/ Write("backupfixnv", fixbuf) /\ pc' = "bksync"
     \/ Fails /\ pc' = "sync" /\ UNCHANGED cache
  /\ Storing /\ UNCHANGED <<wakelock, fixbuf, prodbuf, flag, disk, images, touched, waiting>>

FsyncBackup ==
  /\ pc = "bksync" /\ Fsync("backupfixnv") /\ pc' = "sync"
  /\ Storing /\ UNCHANGED <<wakelock, fixbuf, prodbuf, flag, nfault, images, touched,
                             dirty, waiting>>

\* Mutant of SyncAndAnswer: only a sync that saved the backup is answered.
SyncAndAnswer_OnlyBackup ==
  /\ pc = "sync" /\ flag' = FALSE
  /\ disk' = cache
  /\ acked' = IF flag THEN Len(hist) ELSE acked
  /\ waiting' = (IF eof \/ ~flag THEN waiting ELSE waiting - 1) /\ UNCHANGED nfault
  /\ Finish
  /\ Storing /\ UNCHANGED <<fixbuf, prodbuf, cache, hist, phist, packed, touched, dirty>>

\* update_finxn_flag = 0; sync(); the header goes back to the modem, unless
\* the write on the pipe fails.
SyncAndAnswer ==
  /\ pc = "sync" /\ flag' = FALSE
  /\ disk' = cache
  /\ acked' = IF flag THEN Len(hist) ELSE acked
  /\ \/ waiting' = (IF eof THEN waiting ELSE waiting - 1) /\ UNCHANGED nfault
     \/ Fails /\ UNCHANGED waiting
  /\ Finish
  /\ Storing /\ UNCHANGED <<fixbuf, prodbuf, cache, hist, phist, packed, touched, dirty>>

\* update_productinfofile, first file.
update_productinfofile ==
  /\ Complete(2)
  /\ prodbuf' = Sealed(prodbuf) /\ phist' = Append(phist, prodbuf.cells)
  /\ \/ Write("productinfo", prodbuf') /\ pc' = "psync" /\ UNCHANGED wakelock
     \/ Fails /\ Finish /\ UNCHANGED cache
  /\ Storing /\ UNCHANGED <<fixbuf, flag, disk, hist, acked, packed, touched, dirty, waiting>>

\* Mutant of FsyncProduct: the first file is not synced before the second is
\* written.
FsyncProduct_Skipped ==
  /\ pc = "psync" /\ UNCHANGED files /\ pc' = "pcopy"
  /\ Storing /\ UNCHANGED <<wakelock, fixbuf, prodbuf, flag, nfault, images, touched,
                             dirty, waiting>>

FsyncProduct ==
  /\ pc = "psync" /\ Fsync("productinfo") /\ pc' = "pcopy"
  /\ Storing /\ UNCHANGED <<wakelock, fixbuf, prodbuf, flag, nfault, images, touched,
                             dirty, waiting>>

\* Second file.
WriteProductCopy ==
  /\ pc = "pcopy"
  /\ \/ Write("productinfobkup", prodbuf) /\ pc' = "psync2" /\ UNCHANGED wakelock
     \/ Fails /\ Finish /\ UNCHANGED cache
  /\ Storing /\ UNCHANGED <<fixbuf, prodbuf, flag, disk, images, touched, dirty, waiting>>

FsyncProductCopy ==
  /\ pc = "psync2" /\ Fsync("productinfobkup") /\ Finish
  /\ packed' = Len(phist)
  /\ Storing /\ UNCHANGED <<fixbuf, prodbuf, flag, nfault, hist, phist, acked, touched,
                             dirty, waiting>>

FsyncRuntime ==
  /\ Complete(1) /\ Fsync("runtimenv") /\ pc' = "rsync"
  /\ Storing /\ UNCHANGED <<wakelock, fixbuf, prodbuf, flag, nfault, images, touched,
                             dirty, waiting>>

FsyncRuntimeCopy ==
  /\ pc = "rsync" /\ Fsync("runtimenvbkup") /\ Finish
  /\ Storing /\ UNCHANGED <<fixbuf, prodbuf, flag, nfault, images, touched, dirty, waiting>>

-----------------------------------------------------------------------------
Daemon ==
  \/ OpenPipe \/ HeaderEof \/ PayloadEof \/ RestartDone
  \/ ReadGarbageHeader \/ SyncCommand \/ UnknownType \/ OpenFails
  \/ FixnvRequest \/ RuntimeRequest \/ ProductRequest
  \/ FixnvData \/ RuntimeData \/ ProductData
  \/ update_fixnvfile \/ FsyncFixnv
  \/ update_backupfile \/ FsyncBackup \/ SyncAndAnswer
  \/ update_productinfofile \/ FsyncProduct \/ WriteProductCopy \/ FsyncProductCopy
  \/ FsyncRuntime \/ FsyncRuntimeCopy

Modem == ModemReset \/ \E h \in Requests : ModemSend(h)

Next == Daemon \/ Modem \/ Crash

Spec == Init /\ [][Next]_vars

\* The daemon is a process the kernel schedules; nothing is assumed of the
\* modem and the power supply.
FairSpec == Spec /\ WF_vars(Daemon)

-----------------------------------------------------------------------------
Item == [kind : {"head", "data"}, hdr : Header, ver : 0 .. MaxReq]

Locations ==
  {"open", "restart", "restart_payload", "header", "payload", "fixsync", "backup", "bksync",
   "sync", "psync", "pcopy", "psync2", "rsync", "lost", "exited"}

\* Types: the flags, the bounds, and the state of main() and of its files.
FlagsOK ==
  /\ eof \in BOOLEAN /\ wakelock \in BOOLEAN /\ flag \in BOOLEAN /\ touched \in BOOLEAN
  /\ dirty \in BOOLEAN /\ misread \in BOOLEAN

BoundsOK ==
  /\ nreq \in 0 .. MaxReq /\ ncrash \in 0 .. MaxCrash /\ nreset \in 0 .. MaxReset
  /\ nfault \in 0 .. MaxFault /\ waiting \in Int

DaemonOK ==
  /\ pc \in Locations /\ guest \in {"started", "not_started"}
  /\ monitor \in {"none", "SIGUSR1", "SIGUSR2"}
  /\ pipe \in Seq(Item) /\ head \in Header
  /\ offset \in Nat /\ bkoffset \in Nat /\ total \in 0 .. NCells
  /\ indexvalue \in 0 .. IndexModulus - 1

FilesOK ==
  /\ fixbuf \in Content /\ prodbuf \in Content
  /\ cache \in [File -> Content] /\ disk \in [File -> Content]
  /\ hist \in Seq(Image) /\ phist \in Seq(Image)
  /\ acked \in 1 .. Len(hist) /\ packed \in 1 .. Len(phist)

\* Type invariant of the daemon.
TypeOK == FlagsOK /\ BoundsOK /\ DaemonOK /\ FilesOK

\* c is a whole image with its checksum, no older than position "from" of h.
Holds(c, h, from) == Valid(c) /\ \E j \in from .. Len(h) : c.cells = h[j]

\* fixnv survives a power failure: wherever it strikes (between write() and
\* fsync() of update_fixnvfile and update_backupfile too), fixnv.bin or its backup
\* is a whole image, as update_fixnvfile assembled it, at least as new as the one last
\* answered with a sync.  Not claimed after a failed system call, after a sync has saved
\* a half-received buffer (dirty), and beyond the first power failure:
\* update_finxn_flag is not persistent, so that a backup torn by the first one is not
\* rewritten before fixnv.bin is.
NvRecoverable ==
  \/ nfault > 0 \/ dirty \/ ncrash > 1
  \/ \E f \in {"fixnv", "backupfixnv"} : Holds(disk[f], hist, acked)

\* Why NvRecoverable holds (the inductive invariant of its proof).  Excused: the
\* cases NvRecoverable leaves out.
Excused == nfault > 0 \/ dirty \/ ncrash > 1

\* c is the image that update_fixnvfile assembled last.
Newest(c) == Valid(c) /\ c.cells = hist[Len(hist)]

FixInv ==
  /\ pc = "fixsync" => flag /\ ~touched
  /\ pc \in {"backup", "bksync"} => flag
  /\ \/ Excused
     \/ /\ Holds(disk["fixnv"], hist, acked) \/ Holds(disk["backupfixnv"], hist, acked)
        /\ ncrash = 0 => Holds(disk["backupfixnv"], hist, acked)
        /\ pc # "fixsync" => cache["fixnv"] = disk["fixnv"]
        /\ pc # "bksync" => cache["backupfixnv"] = disk["backupfixnv"]
        /\ pc = "fixsync" => cache["fixnv"] = fixbuf
        /\ pc = "bksync" => cache["backupfixnv"] = fixbuf /\ ~touched
        /\ flag /\ ~touched => Newest(fixbuf)
        /\ flag /\ pc # "fixsync" => Newest(disk["fixnv"])
        /\ flag /\ pc = "sync" => Newest(disk["backupfixnv"])

\* The same for the two files of update_productinfofile, with the image last
\* written to both: the order of the two writes and fsyncs keeps one copy whole, also
\* when the image was assembled from a torn file.
ProductRecoverable ==
  \/ nfault > 0 \/ ncrash > 1
  \/ \E f \in {"productinfo", "productinfobkup"} : Holds(disk[f], phist, packed)

\* The last header read is that of an unknown type with a payload, which main()
\* has left in the pipe.
Undrained == head.req_type = 0 /\ head.type = 3 /\ head.size > 0

\* The payload loop takes exactly the payload: headers are read as headers and data
\* as data, through chunked reads, resets and reopened pipes.  Framing is lost in two
\* ways only: a write on the runtimenv files has failed, or the read follows a
\* request of unknown type with a payload, which nvitem.c:858-864 does not drain.
FramingKept ==
  [][~misread /\ misread' => nfault' > 0 \/ (pc = "header" /\ Undrained)]_vars

\* Between requests the two runtimenv files have the same content, aborted
\* transfers included, until a power failure or a failed write.
RuntimeCopiesAgree ==
  pc \in {"header", "open"} /\ nfault = 0 /\ ncrash = 0
    => cache["runtimenv"].cells = cache["runtimenvbkup"].cells

\* A fixnv or productinfo file that is written and not yet on the flash keeps the
\* device awake: NvItemdLock is held until fsync() returns, on every path.
UnsyncedUnderLock ==
  \A f \in File \ {"runtimenv", "runtimenvbkup"} : cache[f] # disk[f] => wakelock

\* Every sync command is answered (or the modem that sent it is gone), whatever
\* is queued before it, unless a system call fails or framing is lost (FramingKept
\* says when).
SyncAnswered == (waiting > 0) ~> (waiting = 0 \/ nfault > 0 \/ misread)

\* A stopped modem guest is restarted and sprd_monitor is told that it may resume,
\* unless a system call fails.
GuestRestarted ==
  (guest = "not_started") ~> ((guest = "started" /\ monitor # "SIGUSR1") \/ nfault > 0)

\* nvitem.c:704 "mocor update file : fixnv --> runtimenv --> backupfixnv": once a
\* sync that follows a fixnv update is done, the backup is the copy of fixnv.bin.
SyncCopiesFixnv ==
  [][pc = "sync" /\ flag => disk'["backupfixnv"] = disk'["fixnv"]]_vars

-----------------------------------------------------------------------------
(* The inductive invariants of the other properties (NvItemProofs).         *)

\* A file differs from what is on the flash only between its write() and its
\* fsync(), and the lock is held all the time a request is carried out.
Synced ==
  /\ pc # "fixsync" => cache["fixnv"] = disk["fixnv"]
  /\ pc # "bksync" => cache["backupfixnv"] = disk["backupfixnv"]
  /\ pc # "psync" => cache["productinfo"] = disk["productinfo"]
  /\ pc # "psync2" => cache["productinfobkup"] = disk["productinfobkup"]
  /\ pc \in {"payload", "fixsync", "backup", "bksync", "sync", "psync", "pcopy", "psync2"} =>
       wakelock

\* The two runtimenv files are written side by side.
SideBySide ==
  nfault = 0 /\ ncrash = 0 =>
    /\ cache["runtimenv"].cells = cache["runtimenvbkup"].cells
    /\ pc = "payload" /\ head.type = 1 => offset = bkoffset

\* The pipe p holds the last k items of a payload, followed by whole requests.
Framed(p, k) ==
  /\ k <= Len(p) /\ \A j \in 1 .. k : p[j].kind = "data"
  /\ k < Len(p) => p[k + 1].kind = "head"
  /\ \A j \in k + 1 .. Len(p) : p[j].kind = "head" =>
       LET end == j + p[j].hdr.size
       IN /\ p[j].hdr \in Requests /\ end <= Len(p)
          /\ \A m \in j + 1 .. end : p[m].kind = "data"
          /\ end < Len(p) => p[end + 1].kind = "head"

FrameInv ==
  nfault = 0 /\ ~misread =>
    /\ eof => pipe = <<>>
    /\ ~eof => \/ Framed(pipe, IF pc = "payload" THEN total ELSE 0)
               \/ pc = "header" /\ Undrained /\ Framed(pipe, head.size)

\* As FixInv, for productinfo: until the first power failure the copy holds the
\* image last stored in both files; the first file holds the newest one when the
\* copy is written.
NewestProduct(c) == Valid(c) /\ c.cells = phist[Len(phist)]

ProductInv ==
  nfault = 0 /\ ncrash <= 1 =>
    /\ \/ Holds(disk["productinfo"], phist, packed)
       \/ Holds(disk["productinfobkup"], phist, packed)
    /\ ncrash = 0 => Holds(disk["productinfobkup"], phist, packed)
    /\ pc \in {"psync", "pcopy", "psync2"} => NewestProduct(prodbuf)
    /\ pc \in {"pcopy", "psync2"} => NewestProduct(disk["productinfo"])
    /\ pc = "psync" => cache["productinfo"] = prodbuf
    /\ pc = "psync2" => cache["productinfobkup"] = prodbuf
=============================================================================
