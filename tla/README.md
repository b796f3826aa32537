# Verification of the tarako (sp6821a) device code

The repository is the Android/Firefox OS device tree of the Spreadtrum "tarako"
board (sp6821a, SC8810 SoC): the daemons that serve the modem, the hardware
abstraction libraries, engineering and logging tools, and the FM, Bluetooth and
WLAN code of the Trout chip. This directory holds TLA+ models of the parts that
keep state, TLC configurations that check them on small instances, and TLAPS
proofs for all instances. `PROJECT.json` lists components, runs, mutants, the map
from definitions to source lines, hazards and theorems.

Run a check: `tlc -config NvCrash.cfg MCNvItem`. Check the proofs:
`tlapm NvItemProofs.tla`, and so on for every module whose name ends in `Proofs`.

## 1. Inventory

| component | state | operations | hard behaviour | what makes it correct |
|---|---|---|---|---|
| `nvm_daemon` (`common/apps/nvm_daemon/nvitem.c`) | three pairs of NV files, `fixnv_buffer`, `phasecheck_buffer`, `indexvalue`, `update_finxn_flag`, wake lock | requests from the modem on `/dev/vbpipe1`: store, sync; modem restart at end of file | power failure between `write` and `fsync`, modem reset inside a payload, chunked reads, failing writes | one copy of each pair is whole and recent; requests keep their framing; sync is answered; the modem comes back |
| FM ring (`partner/trout/fmhal/RingBuffer.cpp`) | `wr_index`, `rd_index`, blocks, two locks, two conditions | `GetBuf`, `PutData`, `GetData`, `PutBuf` | two sides without a common lock, locks held across calls, `uint32_t` wrap, waits without re-check | it is a bounded FIFO queue; a borrowed block does not change |
| FM HAL (`FMHalSource.cpp`) | sources, tracks, capture thread, PCM device, `openCount` | construct, destroy, `start`, `stop`, `read`, capture loop | thread against destructor, lost wakeup, overflow and underrun hysteresis | the device is open exactly while it is used; started sources get audio; shutdown ends |
| `modem_control` (`main.c`) | `modem_state`, `flash_less_flag`, client table | modem state messages, accept thread, broadcast | table shared without a lock, two transitions in one message, SIGPIPE | every client hears of each assert and each recovery; monitor is stopped and resumed in pairs; an assert is recovered from |
| modem boot (`modem_boot.c`, `packet.c`, `crc16.c`) | power, UART and SPI phases, images, packet buffers | reset, handshake, FDL download, image download; framing and sums | endless retries, reads without a timeout, partial downloads, escapes, NV files read while being written | the modem starts only with all images; messages come in order; a packet arrives as it was sent |
| `modemd` | client table, descriptors | accept, report a message, reopen the pipe | table shared without a lock, descriptor reuse, full table, clients that go | every client in the table gets the message once; a client can come back |
| engineering mode (`engineeringmodel/engcs`) | client sockets, AT command routing, modem reset thread | PC client, server, modem client | answers and commands interleave, reconnects | an answer goes to the client that asked; an assert leads to a reset |
| `slog` | log threads, files, configuration | rotate, snapshot, control socket, dump of the modem's memory | threads against reconfiguration, full storage | no log thread writes to a closed file; the modem log resumes after a reset |
| audio HAL (`libs/audio/audio_hw.c`, `vb_control_parameters.c`) | an output and an input stream, call state, routes, three mutexes | write, read, standby, routing; commands of the modem on `/dev/vbpipe6`; the routing thread | lock order, call switch during playback, state used after its lock was released | a stream uses the device that is open; no deadlock; sound follows the route |
| `vcharge` | what is plugged in, commands to the modem, calibration | uevents, commands and answers on `/dev/vbpipe3` | two files read one after the other, broken pipe, stale `errno` | the modem charges if and only if a charger is there |
| camera HAL | preview/capture/record state | start/stop, callbacks | callback threads against stop | no frame is delivered after stop |
| gralloc, hwcomposer | buffer handles, overlay state | alloc/free, lock, prepare/set | reference counts, buffer still scanned out | no buffer is freed in use |
| charge, alarm | battery, key and timer state | events | timers against keys | the device powers on or off as decided |
| the rest (sensors, lights, OMX plugin, mcom_monitor, serial/log tools, Bluetooth pskey, libfm, WLAN tools, mali) | none or vendor code | | | |

How they interact. The modem is a guest OS beside Linux. It sends NV requests to
`nvm_daemon` through `vbpipe1` and its state through `vbpipe2` (`modemd`) or a sysfs
file (`modem_control`); it controls voice calls through `vbpipe6` (audio HAL) and
charges as `vcharge` tells it on `vbpipe3`. `modemd` passes its messages on to `slog`,
`engpcclient` and the assert notification over a local socket. `nvm_daemon` restarts
the guest; it and `modem_control` signal `sprd_monitor` (SIGUSR1 stop, SIGUSR2 resume).
On boards with a flash-less modem `modem_boot` reads the NV files `nvm_daemon` writes.
The FM HAL is used by the audio player; its capture thread fills one ring per player.
`sp6821a_gonk/init.sp8810.rc` starts the daemons; `nvm_daemon`, `modemd` and `vcharged`
are oneshot services, so an `exit` is final until the next boot.

## 2. Modules

| module | models | kind |
|---|---|---|
| `NvItem` | `nvitem.c`, NAND build | model, properties, inductive invariant |
| `NvItemProofs` | types, recovery of fixnv and productinfo, wake lock, framing, the two runtimenv files | proofs |
| `MCNvItem` | file types per run | TLC |
| `FMQueue` | bounded FIFO queue whose head can be borrowed | abstract specification |
| `FMRing` | `RingBuffer.cpp`, implements `FMQueue` | model |
| `FMRingProofs` | theorems about `FMRing`, refinement of `FMQueue` | proofs |
| `MCFMRing` | threads and blocks | TLC |
| `FMHal` | `FMHalSource.cpp` | model |
| `FMHalProofs` | theorems about `FMHal` | proofs |
| `MCFMHal` | sources and threads | TLC |
| `Modemd` | `modemd.c` and its clients in `eng_pcclient.c` and slog's `handler.c` | model, composition |
| `ModemdProofs` | theorems about `Modemd` | proofs |
| `MCModemd` | clients and descriptors | TLC |
| `ModemBoot` | `modem_boot.c`: the steps of one boot | model |
| `ModemControl` | `modem_control/main.c` with `ModemBoot` inside (`B == INSTANCE ModemBoot`) | model, composition |
| `ModemControlProofs` | theorems about `ModemControl` and the boot in it | proofs |
| `MCModemControl` | image sizes | TLC |
| `Packet` | `packet.c`, `crc16.c` | algorithms, model |
| `PacketProofs` | theorems about `Packet`, its sums and its framing | proofs |
| `MCPacket` | body bytes | TLC |
| `AudioHw` | `audio_hw.c`, `vb_control_parameters.c` | model |
| `AudioHwProofs` | theorems about `AudioHw` | proofs |
| `MCAudioHw` | routes and devices | TLC |
| `VCharge` | `vcharge.c`, `battery.c` | model |
| `VChargeProofs` | theorems about `VCharge` | proofs |
| `MCVCharge` | | TLC |

Every model has a `TypeOK`. It is proved, alone (`NvItem`) or as a conjunct of the module's
inductive invariant (`RingInv`, `HalInv`, `TableInv`, `ControlInv`, `PacketInv`, `AudioInv`,
`ChargeInv`). The inductive invariants are defined
at the end of each model, so that TLC can evaluate them too; the run `fm_ring` checks `RingInv`.

Definitions whose name has a suffix after an underscore (`GetBuf_OffByOne`,
`FsyncFixnv_Skipped`, ...) and a comment "Mutant of ..." are faulty variants. No
specification uses them; substituting one for the original must make a property
fail, which shows that the property depends on that code.

### NvItem

State. `pc` is the place in `main()`: `open` (label `reopen_vbpipe`), `header` (the
first `read`), `payload` (the loop), one place per `write`/`fsync` still to come,
`restart*` (the 20 s of `check_reboot`), `exited`, `lost` (payload was taken for a
header). `cache` is what `read()` on a file returns, `disk` what a power failure
leaves. `fsync` copies one file from the first to the second, `sync()` all of them.
`Crash` leaves, for every file in which they differ, an arbitrary mixture of old and
new words, checksum and index included. `fixbuf`, `prodbuf`, `indexvalue`, `flag`,
`head`, `offset`, `bkoffset`, `total`, `wakelock` are the variables of the program.
`hist`, `phist`, `acked`, `packed`, `touched`, `dirty`, `misread` and `waiting` are observers: no guard reads them.

Actions. One per branch of the request loop and per system call that changes a file:
`OpenPipe`, `HeaderEof`/`PayloadEof` (with `check_reboot`), `RestartDone`,
`SyncCommand`, `UnknownType`, `FixnvRequest`, `RuntimeRequest`, `ProductRequest`,
`FixnvData`, `RuntimeData`, `ProductData` (a read of 1..Chunk items), then
`update_fixnvfile`, `FsyncFixnv`, `update_backupfile`, `FsyncBackup`,
`SyncAndAnswer`, `update_productinfofile` ... `FsyncProductCopy`, `FsyncRuntime`,
`FsyncRuntimeCopy`. `OpenFails` and the `Fails` disjuncts are failing system calls.
`ModemSend`, `ModemReset` and `Crash` are the environment.

Abstractions. A cell of a file holds the number of the request that wrote it. The
checksum of an image is the image, that is, torn files are always recognised. The
daemon itself never verifies a checksum; the readers (boot loader, modem) do. The
0x5a marker and the log files are left out because nothing reads them back. Requests
stay within the file: the size checks of the code only log. A request of unknown type may
have a payload like any other; the code answers it with `continue` (`nvitem.c:858-864`) and
leaves the payload in the pipe, where it is read as the next header (`misread`).

### FMRing and FMQueue

`wpc` and `rpc` are the places of the threads between the ring's calls; a lock is the
thread that has it. `GetBuf` returns with `mLock_wr` held and `PutData` releases it
(likewise on the reading side), so the caller's `memcpy` (`CopyIn`) is part of the
model, in two steps with a `Partial` block in between. Indices count modulo
`IndexRange`; 2^32 is a multiple of the code's 32 blocks, which `RingAssumption`
keeps. A wait releases the lock in a step of its own, because `PutBuf` and `PutData`
signal under the other side's lock. Waits that end without a signal are not modelled; they
would matter to a writer that waits, and the HAL's calls `GetBuf(false)`. Loads and stores are taken to be in program order
(the SC8810 has a single core).

The refinement mapping `Abstract` makes `queue` the blocks between `rd_index` and
`wr_index`, and `held` the block a reader has borrowed.

### FMHal

Constructor, destructor, `start` and `stop` hold the static lock throughout and are one
action each; the destructor of the last source is a sequence of steps (`dtor`), since
it waits for the thread. `FMHalThread::exit` takes no lock before it signals. It
unlocks a mutex it does not own and locks it at the end: with bionic's normal
mutexes this has no effect anybody could observe, as the static lock keeps `start`
and `stop` out, and it is left out. A ring is the number of its blocks, audio is counted in frames of
4 bytes. `obj` separates a source whose constructor found no sound card (`failed`),
because its destructor decrements `openCount` all the same, and one that was destroyed
while started and not the last one (`abandoned`): the destructor does not call `stop` then, and
its track stays in the list the capture thread serves (`FMHalSource.cpp:308`). `Leaked` and
`Miscounted` name the two states in which the bookkeeping of the code is already
wrong; the properties say what holds otherwise.

### Modemd

The accept thread (`apc`, `n`, `j`) and the main loop (`mpc`, `i`, `buf`) share
`client_fd` without a lock, so each read or write of an entry and each `accept`,
`write` and `close` is a step. A descriptor is a number and `accept` returns the lowest
free one: between the `close` of main and the clearing of the entry the number can
be handed out again. `client_fd` is 0, not -1, until the accept thread has set it up.
Three kinds of clients are composed with the server: `eng_modemreset_thread`, which
answers an assert with the reset command and then neither closes nor reconnects; the
thread of slog, which reconnects; and any other program, which may end at any time. The
messages of the modem are not bounded. A client that ends before it is accepted leaves
`Gone` in the backlog.

slog's own log thread (`modem_log_handler`) runs beside the thread that listens: it may still be
opening its files, reopen the device after a failed read, return because slog is switched off,
or be killed by an assert (`log`); a thread `modem_tid` no longer names would be an `orphan`. The
listening thread closes `fd_device` and `fd_out` at an assert whether or not they are open. A number
closed before (`stale`) may have become that of slog's connection to `modemd` (`onstale`); slog
then closes its own connection and reads -1 for ever (`deaf`).

### ModemBoot and ModemControl

In `ModemBoot` a message is one action: it is written and the modem answers it with an
acknowledgement, with type 0, or with something else. No read of the code has a timeout, so
a message to a modem that does not answer never ends. `mode` is the modem
(`off`, `rom`, `fdl`, `spi`, `app`, `dead`), `announced`/`received`/`got` what it has been
sent, `confused` an observer that it got a message out of order. Sizes count in units
small enough for an image of several packets with an incomplete last one.
`Hopeless` names the boots that cannot end: a modem that does not answer, the wait for
`/dev/dloader`, whose loop ends only if `open` returns descriptor 0, and the loop that reads the
FDL, which does not end when `read` returns 0 or less (`modem_boot.c:353-360`).

`ModemControl` models `main.c`. The state file gives two lines, alive and reset, as they
are when it is read. `Process` has one disjunct per way through
`process_modem_state_message`; in state `BOOT` the steps of `B!Boot` run instead. An
entry of the client table is unset, free, live or dead; writing to a dead one raises
SIGPIPE, which nothing handles. `Listen` is the start of the accept thread; when it cannot open
its socket `exit(-1)` ends the process too (`main.c:137-140`). `killed` says that the process
has ended, and whatever a handler does after a broadcast, SIGUSR2 included, happens only if the
broadcast has not ended it. The result of `modem_boot` is not looked
at, as in the code.

### Packet

The byte level of the same protocol: `setup_packet`, the escapes of
`translate_packet`, the loops around `write` that start again at the beginning
of the buffer after a short write, and `untranslate_packet` byte by byte. Bytes are
numbers, sums are 16 bits wide, the CRC is computed bit by bit. A loop over a packet is a
recursive function of the round (`CrcRounds`, `WordSums`, `Translated`): its value at n is
what the loop's variable holds after n rounds. `setup_spi` is the SPI branch of `setup_packet`
for every command; `SentOverSpi` says which of these packets `modem_boot.c` sends over
SPI, since a connect or empty data set up for SPI would not have the length it announces.

### AudioHw

Threads `play`, `rec` and `call` carry out one operation at a time (`op`) and `pc` says
where they are in it; the routing thread has its own place `rpc`. `adev`, `inl`, `outl` are
the owners of the mutexes. A step reaches from one point at which a thread waits, or uses state
without the lock that protects it, to the next. A device (`o_pcm`, `i_pcm`) is closed, the
codec's, or the modem's. `DoStandby` is the standby code of both streams with the read and the
write of `adev->devices` as separate steps, because one of its callers does not hold
`adev->lock`. Of the mixer only `routed` is kept: whether it has been set to
`adev->devices` since they last changed. For the same reason the output's standby clears `active_output` (`OutClose`) and
closes the modem's device (`OutCloseVoice`) in two steps. A start of the input that fails leaves
through the exit of `in_read`. The semaphore of the routing thread starts at 0: `adev_open` posts it
(line 2781) before `sem_init` (line 2678, called at 2802) sets it. Sound, volumes, mutes and resamplers are left out.

### VCharge

`vcharged` reads `usb/online` and `ac/online` one after the other, each a step; the
connector may change between them, passing through none. The kernel drops a uevent when the
socket's queue is full and marks the socket (`overrun`). `uevent_next_event` is two steps, `poll` and
`recv`: `poll` must give POLLIN and nothing else (line 164), so with a mark it spins, while a mark that comes
after it makes `recv` fail and is gone. `need_notify` starts with any value
(it is not initialised). `einval` is whether `errno` is EINVAL, which `battery.c` takes for
a failure of its own `strtol`. `nv` is the calibration file, which a shorter value
written over a longer one makes a bad one. `misled` observes that the last command
contradicts what was seen.

## 3. Runs

| run | cfg | instance | result |
|---|---|---|---|
| `nv_crash` | `NvCrash` | 3 requests (fixnv, productinfo, sync), 1 reset, 1 power failure | `TypeOK`, `NvRecoverable`, `UnsyncedUnderLock`, `ProductRecoverable` hold |
| `nv_live` | `NvLive` | 2 requests of every type, 2 resets, 1 fault | `FramingKept`, `RuntimeCopiesAgree`, `SyncAnswered`, `GuestRestarted` hold |
| `nv_sync_copy` | `NvSyncCopy` | 3 requests, 1 reset | `SyncCopiesFixnv` is violated |
| `fm_ring` | `FMRing` | 1 writer, 2 readers, all may wait, 3 blocks, index modulo 6 | `RingInv`, `NeverOverfull`, `BorrowedIsWhole`, `ImplementsQueue` hold |
| `fm_hal` | `FMHal` | 2 sources, 2 generations of the thread, 3 blocks of 2 frames | `ReadsOpenPcm`, `ClosedWhenUnused`, `StartedIsServed`, `BorrowedIsCounted`, `DestructorEnds`, `StartedBecomesReady`, `OverflowEnds` hold |
| `modemd` | `Modemd` | 3 clients, 2 entries, 2 descriptors, 1 waiting connection | `EntriesOwnTheirFd`, `ReportDelivered`, `LogStoppedOnlyForReset`, `DumpListens` hold |
| `modemd_reset` | `ModemdReset` | the reset thread alone | `AssertIsReset` is violated |
| `modem_control` | `ModemControl` | 1 client entry, 2 asserts or requests for a reset, 2 images, 3 faults | `MonitorResumed`, `ClientsUpToDate`, `FinishedIsComplete`, `MessagesInOrder`, `DescriptorsClosed`, `RecoversFromAssert`, `BootEnds` hold |
| `packet` | `Packet` | bodies of up to 3 out of 6 special bytes, 2 writes | `CrcVerifies`, `SumsVerify`, `ArrivesWithoutEscape` hold |
| `audio_hw` | `AudioHw` | 2 output routes, 2 input devices, 1 pending signal | `UsesOpenPcm`, `PcmMatchesCall`, `NoLockCycle`, `RouteFollows` hold, no deadlock |
| `audio_route` | `AudioRoute` | the same | `OutputRouteKept` is violated |
| `vcharge` | `VCharge` | 5 changes of the supply, 3 faults | `KnowsSupply`, `ChargeFollows`, `EventsServed` hold |

Bounds. Two cells per file are enough to tell a torn image from a whole one and to
store parts at different offsets. Three requests allow update, sync, update or a sync
after an aborted update, with a power failure anywhere; the index starts at 99 so that it
wraps. Three blocks and an index range of six let the ring fill, empty and wrap with the
slots in every position. Two sources give a leak or a miscount and a healthy
source at the same time; two threads let the device be closed and opened again. Three
clients compete for two entries and two descriptors, so that numbers are reused
before their entry is cleared, the table fills and a connection is forgotten. Two asserts
make a second boot start where the first has left everything; one image that needs an
incomplete last packet and one that may be missing exercise the counting. Three faults let a boot
fail at two places and once more in its retry. The bytes of `packet` are those that framing treats
differently from others, both values of an odd length included. Five changes of the
supply cover every order of usb, none and ac around one pass of the daemon and
one more after it.

What the properties exclude, and why. Each case is one where the code gives no guarantee,
is named by a definition, and is a hazard in `PROJECT.json`.

* `NvRecoverable`: a failed system call, a sync that saved a half-received buffer
  (`dirty`), and what follows the first power failure: `update_finxn_flag` is not persistent, so a backup torn by that failure is not
  rewritten by the following sync, and the next update overwrites the only whole copy.
* `FramingKept`: a failed `write` on the runtimenv files, and the read after a request of unknown
  type with a payload. `SyncAnswered` excuses what comes after either.
* `FMRing` is checked with one writer, which is how the HAL uses it: a second one could
  take the block `GetBuf` has waited for, since it does not test again after the wait.
* `FMHal`: `Leaked` and `Miscounted`. `StartedIsServed` looks at every list of every thread; the
  only ones in it that are not live and started are the `abandoned` ones.
* `DumpListens`: a connection that found no free entry is forgotten without being
  closed, and such connections can use up the descriptors. Also a slog that is `deaf`.
* `MonitorResumed`, `ClientsUpToDate`: a `modem_control` that has ended. SIGPIPE in the broadcast
  at `main.c:282` comes after `modem_state = ALIVE` and before SIGUSR2 and leaves `sprd_monitor`
  stopped.
* `RecoversFromAssert`, `BootEnds`: `Stranded` and `Hopeless`, that is SIGPIPE or `exit(-1)`, a boot
  stuck in a read, in the wait for `/dev/dloader` or in the loop that reads the FDL, a failed boot whose result is ignored,
  and a reset asked for before the modem was found alive, which state `BOOTCOMP` ignores.
* `ArrivesWithoutEscape`: a packet with a 0x7D does not come out of `untranslate_packet`
  as it went in, because the unescaped 0x7D is taken for an escape again.
* `PcmMatchesCall`: an `out_write` that has failed puts its stream to standby without `adev->lock`
  (line 1238). Between `active_output = 0` and the close of the modem's device the end of the call
  passes the output by, and the device is open, one step longer, without a call.
* `ChargeFollows`: `misled`, and a modem restart that has not yet been noticed.
  `EventsServed`: a daemon that stays for ever in one of the places of `Stuck`: before a modem that
  does not answer (`vcharge.c:332` has no timeout), at `poll` on a marked socket, or where
  EINVAL kept in `errno` has every answer of the modem refused. That one of these holds for a
  moment does not excuse it.

The violations.

* `nv_sync_copy`. The comment at `nvitem.c:704` describes sync as
  "mocor update file : fixnv --> runtimenv --> backupfixnv". The code writes
  `fixnv_buffer`, not the file. When a modem reset cuts off a fixnv transfer that follows
  a complete one, the buffer is half new while `update_finxn_flag` is still 1, and the next
  sync stores it in the backup with the checksum of the older image.
* `modemd_reset`. `StartAssert.java:21` relies on "after modem assert, modem will be reset".
  `modemd` closes every connection after a message, and `eng_modemreset_thread`
  (`eng_pcclient.c:789`) does not connect again: the second assert resets nothing.
* `audio_route`. The comment at `audio_hw.c:1369` says that `do_input_standby` must be called
  with the device's mutex locked. `in_read` calls it at line 1852 without, and it writes back an
  `adev->devices` read before `out_set_parameters` stored a new route.

Deadlock is checked in `audio_hw`. The other systems may stop: the bounds on requests
or changes are used up, a daemon waits for an event or has exited, a waiter is alone, all
sources are gone.

Fairness. `NvItem`: weak fairness of the daemon, a process the kernel schedules; nothing
of the modem, resets or power. `FMHal`: weak fairness of the capture thread (its
`pcm_read` returns, with data or an error), of a running destructor, and of the players
of started sources, who go on calling `read`; nothing of construct, start, stop and destroy.
`Modemd`: weak fairness of both threads and of the reading clients, strong fairness of
`Connect`, since the kernel serves the callers of a blocking `connect()` in turn; nothing of
the modem and of the other clients. `ModemControl`: weak fairness of the loop and of the boot;
of the modem, that software started with its images reports that it is alive, and that a modem
that has asserted asks for its reset. `VCharge`: weak fairness of the daemon's own steps; nothing
of the connector and of the modem, which may never answer.

## 4. Proofs

Every safety invariant and every action property that a passing run checks is proved for all
values of the constants. Each proof has the same shape: an invariant that is inductive, one lemma per action
(or per group of actions that leave the same things alone), and a theorem that combines them. The
theorems hold for the specification without fairness, so for the one with fairness too.

| module | theorem | states | inductive invariant |
|---|---|---|---|
| `NvItemProofs` | `TypeCorrect` | `TypeOK` | itself |
| | `FixnvRecoverable` | `NvRecoverable` | `FixInv` |
| | `ProductSurvives` | `ProductRecoverable` | `ProductInv`, `Synced` |
| | `AwakeWhileUnsynced` | `UnsyncedUnderLock` | `Synced` |
| | `FramingCorrect` | `FramingKept` | `FrameInv` |
| | `CopiesAgree` | `RuntimeCopiesAgree` | `SideBySide` |
| `FMRingProofs` | `RingCorrect`, `Overfull`, `Borrowed` | `RingInv`, `NeverOverfull`, `BorrowedIsWhole` | `RingInv` |
| | `Refinement` | `ImplementsQueue` | `RingInv` |
| `FMHalProofs` | `PcmStaysOpen`, `ClosedAtEnd`, `ServedWhenStarted`, `BorrowedCounted` | `ReadsOpenPcm`, `ClosedWhenUnused`, `StartedIsServed`, `BorrowedIsCounted` | `HalInv` |
| `ModemdProofs` | `EntriesSafe`, `Delivered` | `EntriesOwnTheirFd`, `ReportDelivered` | `TableInv` |
| | `LogCorrect` | `LogStoppedOnlyForReset` | itself, with `TypeOK` |
| `ModemControlProofs` | `MonitorRuns`, `ClientsKnow`, `BootComplete`, `MessagesCounted`, `NoDescriptorLeak` | `MonitorResumed`, `ClientsUpToDate`, `FinishedIsComplete`, `MessagesInOrder`, `DescriptorsClosed` | `ControlInv` |
| `PacketProofs` | `TypeCorrect`, `CrcCorrect`, `SumsCorrect`, `ArrivesCorrect` | `TypeOK`, `CrcVerifies`, `SumsVerify`, `ArrivesWithoutEscape` | `PacketInv` |
| `AudioHwProofs` | `DeadlockFree`, `OpenPcm`, `PcmSide`, `RouteCorrect` | `NoLockCycle`, `UsesOpenPcm`, `PcmMatchesCall`, `RouteFollows` | `AudioInv` |
| `VChargeProofs` | `SupplyKnown`, `ChargeCorrect` | `KnowsSupply`, `ChargeFollows` | `ChargeInv` |

Why each invariant is what it is.

* `FixInv`. `NvRecoverable` does not say which file is whole while the other is being written.
  `FixInv` adds: outside the excused cases, before the first power failure the *backup* holds an
  image no older than the acknowledged one; a file and its durable image differ only between its
  `write` and its `fsync`; while the flag is set and the buffer untouched, the buffer is the newest
  image, and so is `fixnv.bin` once it is synced; between saving the backup and the answer the
  backup is the newest image. In `FixCrash` the file being written may be torn, and the
  invariant provides the other one.
* `ProductInv` is the same for the two productinfo files: the copy is good until it is
  written, and the first file has the newest image by then. The proof needs nothing about the file
  the request was merged into, so the property claims it also for an image made from a torn one.
* `Synced` says in which place of `main()` which file may differ from the flash, and
  that the lock is held from the request to the end of its last `fsync`.
* `FrameInv`. That no header was misread says nothing of what is still in the pipe. `Framed(p, k)`
  describes it: k items of payload, then headers each followed by its payload. Lemmas
  about `Framed`: a header can be taken off (`FramedHead`), n items of payload can
  (`FramedDrop`), a request can be appended (`FramedSend`). It holds until the payload of an unknown
  type is left in the pipe, so `FramingKept` is an action property: it says at which step
  framing may be lost.
* `RingInv`. Each side's lock is held exactly by the thread that is inside; a writer that was
  woken has room, because it is the only one that could have used it; the slots between the
  indices are whole. The lemmas about `Plus`, `Minus` and `Slot` show that distinct live indices
  have distinct slots across the wrap, for which `IndexRange` must be a multiple of `UnitCount`.
  `Refinement` maps `GetData`, `PutBuf` and `PutData` to the queue's steps and
  everything else to stuttering.
* `HalInv`. `openCount` is the number of live sources (a cardinality: `FiniteSetTheorems`),
  a thread is there while one is live, and the handle, the open device and the thread belong
  together. Only then does the last destructor close what the thread has finished with.
* `TableInv`. The descriptor the accept thread is about to place is in no entry but the one that
  main is clearing; two entries hold the same number only if one of them is being cleared;
  clients in the table when the message was read are behind main's index only if written to.
* `ControlInv` contains `BootInv`: which descriptors are open in which phase, which images the modem
  has by then, and, in the packet loops, an equation between what is left of the image, what was
  announced and what was received. The lemmas about `Packets` do the division.
* `PacketInv`. The packet, its frame and one `write` of it are what the functions compute;
  `Unframing` says how far `untranslate_packet` is: behind the flag, behind the bytes of
  `packet[n]`, or between the two bytes of an escaped `packet[n + 1]`, where it holds a 0x7D
  that the next byte replaces. What the loops compute for a packet of any length is proved by
  induction over the rounds. The library's induction theorems have an operator as a parameter, so
  `SetInduction` states induction for a *set* of naturals, from the well-foundedness of `<`
  (`WellFoundedInduction`), and each lemma defines the set of rounds for which it holds;
  `Recursion` gives, the same way, the equation of a recursive function on 0..n. Then:
  the upper byte of the CRC, fed to it, leaves its lower byte shifted up (`CrcUpperByte`, eight
  rounds of `CrcBit`), so the CRC fed with itself is 0 (`CrcOfCrc`, `CrcAppended`); the sum of
  words of a concatenation is the sum of the sums if the first part has even length
  (`WordSumConcat`), so four bytes a round and two a round agree (`SameSum`); a sum and its
  complement cancel out under end-around carry (`ComplementCancels`); the frame is as long as the
  escapes so far say (`TranslatedGrows`, `FrameBytes`).
* `AudioInv`. For each thread the places at which it holds each lock (`LocksHeld`), from which the
  order follows in which they are waited for (`adev->lock`, `in->lock`, `out->lock`); and what
  is true of the output, the input, the call and the routes at each place. With no active output no
  device is open, except at the place between the two steps of the standby.
* `ChargeInv`. What was seen of each supply is true or an event is still to be read, at each
  of the places between the two files.

Assumptions, all checked by TLC on the runs' values:

* `NvAssumption`: sizes positive, bounds natural, types in 0..3.
* `RingAssumption`: the index range is a multiple of the number of blocks, as 2^32 is of 32.
  `WriterAssumption`: one writer, or writers that never wait. The HAL has one, the
  capture thread, and it calls `GetBuf(false)` (`FMHalSource.cpp:213`). Without it `NeverOverfull`
  is false, since `GetBuf` does not look again after its wait.
* `FMAssumption`: finitely many sources, fewer than `openCount` can count.
* `ModemdAssumption`: finitely many descriptors and clients; without the modem reset property
  there is no reset client.
* `ControlAssumption`: sizes are those of the code's constants: the FDL is a whole number of its
  packets, an image is smaller than the square of `HS_PACKET_SIZE` (60 KB).
* `PacketAssumption`: a body is at most `HS_PACKET_SIZE` bytes, the largest packet the boot sends;
  the length field has 16 bits and the theorems about sums would be false of a longer one.
* `AudioAssumption`, `VChargeAssumption`: sets of routes and devices of the code, natural bounds.

Only model-checked:

* Liveness: `SyncAnswered`, `GuestRestarted`, `DestructorEnds`, `StartedBecomesReady`,
  `OverflowEnds`, `DumpListens`, `RecoversFromAssert`, `BootEnds`, `EventsServed`. Fairness and
  ENABLED are outside the prover.

## 5. Not modelled

* `nvm_daemon`: the eMMC variant (not built for this board), the contents of images.
* FM HAL: a `pcm_open` that fails (the code goes on with a null pointer), the audio itself, waits
  of the ring that end without a signal.
* Modem boot: the contents of images, and whether a torn NV image is refused: neither
  side locks `/fixnv/fixnv.bin`, and what the FDL verifies is decided in the modem.
* Audio HAL: opening and closing of streams, `Mute_Codec`, the line-in build, and a restart
  of mediaserver during a call, against which the code has no defence (`call_start` is
  then 0 and `HAL_CLOSE` does nothing), and what `pcm_get_error` does with the null pointer
  `in_read` gives it when the device could not be opened (`audio_hw.c:1851`).
* Engineering mode: the AT bridge and the diagnosis commands are blocking exchanges of one
  request and one answer; what is concurrent there, the modem reset thread, is in `Modemd`.
* slog: the threads that copy a device to a file, but for the modem's; that one and the one that
  listens to `modemd` are in `Modemd`.
* Camera HAL: nearly all of its lines are register tables and image arithmetic, and its
  control is in callbacks of binary libraries whose behaviour is not in the source.
* gralloc, hwcomposer: allocation and overlays happen in drivers that are not in the source.
* charge: its threads share a flag and a pipe in which only the last command counts, and every
  end of the program is a reboot. alarm and the tools are short sequential programs.
* Sensor tables, signal processing, the mali driver, Lua and the Java screens are left out
  for good. They are most of the repository's 300 000 lines, so the share of it that the
  models cover stays small.

## 6. Plan

The control of the daemons and of the audio and FM libraries is modelled, and its safety is
proved. What is left:

1. Proofs: action properties that follow from the invariants (`acked` never goes back, a boot
   never goes back to an image it has loaded); that the CRC of a packet of any length differs
   when one byte of it does.
2. Further models: opening and closing of audio streams, rotation and control socket of
   slog, a composition of `NvItem` and `ModemBoot` for the NV file that both use.
