------------------------------ MODULE ModemBoot ------------------------------
(***************************************************************************)
(* modem_boot() of src/common/apps/modem_control/modem_boot.c with the     *)
(* messages of packet.c: reset the modem, shake hands with its boot ROM    *)
(* over the UART, load and start the FDL, shake hands with it, switch to   *)
(* SPI, download the images and start them.                                *)
(*                                                                         *)
(* A message is one action: written, and answered by the modem with        *)
(* BSL_REP_ACK, with type 0 or with something else.  None of the reads has *)
(* a timeout, so a message to a modem that does not answer never ends.     *)
(* The modem is external: its boot ROM answers on the UART after power on, *)
(* the FDL after it was started, nobody answers once the images run.       *)
(* Bytes of a packet and of a frame are in Packet.  The module gives the   *)
(* steps of one modem_boot() after the other; ModemControl composes them   *)
(* with the program that calls it and states the properties.               *)
(*                                                                         *)
(* Bounds: MaxFaults things that go wrong (a device that cannot be opened, *)
(* an answer other than ACK, a slow or dead modem).                        *)
(***************************************************************************)
EXTENDS Integers, FiniteSets

CONSTANTS
  ImageCount,  \* images after the FDL (modem_images_count - 1)
  ImageSize,   \* 0 .. ImageCount -> image_size, of the FDL (0) and the images
  FDL_PACKET_SIZE, HS_PACKET_SIZE,
  UART_TIMEOUT,
  NvImages,    \* images that may be missing
  MaxFaults

\* What the code's tables and sizes satisfy.
BootConstants ==
  /\ ImageCount \in Nat /\ ImageSize \in [0 .. ImageCount -> Nat \ {0}]
  /\ FDL_PACKET_SIZE \in Nat \ {0} /\ HS_PACKET_SIZE \in Nat \ {0}
  /\ ImageSize[0] % FDL_PACKET_SIZE = 0  \* 0x3000 and 256: "while(size)" ends
  /\ \A k \in 1 .. ImageCount : ImageSize[k] < HS_PACKET_SIZE * HS_PACKET_SIZE
  /\ UART_TIMEOUT \in Nat \ {0} /\ NvImages \subseteq 1 .. ImageCount /\ MaxFaults \in Nat

VARIABLES
  bpc,            \* where modem_boot is
  boot_status, need_shutdown, modem_connect,
  img,            \* index of the image being loaded, 0 for the FDL
  i, size, count, \* i, image_size and count of download_image; size of the FDL
  ret,
  uart, dloader,  \* open descriptors of the UART and of /dev/dloader
  mode,           \* the modem: "off", "rom", "fdl", "spi", "app" or "dead"
  announced, received,  \* packets the modem was told of, and has got
  got,            \* images the modem has got since power on
  skipped,        \* images that could not be opened in this attempt
  refused,        \* a message was not acknowledged since power on
  confused,       \* the modem got a message out of order
  faults

bootVars == <<bpc, boot_status, need_shutdown, modem_connect, img, i, size, count, ret>>
deviceVars == <<uart, dloader>>
modemVars == <<mode, announced, received, got, refused, confused>>
vars == <<bootVars, deviceVars, modemVars, skipped, faults>>

Images == 1 .. ImageCount
None == -1
DL_SUCCESS == 0
DL_FAILURE == -1

BootInit(start, modemMode) ==
  /\ bpc = start /\ boot_status = 0 /\ need_shutdown = FALSE /\ modem_connect = 0
  /\ img = 0 /\ i = 0 /\ size = 0 /\ count = 0 /\ ret = 0
  /\ uart = 0 /\ dloader = 0
  /\ mode = modemMode /\ announced = None /\ received = 0 /\ got = {}
  /\ refused = FALSE /\ confused = FALSE
  /\ skipped = {} /\ faults = 0

Fault == faults < MaxFaults /\ faults' = faults + 1
Goto(label) == bpc' = label

-----------------------------------------------------------------------------
(* Opening the UART and reset_modem.                                       *)

OpenUart ==
  /\ bpc \in {"open", "reopen"}
  /\ \/ /\ uart' = uart + 1 /\ UNCHANGED faults
        /\ IF bpc = "open"
           THEN /\ Goto("reset") /\ boot_status' = 0 /\ modem_connect' = UART_TIMEOUT
                /\ skipped' = {}
           ELSE Goto("switch") /\ UNCHANGED <<boot_status, modem_connect, skipped>>
        /\ UNCHANGED ret
     \/ /\ Fault /\ ret' = -1 /\ Goto("returned")
        /\ UNCHANGED <<uart, boot_status, modem_connect, skipped>>
  /\ UNCHANGED <<need_shutdown, img, i, size, count, dloader, modemVars>>

\* Power on from off starts the boot ROM; a modem that has power keeps running.
PowerOn(cycled) ==
  IF cycled \/ mode = "off"
  THEN /\ mode' = "rom" /\ announced' = None /\ received' = 0 /\ got' = {}
       /\ refused' = FALSE /\ confused' = FALSE
  ELSE UNCHANGED modemVars

\* Mutant of ResetModem: the power is never cut.
ResetModem_NoShutdown ==
  /\ bpc = "reset" /\ Goto("wait55")
  /\ \/ PowerOn(FALSE) /\ need_shutdown' = TRUE /\ UNCHANGED faults
     \/ Fault /\ UNCHANGED <<modemVars, need_shutdown>>
  /\ UNCHANGED <<boot_status, modem_connect, img, i, size, count, ret, deviceVars, skipped>>

\* reset_modem: the power is cut first, but for the first time.
ResetModem ==
  /\ bpc = "reset" /\ Goto("wait55")
  /\ \/ PowerOn(need_shutdown) /\ need_shutdown' = TRUE /\ UNCHANGED faults
     \/ Fault /\ UNCHANGED <<modemVars, need_shutdown>>
  /\ UNCHANGED <<boot_status, modem_connect, img, i, size, count, ret, deviceVars, skipped>>

-----------------------------------------------------------------------------
(* try_to_connect_modem.  With boot_status 0 the modem is reset whenever    *)
(* modem_connect reaches UART_TIMEOUT; with 1 it never is.                 *)

unchangedConnect == <<need_shutdown, img, i, size, count, ret, deviceVars,
                      modemVars, skipped>>

\* Top of the loop.
TryAgain(c) ==
  /\ modem_connect' = c
  /\ Goto(IF c >= UART_TIMEOUT /\ boot_status = 0 THEN "reset" ELSE "poll")

\* 0x55 comes within 2000000 reads, or the loop starts over.
Wait55 ==
  /\ bpc = "wait55" /\ mode = "rom"
  /\ modem_connect' = 0 /\ Goto("poll")
  /\ UNCHANGED <<boot_status, unchangedConnect, faults>>
Wait55Ends ==
  /\ bpc = "wait55"
  /\ IF mode = "rom" THEN Fault ELSE UNCHANGED faults
  /\ TryAgain(modem_connect)
  /\ UNCHANGED <<boot_status, unchangedConnect>>

\* One round: send 0x7E and read one byte.
PollVersion ==
  /\ bpc = "poll" /\ mode \in {"rom", "fdl"}
  /\ modem_connect' = 0 /\ Goto("version")
  /\ UNCHANGED <<boot_status, unchangedConnect, faults>>
Poll55 ==
  /\ bpc = "poll" /\ mode = "rom" /\ Fault
  /\ TryAgain(modem_connect + 44)
  /\ UNCHANGED <<boot_status, unchangedConnect>>
\* Nothing comes.  The int is cut off at UART_TIMEOUT, above which it only
\* matters that it is above.
PollNothing ==
  /\ bpc = "poll" /\ IF mode \in {"rom", "fdl"} THEN Fault ELSE UNCHANGED faults
  /\ TryAgain(IF modem_connect + 2 > UART_TIMEOUT THEN UART_TIMEOUT ELSE modem_connect + 2)
  /\ UNCHANGED <<boot_status, unchangedConnect>>

\* The rest of the version string up to its 0x7E; modem_boot then sets
\* boot_status.
VersionEnd ==
  /\ bpc = "version" /\ mode \in {"rom", "fdl"}
  /\ modem_connect' = 1 /\ boot_status' = 1
  /\ Goto(IF boot_status = 0 THEN "connect" ELSE "connected")
  /\ UNCHANGED <<unchangedConnect, faults>>
VersionNothing ==
  /\ bpc = "version" /\ IF mode \in {"rom", "fdl"} THEN Fault ELSE UNCHANGED faults
  /\ IF modem_connect + 2 < UART_TIMEOUT
     THEN modem_connect' = modem_connect + 2 /\ Goto("version")
     ELSE TryAgain(UART_TIMEOUT)
  /\ UNCHANGED <<boot_status, unchangedConnect>>

Connect == Wait55 \/ Wait55Ends \/ PollVersion \/ Poll55 \/ PollNothing \/ VersionEnd
           \/ VersionNothing

-----------------------------------------------------------------------------
(* Messages.                                                               *)

unanswered == <<mode, announced, received, got, confused>>

\* send_*_message: either the modem takes the message and acknowledges it, or
\* it refuses it, or it takes it and answers with type 0 where only ACK counts
\* (connect and switch), or, on SPI, write() fails and no answer is read (on
\* the UART the write is repeated).
Send(listening, effect, zeroIsAck) ==
  \/ /\ mode \in listening /\ effect /\ ret' = DL_SUCCESS /\ UNCHANGED <<refused, faults>>
  \/ /\ mode \in listening /\ Fault /\ ret' = DL_FAILURE
     /\ refused' = TRUE /\ UNCHANGED unanswered
  \/ /\ mode \in listening /\ ~zeroIsAck /\ Fault /\ effect /\ ret' = DL_FAILURE
     /\ UNCHANGED refused
  \/ /\ zeroIsAck /\ img > 0 /\ Fault /\ ret' = DL_FAILURE
     /\ refused' = TRUE /\ UNCHANGED unanswered

Speaks == IF img = 0 THEN {"rom"} ELSE {"spi"}

Nothing == UNCHANGED unanswered
GetStart(k) ==
  /\ announced' = k /\ received' = 0
  /\ confused' = (confused \/ announced # None) /\ UNCHANGED <<mode, got>>
GetData ==
  /\ received' = received + 1
  /\ confused' = (confused \/ announced = None) /\ UNCHANGED <<mode, announced, got>>
GetEnd ==
  /\ got' = got \cup {img} /\ announced' = None
  /\ confused' = (confused \/ announced # received) /\ UNCHANGED <<mode, received>>
GetExec ==
  /\ mode' = IF img = 0 THEN "fdl" ELSE "app"
  /\ confused' = (confused \/ announced # None) /\ UNCHANGED <<announced, received, got>>

unchangedSend == <<boot_status, need_shutdown, modem_connect, deviceVars, skipped>>

\* send_connect_message; on anything but ACK the handshake starts over.
SendConnect ==
  /\ bpc = "connect"
  /\ Send({"rom"}, Nothing, FALSE)
  /\ IF ret' < 0
     THEN boot_status' = 0 /\ modem_connect' = UART_TIMEOUT /\ Goto("reset")
     ELSE Goto("loadfdl") /\ UNCHANGED <<boot_status, modem_connect>>
  /\ UNCHANGED <<need_shutdown, img, i, size, count, deviceVars, skipped>>

\* download_fdl up to its first message.  load_fdl2memory may fail, and a read()
\* that gives nothing before the FDL is complete is repeated for ever.
LoadFdl ==
  /\ bpc = "loadfdl"
  /\ img' = 0 /\ size' = ImageSize[0]
  /\ \/ Goto("start") /\ UNCHANGED <<ret, faults>>
     \/ Fault /\ ret' = DL_FAILURE /\ Goto("fail")
     \/ Fault /\ UNCHANGED ret /\ Goto("fdlread")
  /\ UNCHANGED <<i, count, unchangedSend, modemVars>>

\* Number of packets: (image_size + HS_PACKET_SIZE - 1) / HS_PACKET_SIZE.
Packets(k) ==
  IF k = 0 THEN ImageSize[0] \div FDL_PACKET_SIZE
  ELSE (ImageSize[k] + HS_PACKET_SIZE - 1) \div HS_PACKET_SIZE

\* The start message names a size: count whole packets, or the FDL's size.
SendStart ==
  /\ bpc = "start"
  /\ Send(Speaks, GetStart(Packets(img)), TRUE)
  /\ count' = Packets(img) /\ i' = 0
  /\ Goto(IF ret' # DL_SUCCESS THEN "fail" ELSE "data")
  /\ UNCHANGED <<img, size, unchangedSend>>

\* Mutant of SendData: a packet that is not filled up is not counted.
SendData_OneMore ==
  /\ bpc = "data"
  /\ Send(Speaks, GetData, TRUE)
  /\ IF img = 0
     THEN size' = size - FDL_PACKET_SIZE /\ UNCHANGED i
     ELSE IF size < HS_PACKET_SIZE
     THEN size' = 0 /\ i' = HS_PACKET_SIZE + 1
     ELSE size' = size - HS_PACKET_SIZE /\ UNCHANGED i
  /\ Goto(IF ret' # DL_SUCCESS THEN "fail"
          ELSE IF IF img = 0 THEN size' # 0 ELSE i' < count THEN "data" ELSE "end")
  /\ UNCHANGED <<img, count, unchangedSend>>

\* One packet.  Filling up the last one with 0xFF runs the loop's own variable
\* i up to HS_PACKET_SIZE.
SendData ==
  /\ bpc = "data"
  /\ Send(Speaks, GetData, TRUE)
  /\ IF img = 0
     THEN size' = size - FDL_PACKET_SIZE /\ UNCHANGED i
     ELSE IF size < HS_PACKET_SIZE
     THEN size' = 0 /\ i' = HS_PACKET_SIZE + 1
     ELSE size' = size - HS_PACKET_SIZE /\ i' = i + 1
  /\ Goto(IF ret' # DL_SUCCESS THEN "fail"
          ELSE IF IF img = 0 THEN size' # 0 ELSE i' < count THEN "data" ELSE "end")
  /\ UNCHANGED <<img, count, unchangedSend>>

\* Mutant of SendEnd: the answer to the end message is not looked at.
SendEnd_Unchecked ==
  /\ bpc = "end"
  /\ Send(Speaks, GetEnd, TRUE)
  /\ IF img = 0 THEN Goto("exec") /\ UNCHANGED img
     ELSE Goto("image") /\ img' = img + 1
  /\ UNCHANGED <<i, size, count, unchangedSend>>

\* The FDL is started, an image is followed by the next one.
SendEnd ==
  /\ bpc = "end"
  /\ Send(Speaks, GetEnd, TRUE)
  /\ IF ret' # DL_SUCCESS THEN Goto("fail") /\ UNCHANGED img
     ELSE IF img = 0 THEN Goto("exec") /\ UNCHANGED img
     ELSE Goto("image") /\ img' = img + 1
  /\ UNCHANGED <<i, size, count, unchangedSend>>

\* Start of the FDL: download_fdl returns what send_exec_message does.
SendExecFdl ==
  /\ bpc = "exec" /\ img = 0
  /\ Send(Speaks, GetExec, TRUE)
  /\ Goto(IF ret' # DL_SUCCESS THEN "fail" ELSE "poll")
  /\ modem_connect' = UART_TIMEOUT
  /\ UNCHANGED <<img, i, size, count, boot_status, need_shutdown, deviceVars, skipped>>

\* Mutant of Fail: the UART stays open on the way back.
Fail_LeavesUart ==
  /\ bpc = "fail"
  /\ Goto(IF img = 0 THEN "open" ELSE "execall") /\ UNCHANGED uart
  /\ UNCHANGED <<boot_status, need_shutdown, modem_connect, img, i, size, count, ret, dloader,
                 modemVars, skipped, faults>>

\* A failure of the FDL closes the UART and reboots; a failure of an image
\* ends download_images, after the exec message.
Fail ==
  /\ bpc = "fail"
  /\ IF img = 0 THEN Goto("open") /\ uart' = uart - 1 ELSE Goto("execall") /\ UNCHANGED uart
  /\ UNCHANGED <<boot_status, need_shutdown, modem_connect, img, i, size, count, ret, dloader,
                 modemVars, skipped, faults>>

-----------------------------------------------------------------------------
(* The FDL answers: change to SPI, open /dev/dloader, download the images.  *)

Connected ==
  /\ bpc = "connected"
  /\ uart' = uart - 1 /\ Goto("reopen")
  /\ UNCHANGED <<boot_status, need_shutdown, modem_connect, img, i, size, count, ret, dloader,
                 modemVars, skipped, faults>>

\* uart_send_change_spi_mode_message; its result is not looked at.
SendSwitch ==
  /\ bpc = "switch" /\ Goto("dloader")
  /\ Send({"fdl"},
          mode' = "spi" /\ UNCHANGED <<announced, received, got, confused>>, FALSE)
  /\ UNCHANGED <<img, i, size, count, unchangedSend>>

OpenDloader ==
  /\ bpc = "dloader"
  /\ \/ dloader' = dloader + 1 /\ Goto("image") /\ img' = 1 /\ UNCHANGED faults
     \/ Fault /\ Goto("dloaderloop") /\ UNCHANGED <<img, dloader>>
  /\ UNCHANGED <<boot_status, need_shutdown, modem_connect, i, size, count, ret, uart,
                 modemVars, skipped>>

\* The loop ends on descriptor 0 only, which is in use: each round opens the
\* device once more, until there are no descriptors (here: two).
DloaderLoop ==
  /\ bpc = "dloaderloop" /\ dloader < 2
  /\ dloader' = dloader + 1
  /\ UNCHANGED <<bootVars, uart, modemVars, skipped, faults>>

\* download_image up to its first message: a missing image is no failure.  ret
\* is not initialised: without images it can be anything.
NextImage ==
  /\ bpc = "image"
  /\ \/ /\ img > ImageCount /\ Goto("execall")
        /\ IF ImageCount = 0 THEN ret' \in {DL_SUCCESS, DL_FAILURE} ELSE UNCHANGED ret
        /\ UNCHANGED <<img, size, skipped>>
     \/ /\ img \in NvImages
        /\ skipped' = skipped \cup {img} /\ img' = img + 1 /\ ret' = DL_SUCCESS
        /\ UNCHANGED <<bpc, size>>
     \/ /\ img \in Images /\ Goto("start") /\ size' = ImageSize[img]
        /\ UNCHANGED <<img, ret, skipped>>
  /\ UNCHANGED <<boot_status, need_shutdown, modem_connect, i, count, deviceVars, modemVars,
                 faults>>

\* The exec message, whatever has happened before; its result is ignored and
\* download_images returns that of the images.
SendExecAll ==
  /\ bpc = "execall"
  /\ \/ mode = "spi" /\ GetExec /\ UNCHANGED <<refused, faults>>
     \/ Fault /\ refused' = TRUE /\ UNCHANGED unanswered
  /\ uart' = uart - 1 /\ dloader' = dloader - 1
  /\ Goto(IF ret = DL_FAILURE THEN "open" ELSE "returned")
  /\ UNCHANGED <<boot_status, need_shutdown, modem_connect, img, i, size, count, ret, skipped>>

\* The modem stops for good; only a power cycle helps.
ModemDies ==
  /\ mode \in {"rom", "fdl", "spi"} /\ Fault /\ mode' = "dead"
  /\ UNCHANGED <<bootVars, deviceVars, announced, received, got, refused, confused, skipped>>

-----------------------------------------------------------------------------
Boot ==
  \/ OpenUart \/ ResetModem \/ Connect
  \/ SendConnect \/ LoadFdl \/ SendStart \/ SendData \/ SendEnd \/ SendExecFdl \/ Fail
  \/ Connected \/ SendSwitch \/ OpenDloader \/ DloaderLoop \/ NextImage \/ SendExecAll

-----------------------------------------------------------------------------
Labels == {"open", "reset", "wait55", "poll", "version", "connect", "loadfdl", "start", "data",
           "end", "exec", "fail", "connected", "reopen", "switch", "dloader", "dloaderloop",
           "image", "execall", "returned", "idle", "fdlread"}
Modes == {"off", "rom", "fdl", "spi", "app", "dead"}

BootPlacesOK ==
  /\ bpc \in Labels /\ mode \in Modes /\ got \subseteq 0 .. ImageCount /\ skipped \subseteq Images
BootFlagsOK == need_shutdown \in BOOLEAN /\ refused \in BOOLEAN /\ confused \in BOOLEAN
BootNumbersOK ==
  /\ boot_status \in {0, 1} /\ modem_connect \in Nat /\ img \in 0 .. ImageCount + 1
  /\ i \in Nat /\ size \in Nat /\ count \in Nat /\ ret \in {DL_SUCCESS, DL_FAILURE}
  /\ uart \in {0, 1} /\ dloader \in 0 .. 2
  /\ announced \in Nat \cup {None} /\ received \in Nat /\ faults \in 0 .. MaxFaults
BootTypeOK == BootPlacesOK /\ BootFlagsOK /\ BootNumbersOK

\* Nothing leads out of these: the loops on /dev/dloader and on an FDL that is
\* too short or cannot be read, a modem that dies after the handshake with its
\* ROM, one that refused to change to SPI.
Hopeless ==
  \/ bpc \in {"dloaderloop", "fdlread"}
  \/ boot_status = 1 /\ mode = "dead" /\ bpc \notin {"idle", "open", "returned"}
  \/ mode = "fdl" /\ bpc \in {"start", "data", "end", "execall"}

-----------------------------------------------------------------------------
(* The inductive invariant of modem_boot() that the proofs of              *)
(* ModemControlProofs use.                                                 *)

\* An image other than the FDL is being loaded.
LoadsImage == bpc \in {"start", "data", "end", "fail"} /\ img > 0

\* Which image is loaded where; once the modem runs the FDL it is not reset.
InOrder ==
  /\ bpc \in {"reset", "wait55"} => boot_status = 0
  /\ bpc = "image" => img > 0
  /\ bpc \in {"start", "data", "end", "fail"} => img <= ImageCount
  /\ bpc = "exec" => img = 0

\* The descriptors that are open.
Opened ==
  /\ uart = IF bpc \in {"idle", "open", "reopen", "returned"} THEN 0 ELSE 1
  /\ bpc # "dloaderloop" =>
       dloader = IF bpc \in {"image", "execall"} \/ LoadsImage THEN 1 ELSE 0

\* What the modem has got: the FDL from its start on, and all images before
\* the one being loaded.
FdlFirst ==
  \/ bpc \in {"exec", "connected", "reopen", "switch", "dloader", "dloaderloop", "image"}
  \/ bpc \in {"poll", "version"} /\ boot_status = 1
  \/ bpc \in {"execall", "returned"} /\ ret = DL_SUCCESS
  \/ LoadsImage
  => 0 \in got

ImagesBefore ==
  /\ bpc \in {"image", "start", "data", "end"} =>
       \A m \in Images : m < img => m \in got \cup skipped
  /\ bpc = "fail" => ret = DL_FAILURE
  /\ bpc \in {"execall", "returned"} /\ ret = DL_SUCCESS => Images \subseteq got \cup skipped

\* Where download_fdl and download_image are in their loops: what is left of
\* the image, and how many packets the modem has got of those announced.
LeftOfFdl(n) ==
  /\ n > 0 /\ size = FDL_PACKET_SIZE * n
  /\ ~refused => announced = Packets(0) /\ received + n = announced
LeftOfImage ==
  /\ count = Packets(img) /\ i < count /\ size = ImageSize[img] - HS_PACKET_SIZE * i
  /\ ~refused => announced = count /\ received = i
Counting ==
  /\ bpc = "start" => size = ImageSize[img]
  /\ bpc = "data" => IF img = 0 THEN \E n \in 1 .. Packets(0) : LeftOfFdl(n) ELSE LeftOfImage

\* A modem that has refused nothing is between images, or has got all packets.
Settled ==
  ~refused => /\ ~confused
              /\ bpc = "end" => announced = received
              /\ bpc \notin {"data", "end"} => announced = None

BootInv ==
  /\ BootTypeOK /\ InOrder /\ Opened /\ FdlFirst /\ ImagesBefore /\ Counting /\ Settled
=============================================================================
