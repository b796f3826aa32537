---------------------------- MODULE ModemControl ----------------------------
(***************************************************************************)
(* modem_control (src/common/apps/modem_control/main.c): the loop that     *)
(* reads the lines of the modem from .../modem_interface/state, keeps      *)
(* modem_state, boots the modem with modem_boot() (ModemBoot, composed     *)
(* here), tells its clients and stops and resumes sprd_monitor with        *)
(* SIGUSR1 and SIGUSR2.  A thread accepts the clients.                     *)
(*                                                                         *)
(* A message is the pair (alive, reset) of bit 0 and the rest of the       *)
(* number in the file.  The driver behind the file is external: a read     *)
(* gives the lines as they are.  A client that has gone stays in the       *)
(* table; SIGPIPE is not ignored, so the next write to it ends the program *)
(* (no init script restarts it).                                           *)
(*                                                                         *)
(* Bounds: MaxAsserts asserts or resets asked for, MaxFaults of ModemBoot. *)
(***************************************************************************)
EXTENDS Integers, FiniteSets

CONSTANTS
  MAX_CLIENT_NUM, MaxAsserts,
  ImageCount, ImageSize, FDL_PACKET_SIZE, HS_PACKET_SIZE, UART_TIMEOUT, NvImages, MaxFaults


VARIABLES
  modem_state, flash_less_flag,
  client_fd,     \* entry -> "unset", "free", "live" or "dead"
  said,          \* the last broadcast: "nothing", "Alive" or "Assert"
  killed,        \* the process has ended, by SIGPIPE or exit(-1)
  monitor,       \* sprd_monitor: "absent", "watching" or "paused"
  alive, reset,  \* the lines of the modem
  asserts,
  bpc, boot_status, need_shutdown, modem_connect, img, i, size, count, ret, uart, dloader,
  mode, announced, received, got, skipped, refused, confused, faults

B == INSTANCE ModemBoot

ASSUME ControlAssumption == MAX_CLIENT_NUM \in Nat /\ MaxAsserts \in Nat /\ B!BootConstants

controlVars == <<modem_state, flash_less_flag, client_fd, said, killed, monitor>>
lineVars == <<alive, reset, asserts>>
bootRest == <<boot_status, need_shutdown, modem_connect, img, i, size, count, ret, uart, dloader,
              mode, announced, received, got, skipped, refused, confused, faults>>
vars == <<controlVars, lineVars, bpc, bootRest>>

Entries == 1 .. MAX_CLIENT_NUM

\* main() up to its loop: not charging, the state file exists.
Init ==
  /\ modem_state = "INIT" /\ flash_less_flag = "unknown"
  /\ client_fd = [e \in Entries |-> "unset"] /\ said = "nothing" /\ killed = FALSE
  /\ monitor = "watching" /\ reset \in BOOLEAN /\ asserts = 0
  /\ \E m \in {"off", "app"} : B!BootInit("idle", m) /\ alive \in {FALSE, m = "app"}

-----------------------------------------------------------------------------
(* The accept thread and the clients.                                      *)

\* modemd_listenaccept_thread starts: it sets the table, 0 till then, and opens
\* its socket; without it exit(-1) ends the whole process, wherever main() is.
Listen ==
  /\ ~killed /\ client_fd = [e \in Entries |-> "unset"]
  /\ client_fd' = [e \in Entries |-> "free"]
  /\ \/ UNCHANGED killed
     \/ killed' = TRUE
  /\ UNCHANGED <<modem_state, flash_less_flag, said, monitor, lineVars, bpc, bootRest>>

\* A client comes; without a free entry its connection is forgotten.  An
\* accept() that fails is repeated.
AcceptClient ==
  /\ ~killed
  /\ \E e \in Entries :
       /\ client_fd[e] = "free" /\ \A d \in Entries : d < e => client_fd[d] # "free"
       /\ client_fd' = [client_fd EXCEPT ![e] = "live"]
  /\ UNCHANGED <<modem_state, flash_less_flag, said, killed, monitor, lineVars, bpc, bootRest>>

ClientGoes ==
  /\ \E e \in Entries : client_fd[e] = "live" /\ client_fd' = [client_fd EXCEPT ![e] = "dead"]
  /\ UNCHANGED <<modem_state, flash_less_flag, said, killed, monitor, lineVars, bpc, bootRest>>

\* broadcast_modem_state.
Broadcast(what) == said' = what /\ killed' = \E e \in Entries : client_fd[e] = "dead"
Silent == UNCHANGED <<said, killed>>

-----------------------------------------------------------------------------
(* process_modem_state_message.                                            *)

\* Whether this is the first time the modem is alive.
first_alive == alive /\ flash_less_flag \in {"unknown", "flashless"}

CheckFlash ==
  flash_less_flag' =
    CASE flash_less_flag = "unknown" -> IF alive THEN "nand" ELSE "flashless"
      [] flash_less_flag = "flashless" -> IF alive THEN "flashless alive" ELSE "flashless"
      [] OTHER -> flash_less_flag

Signal(to) == monitor' = IF monitor = "absent" THEN monitor ELSE to
Enter(s) == modem_state' = s /\ bpc' = IF s = "BOOT" THEN "open" ELSE bpc

Reads(s) == /\ ~killed /\ modem_state = s /\ CheckFlash
            /\ UNCHANGED <<client_fd, lineVars, bootRest>>

\* Mutant of BecomesAlive: the monitor is resumed in state INIT only.
BecomesAlive_NoSignal ==
  /\ Reads(modem_state) /\ modem_state \in {"INIT", "BOOTCOMP"} /\ ~reset /\ alive
  /\ Enter("ALIVE")
  /\ IF modem_state = "BOOTCOMP" THEN Broadcast("Alive") ELSE Silent
  /\ IF first_alive \/ killed' \/ modem_state = "BOOTCOMP"
     THEN UNCHANGED monitor ELSE Signal("watching")

\* Mutant of BecomesAlive: nothing is said after a boot.
BecomesAlive_Quiet ==
  /\ Reads(modem_state) /\ modem_state \in {"INIT", "BOOTCOMP"} /\ ~reset /\ alive
  /\ Enter("ALIVE") /\ Silent
  /\ IF first_alive \/ killed' THEN UNCHANGED monitor ELSE Signal("watching")

\* From INIT or BOOTCOMP to ALIVE; a broadcast that ends the process comes
\* before SIGUSR2, which is then not sent.
BecomesAlive ==
  /\ Reads(modem_state) /\ modem_state \in {"INIT", "BOOTCOMP"} /\ ~reset /\ alive
  /\ Enter("ALIVE")
  /\ IF modem_state = "BOOTCOMP" THEN Broadcast("Alive") ELSE Silent
  /\ IF first_alive \/ killed' THEN UNCHANGED monitor ELSE Signal("watching")

\* INIT: a modem that is down is booted.
FirstBoot ==
  /\ Reads("INIT") /\ ~reset /\ ~alive
  /\ Enter("BOOT") /\ Silent /\ UNCHANGED monitor

\* Mutant of AssertReset: only a modem that is alive may ask for a reset.
AssertReset_Alive ==
  /\ Reads("ASSERT") /\ reset /\ alive
  /\ Signal("paused") /\ Enter("BOOT") /\ Silent

\* ASSERT: the modem asks for a reset.
AssertReset ==
  /\ Reads("ASSERT") /\ reset
  /\ Signal("paused") /\ Enter("BOOT") /\ Silent

\* ALIVE: an assert is told to the clients (with what the modem has to say on
\* the UART, or without); if the reset line is up the boot follows at once,
\* unless the broadcast has ended the process.
Asserted ==
  /\ Reads("ALIVE") /\ ~alive
  /\ Broadcast("Assert") /\ UNCHANGED monitor
  /\ Enter(IF reset /\ ~killed' THEN "BOOT" ELSE "ASSERT")

AliveReset ==
  /\ Reads("ALIVE") /\ alive /\ reset
  /\ Enter("BOOT") /\ Silent /\ UNCHANGED monitor

\* Messages that change nothing but flash_less_flag.
Ignored ==
  /\ Reads(modem_state)
  /\ \/ modem_state = "INIT" /\ reset
     \/ modem_state = "BOOTCOMP" /\ (reset \/ ~alive)
     \/ modem_state = "ASSERT" /\ ~reset
     \/ modem_state = "ALIVE" /\ alive /\ ~reset
  /\ UNCHANGED <<modem_state, bpc, monitor>> /\ Silent

\* main(): modem_boot() has returned, whatever it returned.
BootReturned ==
  /\ ~killed /\ modem_state = "BOOT" /\ bpc = "returned"
  /\ modem_state' = "BOOTCOMP" /\ bpc' = "idle"
  /\ UNCHANGED <<flash_less_flag, client_fd, said, killed, monitor, lineVars, bootRest>>

Process == BecomesAlive \/ FirstBoot \/ AssertReset \/ Asserted \/ AliveReset

\* A step of modem_boot().  Power on takes the lines down.
BootStep ==
  /\ ~killed /\ modem_state = "BOOT" /\ B!Boot
  /\ IF mode' = "rom" /\ bpc = "reset" THEN alive' = FALSE /\ reset' = FALSE
     ELSE UNCHANGED <<alive, reset>>
  /\ UNCHANGED <<controlVars, asserts>>

-----------------------------------------------------------------------------
(* The modem and sprd_monitor.                                             *)

unchangedBoot == <<bpc, boot_status, need_shutdown, modem_connect, img, i, size, count, ret,
                   uart, dloader, announced, received, got, skipped, refused, confused>>

\* Software that was started with all its images comes up; without them it
\* may not.
ComesUp ==
  /\ mode = "app" /\ ~alive
  /\ alive' = TRUE /\ reset' = FALSE
  /\ UNCHANGED <<controlVars, asserts, bpc, bootRest>>

\* An assert: the modem is dead until the next power cycle.
Asserts ==
  /\ mode = "app" /\ alive /\ asserts < MaxAsserts
  /\ asserts' = asserts + 1 /\ mode' = "dead" /\ alive' = FALSE
  /\ UNCHANGED <<controlVars, reset, unchangedBoot, faults>>

\* ... and it asks for the reset.
AsksForReset ==
  /\ mode = "dead" /\ asserts > 0 /\ ~reset /\ reset' = TRUE
  /\ UNCHANGED <<controlVars, alive, asserts, bpc, bootRest>>

\* A modem that is alive may ask for one as well: ALIVE has a case for it.
AsksWhileAlive ==
  /\ mode = "app" /\ alive /\ ~reset /\ asserts < MaxAsserts
  /\ asserts' = asserts + 1 /\ reset' = TRUE
  /\ UNCHANGED <<controlVars, alive, bpc, bootRest>>

DiesInBoot == B!ModemDies /\ UNCHANGED <<controlVars, lineVars>>

MonitorRestarts ==
  /\ monitor' = IF monitor = "absent" THEN "watching" ELSE "absent"
  /\ UNCHANGED <<modem_state, flash_less_flag, client_fd, said, killed, lineVars, bpc, bootRest>>

Environment ==
  Listen \/ AcceptClient \/ ClientGoes \/ Asserts \/ AsksWhileAlive \/ DiesInBoot \/ MonitorRestarts

Next == Process \/ Ignored \/ BootReturned \/ BootStep \/ ComesUp \/ AsksForReset \/ Environment

Spec == Init /\ [][Next]_vars

\* The loop and modem_boot() run; a modem that was started comes up, and one
\* that has asserted asks for a reset.
FairSpec ==
  /\ Spec
  /\ WF_vars(Process) /\ WF_vars(BootReturned) /\ WF_vars(BootStep)
  /\ WF_vars(ComesUp) /\ WF_vars(AsksForReset)

-----------------------------------------------------------------------------
(* Properties.                                                             *)

TypeOK ==
  /\ B!BootTypeOK
  /\ modem_state \in {"INIT", "BOOT", "ALIVE", "ASSERT", "BOOTCOMP"}
  /\ flash_less_flag \in {"unknown", "nand", "flashless", "flashless alive"}
  /\ client_fd \in [Entries -> {"unset", "free", "live", "dead"}]
  /\ said \in {"nothing", "Alive", "Assert"} /\ killed \in BOOLEAN
  /\ monitor \in {"absent", "watching", "paused"}
  /\ alive \in BOOLEAN /\ reset \in BOOLEAN /\ asserts \in 0 .. MaxAsserts
  /\ (modem_state = "BOOT") # (bpc = "idle")

\* While modem_control runs, sprd_monitor, stopped for a reset, is not left
\* stopped once the modem is alive, although SIGUSR2 is not sent the first time
\* the modem is alive and the two signals are sent on different paths (main.c
\* lines 228-241, 254, 271, 284).  It does stay stopped when "Modem Alive" to a
\* client that has gone ends modem_control by SIGPIPE (line 282), after
\* modem_state is ALIVE and before SIGUSR2.
MonitorResumed == modem_state = "ALIVE" /\ ~killed => monitor # "paused"

\* While the modem is alive the last word to the clients is not "Modem
\* Assert": every way from an assert back to ALIVE tells them (lines 276-305).
ClientsUpToDate == modem_state = "ALIVE" /\ ~killed => said # "Assert"

\* Where nothing leads out: modem_control has ended, a boot is stuck, the modem
\* is not running after modem_boot() has returned (its result is not looked at),
\* or asks for a reset before it was found alive, which BOOTCOMP ignores.
Stranded ==
  \/ killed
  \/ modem_state = "BOOT" /\ B!Hopeless
  \/ modem_state = "BOOTCOMP" /\ (mode # "app" \/ reset)

\* A modem that has asserted is booted and comes alive again, as long as the
\* boot is not stuck, has succeeded and modem_control has not ended (a client
\* that has gone was written to, or the socket could not be opened).
RecoversFromAssert ==
  [](modem_state = "ASSERT" => <>(modem_state = "ALIVE") \/ <>[]Stranded)

\* modem_boot returns 0 only if every image that could be opened was taken by
\* the modem since its last power on, the FDL first, although a failed image
\* does not keep the exec message from being sent (modem_boot.c lines 322-329
\* and 499-505).
FinishedIsComplete ==
  bpc = "returned" /\ ret = B!DL_SUCCESS => 0 \in got /\ B!Images \subseteq got \cup skipped

\* The modem gets every image as a start, exactly the packets the start has
\* announced and an end, and is told to execute only between images, as long
\* as it has refused nothing since power on: whatever the size, the counting
\* of download_image, which reuses its loop variable to fill up the last
\* packet, and of download_fdl agree with the start message (modem_boot.c
\* lines 281-309).
MessagesInOrder == confused => refused

\* On every way back to reboot_modem and out of modem_boot the descriptors of
\* the UART and of /dev/dloader are closed (modem_boot.c lines 476, 480,
\* 500-501), so that a boot finds them closed however the last one ended.
DescriptorsClosed ==
  bpc \in {"idle", "open", "reopen", "returned"} => uart = 0 /\ dloader = 0

\* A boot ends, after any number of retries, unless it is stuck where the code
\* waits without a timeout: a modem that was running before, or that dies
\* during the first handshake, is power-cycled until it answers.
BootEnds ==
  [](modem_state = "BOOT" => <>(modem_state = "BOOTCOMP" \/ killed) \/ <>[]B!Hopeless)

-----------------------------------------------------------------------------
(* The inductive invariant the proofs of ModemControlProofs use.            *)

\* A modem that was alive once is known to be; only such a one has asserted,
\* and only then is sprd_monitor stopped.
KnownAlive ==
  modem_state \in {"ALIVE", "ASSERT"} \/ monitor = "paused" =>
    flash_less_flag \in {"nand", "flashless alive"}

\* In INIT nothing has been said.
NothingSaid == modem_state = "INIT" => said = "nothing"

ControlInv ==
  /\ TypeOK /\ KnownAlive /\ NothingSaid /\ MonitorResumed
  /\ modem_state = "ALIVE" => said # "Assert"
  /\ B!BootInv
=============================================================================
