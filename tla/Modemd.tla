------------------------------- MODULE Modemd -------------------------------
(***************************************************************************)
(* modemd (src/common/apps/modemd/modemd.c) and the programs that listen   *)
(* to it.  modemd has two threads that share client_fd without a lock: one *)
(* accepts connections, the other reads a message of the modem from        *)
(* /dev/vbpipe2, writes it to every client of the table, closes the        *)
(* connection and clears the entry.                                        *)
(*                                                                         *)
(* The clients are eng_modemreset_thread of engpcclient (it answers an     *)
(* assert with the command that resets the modem), the thread of slog that *)
(* dumps the modem's memory or stops and restarts the modem log, and any   *)
(* other program, which may end at any time (ModemAssert.java, which shows *)
(* a notification, ends after its first read).  modemd is a oneshot        *)
(* service: after exit() it is gone.                                       *)
(*                                                                         *)
(* A descriptor is a number, taken by accept() as the lowest free one.     *)
(* Variables that are dead (n, j, i, buf between two uses) are reset.      *)
(* Messages of the modem and resets of its pipe are not bounded.           *)
(***************************************************************************)
EXTENDS Integers, Sequences, FiniteSets

CONSTANTS
  MaxClientNum,  \* MAX_CLIENT_NUM (10 in the code)
  Fds,           \* numbers accept() may return
  ResetClients, DumpClients, OtherClients,
  ModemReset,    \* persist.sys.sprd.modemreset is 1
  Closed, Gone,  \* a descriptor that is not open; one whose peer has gone
  Backlog        \* connections that wait for accept() (socket_local_server)

Clients == ResetClients \cup DumpClients \cup OtherClients
Readers == ResetClients \cup DumpClients  \* the others' data is of no interest
Slots == 0 .. MaxClientNum - 1
Msgs == {"Assert", "Alive"}
NoMsg == "none"

ASSUME ModemdAssumption ==
  /\ MaxClientNum \in Nat \ {0}
  /\ Fds \subseteq Nat \ {0} /\ IsFiniteSet(Fds)
  /\ IsFiniteSet(Clients) /\ Closed \notin Clients /\ Gone \notin Clients /\ Closed # Gone
  /\ ModemReset \in BOOLEAN
  /\ Backlog \in Nat \ {0}
  /\ ~ModemReset => ResetClients = {}  \* eng_modemreset_thread returns

VARIABLES
  client_fd,  \* Slots -> descriptor, -1 when free, 0 before the thread starts
  peer,       \* Fds -> who is at the other end
  apc, n, j,  \* accept thread: where it is, the accepted descriptor, the slot
  mpc, i, buf,\* main: where it is, the slot, the message
  backlog,    \* connections that wait for accept()
  cpc,        \* Clients -> where the client is
  inbox, eof, \* Readers -> unread message, and whether modemd has closed
  modem_reset_flag,  \* DumpClients -> static variable of handler.c
  log,        \* DumpClients -> the modem log thread, modem_tid
  orphan,     \* ... an earlier log thread, which modem_tid no longer names, runs on
  stale,      \* ... fd_device or fd_out has the number of a closed descriptor
  onstale,    \* ... and the connection to modemd has got that number since
  modem_reset,\* the reset command was written to /dev/vbpipe0 since the assert
  owed        \* history: clients in the table when the message was read and
              \* not written to since

table == <<client_fd, peer>>
accepter == <<apc, n, j>>
main == <<mpc, i, buf>>
slog == <<modem_reset_flag, log, orphan, stale, onstale>>
clients == <<cpc, inbox, eof, slog, modem_reset>>
vars == <<table, accepter, main, backlog, clients, owed>>

Init ==
  /\ client_fd = [s \in Slots |-> 0] /\ peer = [f \in Fds |-> Closed]
  /\ apc = "init" /\ n = 0 /\ j = 0
  /\ mpc = "read" /\ i = 0 /\ buf = NoMsg
  /\ backlog = <<>>
  /\ cpc = [c \in Clients |-> "start"]
  /\ inbox = [c \in Readers |-> NoMsg] /\ eof = [c \in Readers |-> FALSE]
  /\ modem_reset_flag = [c \in DumpClients |-> FALSE]
  /\ log = [c \in DumpClients |-> "running"] /\ orphan = [c \in DumpClients |-> FALSE]
  /\ stale = [c \in DumpClients |-> FALSE] /\ onstale = [c \in DumpClients |-> FALSE]
  /\ modem_reset = FALSE
  /\ owed = {}

Running == mpc # "exited"
InTable(c) == \E s \in Slots : client_fd[s] \in Fds /\ peer[client_fd[s]] = c
Listed == {c \in Clients : InTable(c)}

\* Every connection ends with the process.
Exit ==
  /\ mpc' = "exited" /\ apc' = "exited"
  /\ peer' = [f \in Fds |-> Closed] /\ backlog' = <<>>
  /\ eof' = [c \in Readers |-> eof[c] \/ cpc[c] = "wait"]
  /\ client_fd' = [s \in Slots |-> -1] /\ n' = 0 /\ j' = 0 /\ i' = 0 /\ buf' = NoMsg
  /\ owed' = {}
  /\ UNCHANGED <<cpc, inbox, slog, modem_reset>>

-----------------------------------------------------------------------------
(* modemd_listenaccept_thread.                                             *)

\* The loop that frees the entries and the server socket.  No entry is above 0
\* before this, so main sees no difference between its steps.
Listen ==
  /\ apc = "init" /\ apc' = "accept"
  /\ client_fd' = [s \in Slots |-> -1]
  /\ UNCHANGED <<peer, n, j, main, backlog, clients, owed>>

\* socket_local_server fails.
ListenFails == apc = "init" /\ Exit

\* accept().  Without a free descriptor it returns -1 and is called again.
Accept ==
  /\ apc = "accept" /\ backlog # <<>>
  /\ \E f \in Fds :
       /\ peer[f] = Closed /\ \A g \in Fds : g < f => peer[g] # Closed
       /\ n' = f /\ peer' = [peer EXCEPT ![f] = Head(backlog)]
  /\ backlog' = Tail(backlog)
  /\ apc' = "scan" /\ j' = 0
  /\ UNCHANGED <<client_fd, main, clients, owed>>

\* One round of the search for a free entry.
ScanSlot ==
  /\ apc = "scan" /\ j \in Slots
  /\ IF client_fd[j] = -1
     THEN client_fd' = [client_fd EXCEPT ![j] = n] /\ apc' = "accept" /\ n' = 0 /\ j' = 0
     ELSE j' = j + 1 /\ UNCHANGED <<client_fd, apc, n>>
  /\ UNCHANGED <<peer, main, backlog, clients, owed>>

\* No entry is free: the connection stays open and is forgotten.
ScanFull ==
  /\ apc = "scan" /\ j = MaxClientNum
  /\ apc' = "accept" /\ n' = 0 /\ j' = 0
  /\ UNCHANGED <<table, main, backlog, clients, owed>>

-----------------------------------------------------------------------------
(* main.                                                                   *)

ReadMessage(m) ==
  /\ mpc = "read" /\ modem_reset' = (modem_reset /\ m # "Assert")
  /\ buf' = m /\ i' = 0 /\ mpc' = "write"
  /\ owed' = Listed
  /\ UNCHANGED <<table, accepter, backlog, cpc, inbox, eof, slog>>

\* read() returns 0: close, sleep 10 s, open again.
ReadNothing ==
  /\ mpc = "read" /\ mpc' = "reopen"
  /\ UNCHANGED <<table, accepter, i, buf, backlog, clients, owed>>

Reopen ==
  /\ mpc = "reopen" /\ mpc' = "read"
  /\ UNCHANGED <<table, accepter, i, buf, backlog, clients, owed>>

ReopenFails == mpc = "reopen" /\ Exit

\* Mutant of SkipFree: the loop ends at the first free entry.
SkipFree_Stops ==
  /\ mpc = "write" /\ i \in Slots /\ client_fd[i] <= 0
  /\ i' = MaxClientNum
  /\ UNCHANGED <<table, accepter, mpc, buf, backlog, clients, owed>>

SkipFree ==
  /\ mpc = "write" /\ i \in Slots /\ client_fd[i] <= 0
  /\ i' = i + 1
  /\ UNCHANGED <<table, accepter, mpc, buf, backlog, clients, owed>>

\* write(): a peer that has gone gives EPIPE, which is ignored as SIGPIPE is.
WriteClient ==
  /\ mpc = "write" /\ i \in Slots /\ client_fd[i] > 0
  /\ LET p == peer[client_fd[i]] IN
     IF p \in Clients
     THEN /\ inbox' = [c \in Readers |-> IF c = p THEN buf ELSE inbox[c]]
          /\ owed' = owed \ {p}
     ELSE UNCHANGED <<inbox, owed>>
  /\ mpc' = "close"
  /\ UNCHANGED <<table, accepter, i, buf, backlog, cpc, eof, slog, modem_reset>>

CloseClient ==
  /\ mpc = "close"
  /\ LET p == peer[client_fd[i]] IN
     eof' = [c \in Readers |-> eof[c] \/ c = p]
  /\ peer' = [peer EXCEPT ![client_fd[i]] = Closed]
  /\ mpc' = "clear"
  /\ UNCHANGED <<client_fd, accepter, i, buf, backlog, cpc, inbox, slog, modem_reset, owed>>

\* Mutant of ClearEntry: the entry keeps its descriptor.
ClearEntry_Kept ==
  /\ mpc = "clear"
  /\ i' = i + 1 /\ mpc' = "write"
  /\ UNCHANGED <<client_fd, peer, accepter, buf, backlog, clients, owed>>

ClearEntry ==
  /\ mpc = "clear"
  /\ client_fd' = [client_fd EXCEPT ![i] = -1]
  /\ i' = i + 1 /\ mpc' = "write"
  /\ UNCHANGED <<peer, accepter, buf, backlog, clients, owed>>

ReportDone ==
  /\ mpc = "write" /\ i = MaxClientNum
  /\ mpc' = "read" /\ i' = 0 /\ buf' = NoMsg
  /\ owed' = {}
  /\ UNCHANGED <<table, accepter, backlog, clients>>

-----------------------------------------------------------------------------
(* The clients.                                                            *)

unchangedServer == <<client_fd, accepter, main>>

\* connect() succeeds; while nobody listens every client tries again.  The socket
\* of slog may get the number of a file that was closed and not forgotten.
Connect(c) ==
  /\ cpc[c] = "start" /\ apc \notin {"init", "exited"} /\ Len(backlog) < Backlog
  /\ cpc' = [cpc EXCEPT ![c] = "wait"]
  /\ inbox' = [d \in Readers |-> IF d = c THEN NoMsg ELSE inbox[d]]
  /\ eof' = [d \in Readers |-> eof[d] /\ d # c]
  /\ backlog' = Append(backlog, c)
  /\ \/ UNCHANGED onstale
     \/ c \in DumpClients /\ stale[c] /\ onstale' = [onstale EXCEPT ![c] = TRUE]
  /\ UNCHANGED <<unchangedServer, peer, modem_reset_flag, log, orphan, stale, modem_reset,
                 owed>>

\* A read() that returns data: the message is gone from the socket.
Take(c) ==
  /\ cpc[c] = "wait" /\ inbox[c] # NoMsg
  /\ inbox' = [inbox EXCEPT ![c] = NoMsg]

\* eng_modemreset_thread: an assert is answered with the reset command; the
\* end of the connection (n = 0) is not looked at.
ResetReads(c) ==
  /\ c \in ResetClients /\ Take(c)
  /\ modem_reset' = (modem_reset \/ inbox[c] = "Assert")
  /\ UNCHANGED <<unchangedServer, peer, backlog, cpc, eof, slog, owed>>

LogAlive(c) == log[c] \in {"starting", "running"}

\* "Modem Assert": the log thread is killed (pthread_kill fails on one that has
\* returned) and the files of info_modem are closed, whether or not they are open:
\* a number that is stale may be that of slog's own connection by now.
StopLog(c) ==
  /\ modem_reset_flag' = [modem_reset_flag EXCEPT ![c] = TRUE]
  /\ log' = [log EXCEPT ![c] = IF LogAlive(c) THEN "killed" ELSE @]
  /\ stale' = [stale EXCEPT ![c] = TRUE] /\ onstale' = [onstale EXCEPT ![c] = FALSE]
  /\ IF onstale[c]
     THEN /\ cpc' = [cpc EXCEPT ![c] = "deaf"] /\ owed' = owed \ {c}
          /\ peer' = [f \in Fds |-> IF peer[f] = c THEN Gone ELSE peer[f]]
     ELSE UNCHANGED <<cpc, owed, peer>>
  /\ UNCHANGED orphan

\* Mutant of RestartLog: "Modem Alive" leaves modem_reset_flag set.
RestartLog_FlagKept(c) ==
  /\ log' = [log EXCEPT ![c] = "starting"]
  /\ orphan' = [orphan EXCEPT ![c] = @ \/ LogAlive(c)]
  /\ UNCHANGED <<modem_reset_flag, stale, onstale, cpc, owed, peer>>

\* "Modem Alive" after an assert: a new log thread.
RestartLog(c) ==
  /\ modem_reset_flag' = [modem_reset_flag EXCEPT ![c] = FALSE]
  /\ log' = [log EXCEPT ![c] = "starting"]
  /\ orphan' = [orphan EXCEPT ![c] = @ \/ LogAlive(c)]
  /\ UNCHANGED <<stale, onstale, cpc, owed, peer>>

\* modem_dump_memory_handler: without modem reset an assert is only dumped;
\* with it the modem log thread is killed until "Modem Alive".
DumpReads(c) ==
  /\ c \in DumpClients /\ Take(c)
  /\ \/ inbox[c] = "Assert" /\ ModemReset /\ StopLog(c)
     \/ inbox[c] = "Alive" /\ modem_reset_flag[c] /\ RestartLog(c)
     \/ /\ IF inbox[c] = "Assert" THEN ~ModemReset ELSE ~modem_reset_flag[c]
        /\ UNCHANGED <<slog, cpc, owed, peer>>
  /\ UNCHANGED <<unchangedServer, backlog, eof, modem_reset>>

\* Mutant of DumpReconnects: the end of the connection is not handled.
DumpReconnects_Ignored(c) ==
  /\ c \in DumpClients /\ cpc[c] = "wait" /\ inbox[c] = NoMsg /\ eof[c]
  /\ UNCHANGED vars

\* read() returns 0: close the socket and connect again.
DumpReconnects(c) ==
  /\ c \in DumpClients /\ cpc[c] = "wait" /\ inbox[c] = NoMsg /\ eof[c]
  /\ cpc' = [cpc EXCEPT ![c] = "start"] /\ onstale' = [onstale EXCEPT ![c] = FALSE]
  /\ UNCHANGED <<unchangedServer, peer, backlog, inbox, eof, modem_reset_flag, log, orphan,
                 stale, modem_reset, owed>>

-----------------------------------------------------------------------------
(* modem_log_handler, the log thread of slog.  A signal ends it before its *)
(* next step.                                                              *)

\* What the log thread's steps leave alone.
unchangedByLog ==
  <<table, accepter, main, backlog, cpc, inbox, eof, modem_reset_flag, orphan, modem_reset,
    owed>>

\* The thread opens the log file and the device, ...
LogStarts(c) ==
  /\ c \in DumpClients /\ log[c] = "starting" /\ log' = [log EXCEPT ![c] = "running"]
  /\ stale' = [stale EXCEPT ![c] = FALSE] /\ onstale' = [onstale EXCEPT ![c] = FALSE]
  /\ UNCHANGED unchangedByLog

\* ... or returns, as slog or its modem log is switched off.
LogRefuses(c) ==
  /\ c \in DumpClients /\ log[c] = "starting" /\ log' = [log EXCEPT ![c] = "returned"]
  /\ UNCHANGED <<unchangedByLog, stale, onstale>>

\* A read of the device fails: it is closed, and opened again 20 s later.
LogReadFails(c) ==
  /\ c \in DumpClients /\ log[c] = "running" /\ ~stale[c]
  /\ stale' = [stale EXCEPT ![c] = TRUE]
  /\ UNCHANGED <<unchangedByLog, log, onstale>>

LogReopens(c) ==
  /\ c \in DumpClients /\ log[c] = "running" /\ stale[c]
  /\ stale' = [stale EXCEPT ![c] = FALSE] /\ onstale' = [onstale EXCEPT ![c] = FALSE]
  /\ UNCHANGED <<unchangedByLog, log>>

\* slog is switched off, or the hook file cannot be opened: the files are closed.
LogEnds(c) ==
  /\ c \in DumpClients /\ log[c] = "running" /\ ~stale[c]
  /\ log' = [log EXCEPT ![c] = "returned"] /\ stale' = [stale EXCEPT ![c] = TRUE]
  /\ UNCHANGED <<unchangedByLog, onstale>>

\* Another program ends and may be started again.
Die(c) ==
  /\ c \in OtherClients /\ cpc[c] = "wait"
  /\ cpc' = [cpc EXCEPT ![c] = "start"]
  /\ peer' = [f \in Fds |-> IF peer[f] = c THEN Gone ELSE peer[f]]
  /\ backlog' = [k \in DOMAIN backlog |-> IF backlog[k] = c THEN Gone ELSE backlog[k]]
  /\ owed' = owed \ {c}
  /\ UNCHANGED <<unchangedServer, inbox, eof, slog, modem_reset>>

-----------------------------------------------------------------------------
AcceptThread == Listen \/ Accept \/ ScanSlot \/ ScanFull
Main == Reopen \/ SkipFree \/ WriteClient \/ CloseClient \/ ClearEntry \/ ReportDone
Client(c) == Connect(c) \/ ResetReads(c) \/ DumpReads(c) \/ DumpReconnects(c)
LogThread(c) ==
  LogStarts(c) \/ LogRefuses(c) \/ LogReadFails(c) \/ LogReopens(c) \/ LogEnds(c)

Next ==
  \/ AcceptThread \/ ListenFails
  \/ Main \/ ReopenFails
  \/ \E m \in Msgs : ReadMessage(m)
  \/ ReadNothing
  \/ \E c \in Clients : Client(c) \/ LogThread(c) \/ Die(c)

Spec == Init /\ [][Next]_vars

\* Both threads of modemd and the reading clients run, and a connect() that
\* waits for room among the waiting connections gets it; the modem may stay
\* silent.
Fairness ==
  /\ WF_vars(AcceptThread) /\ WF_vars(Main)
  /\ \A c \in Readers : WF_vars(Client(c)) /\ SF_vars(Connect(c))
FairSpec == Spec /\ Fairness

-----------------------------------------------------------------------------
(* Properties.                                                             *)

TypeOK ==
  /\ client_fd \in [Slots -> Fds \cup {-1, 0}]
  /\ peer \in [Fds -> Clients \cup {Closed, Gone}]
  /\ apc \in {"init", "accept", "scan", "exited"} /\ n \in Fds \cup {0} /\ j \in 0 .. MaxClientNum
  /\ mpc \in {"read", "reopen", "write", "close", "clear", "exited"}
  /\ i \in 0 .. MaxClientNum /\ buf \in Msgs \cup {NoMsg}
  /\ backlog \in Seq(Clients \cup {Gone}) /\ Len(backlog) <= Backlog
  /\ cpc \in [Clients -> {"start", "wait", "deaf"}]
  /\ inbox \in [Readers -> Msgs \cup {NoMsg}] /\ eof \in [Readers -> BOOLEAN]
  /\ modem_reset_flag \in [DumpClients -> BOOLEAN]
  /\ log \in [DumpClients -> {"starting", "running", "killed", "returned"}]
  /\ orphan \in [DumpClients -> BOOLEAN] /\ stale \in [DumpClients -> BOOLEAN]
  /\ onstale \in [DumpClients -> BOOLEAN]
  /\ modem_reset \in BOOLEAN
  /\ owed \subseteq Clients

\* The entry that main has closed and not yet cleared.
Clearing(s) == mpc = "clear" /\ i = s

\* No write or close of main hits a descriptor that is closed or belongs to
\* another entry: although accept() may hand out the number just closed, the
\* entries of the table are open descriptors, all different, and different
\* from the one the accept thread is placing (lines 117-122 against 58-64).
EntriesOwnTheirFd ==
  Running =>
    /\ \A s \in Slots : client_fd[s] > 0 /\ ~Clearing(s) =>
         /\ peer[client_fd[s]] # Closed
         /\ apc = "scan" => client_fd[s] # n
    /\ \A s, t \in Slots : s # t /\ client_fd[s] > 0 /\ client_fd[s] = client_fd[t] =>
         Clearing(s) \/ Clearing(t)
    /\ apc = "scan" => peer[n] # Closed

\* Whatever connects meanwhile, a client in the table when a message is read
\* has been written to when the loop over the table ends (lines 115-124).
ReportDelivered == mpc = "write" /\ i = MaxClientNum => owed = {}

\* What keeps the two above.  main closes and clears an entry it has found
\* open, the accept thread places a descriptor, no entry is in use before the
\* thread has freed them, ...
EntryFound == mpc \in {"close", "clear"} => i \in Slots /\ client_fd[i] \in Fds
FdAccepted == apc = "scan" => n \in Fds
NoneBefore == apc = "init" => \A s \in Slots : client_fd[s] = 0
\* ... and who was in the table and has not been written to is still to come.
StillToCome(c) ==
  \E s \in Slots : /\ s >= i /\ (mpc # "write" => s > i)
                   /\ client_fd[s] \in Fds /\ peer[client_fd[s]] = c
Reporting ==
  mpc \in {"write", "close", "clear"} => \A c \in owed : StillToCome(c)

\* The inductive invariant of the table.
TableInv ==
  TypeOK /\ EntryFound /\ FdAccepted /\ NoneBefore /\ EntriesOwnTheirFd /\ Reporting

\* Whatever the log thread does by itself (it may not start, end, or be opening its
\* files when the message comes) and however asserts and "Modem Alive" follow one
\* another: slog never has a second log thread on the device, a killed one is one
\* whose restart is still owed (modem_reset_flag), and while the modem is being reset
\* no log thread runs (handler.c:692-708 against 815-962).
LogStoppedOnlyForReset ==
  \A c \in DumpClients :
    /\ ~orphan[c]
    /\ log[c] = "killed" => modem_reset_flag[c]
    /\ modem_reset_flag[c] => ~LogAlive(c)

\* The accept thread found no free entry for the connection of c.
Forgotten(c) == ~InTable(c) /\ \E f \in Fds : peer[f] = c /\ ~(apc = "scan" /\ n = f)
NoFdLeft == \A f \in Fds : peer[f] # Closed

\* slog is in the table again after each message that ended its connection,
\* as long as modemd lives, unless its connection came when no entry was free
\* or the connections forgotten this way have used up the descriptors, or slog has
\* closed its own connection as a stale file (StopLog) and reads -1 ever since.
DumpListens ==
  \A c \in DumpClients :
    []<>(\/ InTable(c) \/ Forgotten(c) \/ NoFdLeft \/ cpc[c] = "deaf"
         \/ ~Running \/ apc = "init")

\* With persist.sys.sprd.modemreset = 1 the modem is reset after an assert
\* (StartAssert.java line 21) once eng_modemreset_thread has been in the table.
AssertIsReset ==
  \A c \in ResetClients :
    (mpc = "write" /\ i = 0 /\ buf = "Assert" /\ (InTable(c) \/ eof[c]))
      ~> (modem_reset \/ ~Running)
=============================================================================
