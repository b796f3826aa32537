---------------------------- MODULE ModemdProofs ----------------------------
(***************************************************************************)
(* Proofs about Modemd for every size of the table and every set of        *)
(* clients and descriptors: the table the two threads share without a      *)
(* lock, and the modem log of slog.                                        *)
(***************************************************************************)
EXTENDS Modemd, SequenceTheorems, TLAPS

\* Table and descriptors before the accept thread has started.
LEMMA InitInv == Init => TableInv
<1> SUFFICES ASSUME Init PROVE TableInv
  OBVIOUS
<1>1. TypeOK
  <2>1. backlog \in Seq(Clients \cup {Gone}) /\ Len(backlog) <= Backlog
    BY ModemdAssumption DEF Init
  <2>2. n \in Fds \cup {0} /\ j \in 0 .. MaxClientNum /\ i \in 0 .. MaxClientNum
    BY ModemdAssumption DEF Init
  <2> QED BY <2>1, <2>2 DEF Init, TypeOK, Msgs, NoMsg
<1>2. EntryFound /\ FdAccepted /\ NoneBefore /\ Reporting
  BY DEF Init, EntryFound, FdAccepted, NoneBefore, Reporting
<1>3. EntriesOwnTheirFd
  BY DEF Init, EntriesOwnTheirFd
<1> QED BY <1>1, <1>2, <1>3 DEF TableInv

\* The end of the process closes everything.
LEMMA ExitInv ==
  ASSUME TableInv, Exit
  PROVE  TableInv'
<1> USE ModemdAssumption DEF Exit, slog, TableInv, Slots
<1>1. TypeOK'
  BY DEF TypeOK, Msgs, NoMsg
<1>2. EntryFound' /\ FdAccepted' /\ NoneBefore'
  BY DEF TypeOK, EntryFound, FdAccepted, NoneBefore
<1>3. EntriesOwnTheirFd'
  BY DEF TypeOK, EntriesOwnTheirFd, Clearing, EntryFound, FdAccepted, Running
<1>4. Reporting'
  BY DEF TypeOK, Reporting, StillToCome, EntriesOwnTheirFd, Clearing, EntryFound, NoneBefore
<1> QED BY <1>1, <1>2, <1>3, <1>4

\* The accept thread frees the entries, none of which is in use.
LEMMA ListenInv ==
  ASSUME TableInv, Listen
  PROVE  TableInv'
<1> USE ModemdAssumption DEF Listen, table, accepter, main, clients, slog, TableInv, Slots
<1>1. TypeOK'
  BY DEF TypeOK, Msgs, NoMsg
<1>2. EntryFound' /\ FdAccepted' /\ NoneBefore'
  BY DEF TypeOK, EntryFound, FdAccepted, NoneBefore
<1>3. EntriesOwnTheirFd'
  BY DEF TypeOK, EntriesOwnTheirFd, Clearing, EntryFound, FdAccepted, Running
<1>4. Reporting'
  BY DEF TypeOK, Reporting, StillToCome, EntriesOwnTheirFd, Clearing, EntryFound, NoneBefore
<1> QED BY <1>1, <1>2, <1>3, <1>4

\* accept() returns a closed descriptor, hence none of an entry, except the one
\* that main has closed and not yet cleared.
LEMMA AcceptInv ==
  ASSUME TableInv, Accept
  PROVE  TableInv'
<1> USE ModemdAssumption DEF Accept, table, accepter, main, clients, slog, TableInv, Slots
<1>1. TypeOK'
  BY DEF TypeOK, Msgs, NoMsg
<1>2. EntryFound' /\ FdAccepted' /\ NoneBefore'
  BY DEF TypeOK, EntryFound, FdAccepted, NoneBefore
<1>3. EntriesOwnTheirFd'
  BY DEF TypeOK, EntriesOwnTheirFd, Clearing, EntryFound, FdAccepted, Running
<1>4. Reporting'
  BY DEF TypeOK, Reporting, StillToCome, EntriesOwnTheirFd, Clearing, EntryFound, NoneBefore
<1> QED BY <1>1, <1>2, <1>3, <1>4

\* A free entry takes the descriptor that was accepted.
LEMMA ScanSlotInv ==
  ASSUME TableInv, ScanSlot
  PROVE  TableInv'
<1> USE ModemdAssumption DEF ScanSlot, table, accepter, main, clients, slog, TableInv, Slots
<1>1. TypeOK'
  BY DEF TypeOK, Msgs, NoMsg
<1>2. EntryFound' /\ FdAccepted' /\ NoneBefore'
  BY DEF TypeOK, EntryFound, FdAccepted, NoneBefore
<1>3. EntriesOwnTheirFd'
  BY DEF TypeOK, EntriesOwnTheirFd, Clearing, EntryFound, FdAccepted, Running
<1>4. Reporting'
  <2> SUFFICES ASSUME mpc' \in {"write", "close", "clear"}, NEW c \in owed'
               PROVE  StillToCome(c)'
    BY DEF Reporting
  <2>1. PICK s \in Slots : /\ s >= i /\ (mpc # "write" => s > i)
                           /\ client_fd[s] \in Fds /\ peer[client_fd[s]] = c
    BY DEF ScanSlot, Reporting, StillToCome
  <2>2. client_fd'[s] = client_fd[s]
    BY <2>1 DEF TypeOK
  <2> QED BY <2>1, <2>2 DEF StillToCome
<1> QED BY <1>1, <1>2, <1>3, <1>4

\* Steps of main and of the accept thread that do not touch the table.
LEMMA QuietInv ==
  ASSUME TableInv, ScanFull \/ ReadNothing \/ Reopen \/ ReportDone
  PROVE  TableInv'
<1> USE ModemdAssumption DEF ScanFull, ReadNothing, Reopen, ReportDone, table, accepter, main,
        clients, slog, TableInv, Slots
<1>1. TypeOK'
  BY DEF TypeOK, Msgs, NoMsg
<1>2. EntryFound' /\ FdAccepted' /\ NoneBefore'
  BY DEF TypeOK, EntryFound, FdAccepted, NoneBefore
<1>3. EntriesOwnTheirFd'
  BY DEF TypeOK, EntriesOwnTheirFd, Clearing, EntryFound, FdAccepted, Running
<1>4. Reporting'
  <2>1. CASE mpc' = "read" \/ mpc' = "reopen"
    BY <2>1 DEF Reporting
  <2>2. CASE UNCHANGED <<mpc, i, client_fd, peer, owed>>
    BY <2>2 DEF Reporting, StillToCome
  <2> QED BY <2>1, <2>2
<1> QED BY <1>1, <1>2, <1>3, <1>4

\* A message is read: everybody in the table is still to come.
LEMMA ReadMessageInv ==
  ASSUME TableInv, NEW m \in Msgs, ReadMessage(m)
  PROVE  TableInv'
<1> USE ModemdAssumption DEF ReadMessage, table, accepter, main, clients, slog, TableInv, Slots
<1>1. TypeOK'
  BY DEF TypeOK, Msgs, NoMsg, Listed
<1>2. EntryFound' /\ FdAccepted' /\ NoneBefore'
  BY DEF TypeOK, EntryFound, FdAccepted, NoneBefore
<1>3. EntriesOwnTheirFd'
  BY DEF TypeOK, EntriesOwnTheirFd, Clearing, EntryFound, FdAccepted, Running
<1>4. Reporting'
  BY DEF TypeOK, Reporting, StillToCome, Listed, InTable
<1> QED BY <1>1, <1>2, <1>3, <1>4

\* A free entry is passed over.
LEMMA SkipFreeInv ==
  ASSUME TableInv, SkipFree
  PROVE  TableInv'
<1> USE ModemdAssumption DEF SkipFree, table, accepter, main, clients, slog, TableInv, Slots
<1>1. TypeOK'
  BY DEF TypeOK, Msgs, NoMsg
<1>2. EntryFound' /\ FdAccepted' /\ NoneBefore'
  BY DEF TypeOK, EntryFound, FdAccepted, NoneBefore
<1>3. EntriesOwnTheirFd'
  BY DEF TypeOK, EntriesOwnTheirFd, Clearing, EntryFound, FdAccepted, Running
<1>4. Reporting'
  <2> SUFFICES ASSUME mpc' \in {"write", "close", "clear"}, NEW c \in owed'
               PROVE  StillToCome(c)'
    BY DEF Reporting
  <2>1. PICK s \in Slots : /\ s >= i /\ (mpc # "write" => s > i)
                           /\ client_fd[s] \in Fds /\ peer[client_fd[s]] = c
    BY DEF Reporting, StillToCome
  <2>2. client_fd[s] \in Nat \ {0}
    BY <2>1
  <2>3. s # i
    BY <2>1, <2>2
  <2>4. s >= i + 1
    BY <2>1, <2>3 DEF TypeOK
  <2> QED BY <2>1, <2>4 DEF StillToCome
<1> QED BY <1>1, <1>2, <1>3, <1>4

\* The message is written to one entry.
LEMMA WriteClientInv ==
  ASSUME TableInv, WriteClient
  PROVE  TableInv'
<1> USE ModemdAssumption DEF WriteClient, table, accepter, main, clients, slog, TableInv, Slots
<1>1. TypeOK'
  BY DEF TypeOK, Msgs, NoMsg
<1>2. EntryFound' /\ FdAccepted' /\ NoneBefore'
  <2>1. client_fd[i] \in Fds
    BY DEF TypeOK
  <2> QED BY <2>1 DEF EntryFound, FdAccepted, NoneBefore
<1>3. EntriesOwnTheirFd'
  BY DEF TypeOK, EntriesOwnTheirFd, Clearing, EntryFound, FdAccepted, Running
<1>4. Reporting'
  BY DEF TypeOK, Reporting, StillToCome, EntriesOwnTheirFd, Clearing, EntryFound, NoneBefore
<1> QED BY <1>1, <1>2, <1>3, <1>4

\* The descriptor of the entry is closed; it is that of no other entry.
LEMMA CloseClientInv ==
  ASSUME TableInv, CloseClient
  PROVE  TableInv'
<1> USE ModemdAssumption DEF CloseClient, table, accepter, main, clients, slog, TableInv, Slots
<1>1. TypeOK'
  BY DEF TypeOK, Msgs, NoMsg
<1>2. EntryFound' /\ FdAccepted' /\ NoneBefore'
  BY DEF TypeOK, EntryFound, FdAccepted, NoneBefore
<1>3. EntriesOwnTheirFd'
  BY DEF TypeOK, EntriesOwnTheirFd, Clearing, EntryFound, FdAccepted, Running
<1>4. Reporting'
  <2> SUFFICES ASSUME mpc' \in {"write", "close", "clear"}, NEW c \in owed'
               PROVE  StillToCome(c)'
    BY DEF Reporting
  <2>1. PICK s \in Slots : /\ s >= i /\ (mpc # "write" => s > i)
                           /\ client_fd[s] \in Fds /\ peer[client_fd[s]] = c
    BY DEF Reporting, StillToCome
  <2>2. s > i /\ client_fd[i] \in Fds /\ i \in Slots
    BY <2>1 DEF EntryFound
  <2>3. s # i /\ client_fd[s] > 0 /\ ~Clearing(s) /\ ~Clearing(i) /\ Running
    <3>1. s \in Nat /\ i \in Nat
      BY <2>1, <2>2
    <3>2. client_fd[s] \in Nat \ {0}
      BY <2>1
    <3>3. mpc = "close"
      OBVIOUS
    <3> QED BY <2>2, <3>1, <3>2, <3>3 DEF Clearing, Running
  <2>5. client_fd[s] # client_fd[i]
    BY <2>2, <2>3 DEF EntriesOwnTheirFd
  <2>4. peer'[client_fd[s]] = c
    BY <2>1, <2>2, <2>5 DEF TypeOK
  <2> QED BY <2>1, <2>2, <2>4 DEF StillToCome
<1> QED BY <1>1, <1>2, <1>3, <1>4

\* The entry is cleared.
LEMMA ClearEntryInv ==
  ASSUME TableInv, ClearEntry
  PROVE  TableInv'
<1> USE ModemdAssumption DEF ClearEntry, table, accepter, main, clients, slog, TableInv, Slots
<1>1. TypeOK'
  BY DEF TypeOK, EntryFound, Msgs, NoMsg
<1>2. EntryFound' /\ FdAccepted' /\ NoneBefore'
  BY DEF TypeOK, EntryFound, FdAccepted, NoneBefore
<1>3. EntriesOwnTheirFd'
  BY DEF TypeOK, EntriesOwnTheirFd, Clearing, EntryFound, FdAccepted, Running
<1>4. Reporting'
  BY DEF TypeOK, Reporting, StillToCome, EntriesOwnTheirFd, Clearing, EntryFound, NoneBefore
<1> QED BY <1>1, <1>2, <1>3, <1>4

\* A client connects.
LEMMA ConnectInv ==
  ASSUME TableInv, NEW c \in Clients, Connect(c)
  PROVE  TableInv'
<1> USE ModemdAssumption DEF Connect, unchangedServer, table, accepter, main, clients, slog,
        TableInv, Slots
<1>1. TypeOK'
  <2>1. onstale' \in [DumpClients -> BOOLEAN] /\ cpc' \in [Clients -> {"start", "wait", "deaf"}]
    BY DEF TypeOK
  <2>2. inbox' \in [Readers -> Msgs \cup {NoMsg}] /\ eof' \in [Readers -> BOOLEAN]
    BY DEF TypeOK
  <2>3. backlog' \in Seq(Clients \cup {Gone}) /\ Len(backlog') <= Backlog
    BY DEF TypeOK
  <2>4. /\ UNCHANGED <<client_fd, peer, apc, n, j, mpc, i, buf, modem_reset, owed>>
        /\ UNCHANGED <<modem_reset_flag, log, orphan, stale>>
    OBVIOUS
  <2> QED BY <2>1, <2>2, <2>3, <2>4 DEF TypeOK
<1>2. EntryFound' /\ FdAccepted' /\ NoneBefore'
  BY DEF TypeOK, EntryFound, FdAccepted, NoneBefore
<1>3. EntriesOwnTheirFd'
  BY DEF TypeOK, EntriesOwnTheirFd, Clearing, EntryFound, FdAccepted, Running
<1>4. Reporting'
  BY DEF TypeOK, Reporting, StillToCome, EntriesOwnTheirFd, Clearing, EntryFound, NoneBefore
<1> QED BY <1>1, <1>2, <1>3, <1>4

\* The client of modem resets reads; slog closes a connection that has ended.
LEMMA ReadsInv ==
  ASSUME TableInv, NEW c \in Clients, ResetReads(c) \/ DumpReconnects(c)
  PROVE  TableInv'
<1> USE ModemdAssumption DEF ResetReads, DumpReconnects, Take, unchangedServer, table, accepter,
        main, clients, slog, TableInv, Slots
<1>1. TypeOK'
  <2>1. inbox' \in [Readers -> Msgs \cup {NoMsg}]
    BY DEF TypeOK, Readers, Clients
  <2>2. onstale' \in [DumpClients -> BOOLEAN]
    BY DEF TypeOK
  <2>3. cpc' \in [Clients -> {"start", "wait", "deaf"}] /\ modem_reset' \in BOOLEAN
    BY DEF TypeOK
  <2>4. /\ UNCHANGED <<client_fd, peer, apc, n, j, mpc, i, buf, backlog, eof, owed>>
        /\ UNCHANGED <<modem_reset_flag, log, orphan, stale>>
    OBVIOUS
  <2> QED BY <2>1, <2>2, <2>3, <2>4 DEF TypeOK
<1>2. EntryFound' /\ FdAccepted' /\ NoneBefore'
  BY DEF TypeOK, EntryFound, FdAccepted, NoneBefore
<1>3. EntriesOwnTheirFd'
  BY DEF TypeOK, EntriesOwnTheirFd, Clearing, EntryFound, FdAccepted, Running
<1>4. Reporting'
  <2>1. UNCHANGED <<mpc, i, client_fd, peer, owed>>
    OBVIOUS
  <2> QED BY <2>1 DEF Reporting, StillToCome
<1> QED BY <1>1, <1>2, <1>3, <1>4

\* The other end of c's connections is closed: the descriptors stay open in modemd.
LEMMA PeerLost ==
  ASSUME TableInv, NEW c \in Clients, UNCHANGED <<client_fd, apc, n, j, mpc, i>>,
         \/ UNCHANGED <<peer, owed>>
         \/ /\ peer' = [f \in Fds |-> IF peer[f] = c THEN Gone ELSE peer[f]]
            /\ owed' = owed \ {c}
  PROVE  EntryFound' /\ FdAccepted' /\ NoneBefore' /\ EntriesOwnTheirFd' /\ Reporting'
<1> USE DEF TableInv
<1>1. EntryFound' /\ FdAccepted' /\ NoneBefore'
  BY DEF EntryFound, FdAccepted, NoneBefore
<1>2. ASSUME NEW f \in Fds, peer[f] # Closed PROVE peer'[f] # Closed
  BY <1>2, ModemdAssumption
<1>3. \A s \in Slots : client_fd[s] > 0 => client_fd[s] \in Fds
  BY ModemdAssumption DEF TypeOK
<1>4. EntriesOwnTheirFd'
  BY <1>2, <1>3 DEF EntriesOwnTheirFd, Clearing, FdAccepted, Running
<1>5. ASSUME NEW d \in owed', StillToCome(d) PROVE StillToCome(d)'
  <2>1. d # c \/ UNCHANGED <<peer, owed>>
    OBVIOUS
  <2>2. PICK s \in Slots : /\ s >= i /\ (mpc # "write" => s > i)
                           /\ client_fd[s] \in Fds /\ peer[client_fd[s]] = d
    BY <1>5 DEF StillToCome
  <2>3. peer'[client_fd[s]] = d
    BY <2>1, <2>2
  <2> QED BY <2>2, <2>3 DEF StillToCome
<1>6. Reporting'
  BY <1>5 DEF Reporting
<1> QED BY <1>1, <1>4, <1>6

\* slog reads; when it closes its own connection, the descriptor stays open in modemd.
LEMMA DumpReadsInv ==
  ASSUME TableInv, NEW c \in Clients, DumpReads(c)
  PROVE  TableInv'
<1> USE ModemdAssumption DEF DumpReads, StopLog, RestartLog, Take, unchangedServer, accepter,
        main, TableInv, Slots
<1>1. TypeOK'
  <2>1. inbox' \in [Readers -> Msgs \cup {NoMsg}]
    BY DEF TypeOK, Readers, Clients
  <2>2. /\ modem_reset_flag' \in [DumpClients -> BOOLEAN]
        /\ log' \in [DumpClients -> {"starting", "running", "killed", "returned"}]
        /\ stale' \in [DumpClients -> BOOLEAN] /\ onstale' \in [DumpClients -> BOOLEAN]
    BY DEF TypeOK, slog
  <2>3. orphan' \in [DumpClients -> BOOLEAN]
    <3>1. (orphan[c] \/ LogAlive(c)) \in BOOLEAN
      BY DEF LogAlive
    <3> QED BY <3>1 DEF TypeOK, slog
  <2>4. cpc' \in [Clients -> {"start", "wait", "deaf"}] /\ owed' \subseteq Clients
    BY DEF TypeOK
  <2>5. peer' \in [Fds -> Clients \cup {Closed, Gone}]
    BY DEF TypeOK
  <2>6. UNCHANGED <<client_fd, apc, n, j, mpc, i, buf, backlog, eof, modem_reset>>
    OBVIOUS
  <2> QED BY <2>1, <2>2, <2>3, <2>4, <2>5, <2>6 DEF TypeOK
<1>2. UNCHANGED <<client_fd, apc, n, j, mpc, i>>
  OBVIOUS
<1>3. \/ UNCHANGED <<peer, owed>>
      \/ /\ peer' = [f \in Fds |-> IF peer[f] = c THEN Gone ELSE peer[f]]
         /\ owed' = owed \ {c}
  OBVIOUS
<1> QED BY <1>1, <1>2, <1>3, PeerLost

\* The log thread of slog has no part in the table.
LEMMA LogThreadInv ==
  ASSUME TableInv, NEW c \in Clients, LogThread(c)
  PROVE  TableInv'
<1>1. /\ UNCHANGED <<client_fd, peer, apc, n, j, mpc, i, buf, backlog, cpc, inbox, eof>>
      /\ UNCHANGED <<modem_reset_flag, orphan, modem_reset, owed>>
  BY DEF LogThread, LogStarts, LogRefuses, LogReadFails, LogReopens, LogEnds, unchangedByLog,
         table, accepter, main
<1>2. /\ log' \in [DumpClients -> {"starting", "running", "killed", "returned"}]
      /\ stale' \in [DumpClients -> BOOLEAN] /\ onstale' \in [DumpClients -> BOOLEAN]
  BY DEF LogThread, LogStarts, LogRefuses, LogReadFails, LogReopens, LogEnds, TableInv, TypeOK
<1>3. TypeOK'
  BY <1>1, <1>2 DEF TableInv, TypeOK
<1>4. EntryFound' /\ FdAccepted' /\ NoneBefore' /\ Reporting'
  BY <1>1 DEF TableInv, EntryFound, FdAccepted, NoneBefore, Reporting, StillToCome
<1>5. EntriesOwnTheirFd'
  BY <1>1 DEF TableInv, EntriesOwnTheirFd, Clearing, Running
<1> QED BY <1>3, <1>4, <1>5 DEF TableInv

\* A client ends: its descriptors stay open in modemd.
LEMMA DieInv ==
  ASSUME TableInv, NEW c \in Clients, Die(c)
  PROVE  TableInv'
<1> USE ModemdAssumption DEF Die, unchangedServer, table, accepter, main, clients, slog,
        TableInv, Slots
<1>1. TypeOK'
  <2>1. backlog' \in Seq(Clients \cup {Gone}) /\ Len(backlog') <= Backlog
    <3>1. /\ backlog \in Seq(Clients \cup {Gone}) /\ DOMAIN backlog = 1 .. Len(backlog)
          /\ Len(backlog) \in Nat /\ Len(backlog) <= Backlog
      BY DEF TypeOK
    <3>2. backlog' = [k \in 1 .. Len(backlog) |-> IF backlog[k] = c THEN Gone ELSE backlog[k]]
      BY <3>1
    <3>3. ASSUME NEW k \in 1 .. Len(backlog)
          PROVE  (IF backlog[k] = c THEN Gone ELSE backlog[k]) \in Clients \cup {Gone}
      BY <3>1
    <3> QED BY <3>1, <3>2, <3>3
  <2> QED BY <2>1 DEF TypeOK
<1>2. UNCHANGED <<client_fd, apc, n, j, mpc, i>>
  OBVIOUS
<1> QED BY <1>1, <1>2, PeerLost

\* Every step keeps the invariant.
LEMMA NextInv == TableInv /\ [Next]_vars => TableInv'
<1> SUFFICES ASSUME TableInv, [Next]_vars PROVE TableInv'
  OBVIOUS
<1>1. CASE UNCHANGED vars
  <2> USE <1>1 DEF vars, table, accepter, main, clients, slog, TableInv
  <2>1. TypeOK'
    BY DEF TypeOK
  <2>2. EntryFound' /\ FdAccepted' /\ NoneBefore' /\ Reporting'
    BY DEF EntryFound, FdAccepted, NoneBefore, Reporting, StillToCome
  <2>3. EntriesOwnTheirFd'
    BY DEF EntriesOwnTheirFd, Clearing, Running
  <2> QED BY <2>1, <2>2, <2>3
<1>2. CASE AcceptThread \/ ListenFails
  BY <1>2, ListenInv, AcceptInv, ScanSlotInv, QuietInv, ExitInv DEF AcceptThread, ListenFails
<1>3. CASE Main \/ ReopenFails \/ ReadNothing
  BY <1>3, QuietInv, SkipFreeInv, WriteClientInv, CloseClientInv, ClearEntryInv, ExitInv
  DEF Main, ReopenFails
<1>4. CASE \E m \in Msgs : ReadMessage(m)
  BY <1>4, ReadMessageInv
<1>5. CASE \E c \in Clients : Client(c) \/ LogThread(c) \/ Die(c)
  BY <1>5, ConnectInv, ReadsInv, DumpReadsInv, LogThreadInv, DieInv DEF Client
<1> QED BY <1>1, <1>2, <1>3, <1>4, <1>5 DEF Next

\* The invariant of the table holds in every behaviour.
THEOREM TableInvariant == Spec => []TableInv
  BY InitInv, NextInv, PTL DEF Spec

\* modemd.c never writes to or closes a descriptor that is not the entry's own,
\* although a number it has closed may be accepted again before the entry is
\* cleared (lines 117-122 against 58-64).
THEOREM EntriesSafe == Spec => []EntriesOwnTheirFd
<1>1. TableInv => EntriesOwnTheirFd
  BY DEF TableInv
<1> QED BY <1>1, TableInvariant, PTL

\* Whoever is in the table when a message is read is written to (lines 115-124).
THEOREM Delivered == Spec => []ReportDelivered
<1>1. TableInv => ReportDelivered
  <2> SUFFICES ASSUME TableInv, mpc = "write", i = MaxClientNum, NEW c \in owed
               PROVE  FALSE
    BY DEF ReportDelivered
  <2>1. ~StillToCome(c)
    BY ModemdAssumption DEF StillToCome, Slots
  <2> QED BY <2>1 DEF TableInv, Reporting
<1> QED BY <1>1, TableInvariant, PTL

-----------------------------------------------------------------------------
(* The modem log.                                                          *)

\* A message from modemd.
LEMMA LogMessage ==
  ASSUME TypeOK, LogStoppedOnlyForReset, NEW c \in Clients, DumpReads(c)
  PROVE  LogStoppedOnlyForReset'
<1> SUFFICES ASSUME NEW d \in DumpClients
             PROVE  /\ ~orphan'[d] /\ (log'[d] = "killed" => modem_reset_flag'[d])
                    /\ modem_reset_flag'[d] => log'[d] \notin {"starting", "running"}
  BY DEF LogStoppedOnlyForReset, LogAlive
<1>1. /\ ~orphan[d] /\ (log[d] = "killed" => modem_reset_flag[d])
      /\ modem_reset_flag[d] => log[d] \notin {"starting", "running"}
  BY DEF LogStoppedOnlyForReset, LogAlive
<1>2. CASE d # c \/ UNCHANGED slog
  <2>1. UNCHANGED <<orphan[d], log[d], modem_reset_flag[d]>>
    BY <1>2 DEF DumpReads, StopLog, RestartLog, TypeOK, slog
  <2> QED BY <1>1, <2>1
<1>3. CASE d = c /\ StopLog(c)
  BY <1>1, <1>3 DEF StopLog, LogAlive, TypeOK
<1>4. CASE d = c /\ modem_reset_flag[c] /\ RestartLog(c)
  <2>1. ~LogAlive(c)
    BY <1>1, <1>4 DEF LogAlive
  <2> QED BY <1>1, <1>4, <2>1 DEF RestartLog, TypeOK
<1> QED BY <1>2, <1>3, <1>4 DEF DumpReads

\* The log thread's own steps.
LEMMA LogSteps ==
  ASSUME TypeOK, LogStoppedOnlyForReset, NEW c \in Clients, LogThread(c)
  PROVE  LogStoppedOnlyForReset'
<1> SUFFICES ASSUME NEW d \in DumpClients
             PROVE  /\ ~orphan'[d] /\ (log'[d] = "killed" => modem_reset_flag'[d])
                    /\ modem_reset_flag'[d] => log'[d] \notin {"starting", "running"}
  BY DEF LogStoppedOnlyForReset, LogAlive
<1>1. /\ ~orphan[d] /\ (log[d] = "killed" => modem_reset_flag[d])
      /\ modem_reset_flag[d] => log[d] \notin {"starting", "running"}
  BY DEF LogStoppedOnlyForReset, LogAlive
<1>2. UNCHANGED <<orphan, modem_reset_flag>>
  BY DEF LogThread, LogStarts, LogRefuses, LogReadFails, LogReopens, LogEnds, unchangedByLog
<1>3. \/ log'[d] = log[d]
      \/ log[d] \in {"starting", "running"} /\ log'[d] \in {"running", "returned"}
  BY DEF LogThread, LogStarts, LogRefuses, LogReadFails, LogReopens, LogEnds, TypeOK
<1> QED BY <1>1, <1>2, <1>3

\* For every sequence of asserts and "Modem Alive", and wherever the log thread is
\* or has ended when one arrives: never a second log thread, none while the modem is
\* being reset, and none killed without a restart owed (handler.c:692-708).
THEOREM LogCorrect == Spec => []LogStoppedOnlyForReset
<1>1. Init => LogStoppedOnlyForReset
  BY DEF Init, LogStoppedOnlyForReset
<1>3. ASSUME LogStoppedOnlyForReset, UNCHANGED <<modem_reset_flag, log, orphan>>
      PROVE  LogStoppedOnlyForReset'
  BY <1>3 DEF LogStoppedOnlyForReset, LogAlive
<1>4. TypeOK /\ LogStoppedOnlyForReset /\ [Next]_vars => LogStoppedOnlyForReset'
  <2> SUFFICES ASSUME TypeOK, LogStoppedOnlyForReset, [Next]_vars
               PROVE  LogStoppedOnlyForReset'
    OBVIOUS
  <2>1. CASE UNCHANGED vars
    BY <1>3, <2>1 DEF vars, clients, slog
  <2>2. CASE AcceptThread \/ ListenFails
    BY <1>3, <2>2 DEF AcceptThread, Listen, Accept, ScanSlot, ScanFull, ListenFails, Exit,
                      clients, slog
  <2>3. CASE Main \/ ReopenFails \/ ReadNothing \/ \E m \in Msgs : ReadMessage(m)
    BY <1>3, <2>3 DEF Main, Reopen, SkipFree, WriteClient, CloseClient, ClearEntry, ReportDone,
                      ReopenFails, Exit, ReadNothing, ReadMessage, clients, slog
  <2>4. ASSUME NEW c \in Clients, Client(c) \/ LogThread(c) \/ Die(c)
        PROVE  LogStoppedOnlyForReset'
    BY <1>3, <2>4, LogMessage, LogSteps DEF Client, Connect, ResetReads, DumpReconnects, Die, slog
  <2> QED BY <2>1, <2>2, <2>3, <2>4 DEF Next
<1>5. TableInv => TypeOK
  BY DEF TableInv
<1> QED BY <1>1, <1>4, <1>5, TableInvariant, PTL DEF Spec
=============================================================================
