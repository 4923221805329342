---------------------------- MODULE AgentDirectory ----------------------------
(***************************************************************************)
(* The sockets of one agent in talos_server: the entry of the agent in     *)
(* AgentDirectory, through which every request reaches it, and the         *)
(* websocket_status column of its device row.                              *)
(*                                                                         *)
(* A worker opens its next socket when its last one has failed, which      *)
(* talos_server may notice much later: handle_socket first works off what  *)
(* it has received.  Each handler awaits the API between its steps, so     *)
(* the handlers of an old and a new socket interleave.  Agents share       *)
(* nothing here, so one is enough.                                         *)
(*                                                                         *)
(* Not part of this module: the launch sessions handle_socket also drops   *)
(* when it ends, and the messages that touch neither entry nor status.     *)
(***************************************************************************)
EXTENDS Naturals, Sequences

CONSTANTS
    Socket,         \* the sockets of the agent, numbered in the order they are opened
    NoSocket,       \* no entry in the directory
    MaxUnread       \* bound: messages the server has received and not read

ASSUME SocketAssumption == Socket \subseteq Nat /\ NoSocket \notin Socket

ASSUME UnreadAssumption == MaxUnread \in Nat \ {0}

VARIABLES
    link,           \* link[s]: the worker's end: "unopened", "open" or "cut"
    unread,         \* unread[s]: messages received and not read
    handler,        \* handler[s]: where handle_socket is
    known,          \* known[s]: its local agent_id is set
    entry,          \* the socket whose sender is in the directory, or NoSocket
    status,         \* websocket_status
    lost            \* history: a report of a disconnection did not reach the API

vars == <<link, unread, handler, known, entry, status, lost>>

Message == {"agent_hello", "inventory_update", "telemetry"}
Handler == {"none", "reading", "enrolling", "announcing", "registering", "leaving", "gone"}
Served(s) == handler[s] \notin {"none", "gone"}

Moves(s, to) == handler' = [handler EXCEPT ![s] = to]

--------------------------------------------------------------------------------
(* The worker and the network                                              *)

\* connect_and_run: the hello is the first message.
Open(s) ==
    /\ link[s] = "unopened"
    /\ \A t \in Socket : t < s => link[t] = "cut"
    /\ link' = [link EXCEPT ![s] = "open"]
    /\ unread' = [unread EXCEPT ![s] = <<"agent_hello">>]
    /\ Moves(s, "reading")
    /\ UNCHANGED <<known, entry, status, lost>>

\* The inventory interval ticks, or telemetry is streamed.
SendMessage(s, message) ==
    /\ link[s] = "open" /\ Len(unread[s]) < MaxUnread
    /\ message \in {"inventory_update", "telemetry"}
    /\ unread' = [unread EXCEPT ![s] = Append(@, message)]
    /\ UNCHANGED <<link, handler, known, entry, status, lost>>

Cut(s) ==
    /\ link[s] = "open"
    /\ link' = [link EXCEPT ![s] = "cut"]
    /\ UNCHANGED <<unread, handler, known, entry, status, lost>>

--------------------------------------------------------------------------------
(* handle_agent_message                                                    *)

\* Mutant: only the hello registers.
ReadHelloOnly(s) ==
    /\ handler[s] = "reading" /\ unread[s] # <<>>
    /\ unread' = [unread EXCEPT ![s] = Tail(@)]
    /\ IF Head(unread[s]) = "agent_hello"
       THEN Moves(s, "enrolling") /\ UNCHANGED known
       ELSE known' = [known EXCEPT ![s] = TRUE] /\ UNCHANGED handler
    /\ UNCHANGED <<link, entry, status, lost>>

\* Snapshots and events name the agent without registering it.
Read(s) ==
    /\ handler[s] = "reading" /\ unread[s] # <<>>
    /\ unread' = [unread EXCEPT ![s] = Tail(@)]
    /\ IF Head(unread[s]) \in {"agent_hello", "inventory_update"}
       THEN Moves(s, "enrolling") /\ UNCHANGED known
       ELSE known' = [known EXCEPT ![s] = TRUE] /\ UNCHANGED handler
    /\ UNCHANGED <<link, entry, status, lost>>

\* enroll_agent and upsert_device or upsert_inventory.
Enroll(s) ==
    /\ handler[s] = "enrolling"
    /\ Moves(s, "announcing")
    /\ UNCHANGED <<link, unread, known, entry, status, lost>>

\* A report that fails is logged.
Announce(s) ==
    /\ handler[s] = "announcing"
    /\ status' \in {"connected", status}
    /\ Moves(s, "registering")
    /\ UNCHANGED <<link, unread, known, entry, lost>>

Register(s) ==
    /\ handler[s] = "registering"
    /\ entry' = s
    /\ known' = [known EXCEPT ![s] = TRUE]
    /\ Moves(s, "reading")
    /\ UNCHANGED <<link, unread, status, lost>>

--------------------------------------------------------------------------------
(* The end of handle_socket                                                *)

\* Mutant: the entry is left behind.
DisconnectKeepingEntry(s) ==
    /\ entry' = entry
    /\ Moves(s, IF known[s] /\ entry \in {s, NoSocket} THEN "leaving" ELSE "gone")

\* disconnect_unless_replaced, for a socket that learned its agent's ID.
Disconnect(s) ==
    /\ entry' = IF known[s] /\ entry = s THEN NoSocket ELSE entry
    /\ Moves(s, IF known[s] /\ entry \in {s, NoSocket} THEN "leaving" ELSE "gone")

\* The loop ends at the end of the stream, at a failed read or ping, which loses
\* what is unread, or at a message the API did not accept.
EndSocket(s) ==
    /\ handler[s] \in {"reading", "enrolling"}
    /\ Disconnect(s)
    /\ link' = [link EXCEPT ![s] = "cut"]
    /\ unread' = [unread EXCEPT ![s] = <<>>]
    /\ UNCHANGED <<known, status, lost>>

\* Mutant: the disconnection is not reported.
ReportDisconnectedNot(s) ==
    /\ handler[s] = "leaving"
    /\ Moves(s, "gone")
    /\ UNCHANGED <<link, unread, known, entry, status, lost>>

\* The report has no retry.
ReportDisconnected(s) ==
    /\ handler[s] = "leaving"
    /\ \/ status' = "disconnected" /\ UNCHANGED lost
       \/ lost' = TRUE /\ UNCHANGED status
    /\ Moves(s, "gone")
    /\ UNCHANGED <<link, unread, known, entry>>

\* talos_server restarts: all of its memory is gone, and nothing is reported.
Restart ==
    /\ \E s \in Socket : Served(s)
    /\ handler' = [s \in Socket |-> IF Served(s) THEN "gone" ELSE handler[s]]
    /\ link' = [s \in Socket |-> IF Served(s) THEN "cut" ELSE link[s]]
    /\ unread' = [s \in Socket |-> <<>>]
    /\ entry' = NoSocket
    /\ lost' = TRUE
    /\ UNCHANGED <<known, status>>

--------------------------------------------------------------------------------

Init ==
    /\ link = [s \in Socket |-> "unopened"]
    /\ unread = [s \in Socket |-> <<>>]
    /\ handler = [s \in Socket |-> "none"]
    /\ known = [s \in Socket |-> FALSE]
    /\ entry = NoSocket
    /\ status = "unknown"
    /\ lost = FALSE

Handle(s) == Read(s) \/ Enroll(s) \/ Announce(s) \/ Register(s)

Next ==
    \/ \E s \in Socket : Open(s) \/ Cut(s)
    \/ \E s \in Socket, message \in Message : SendMessage(s, message)
    \/ \E s \in Socket : Handle(s) \/ EndSocket(s) \/ ReportDisconnected(s)
    \/ Restart

Spec == Init /\ [][Next]_vars

\* The tasks of a socket are scheduled, its pings fail in the end when the worker
\* is gone, the inventory interval keeps ticking, and a report that is repeated
\* with every inventory update does not fail for good.
Fairness ==
    \A s \in Socket :
        /\ WF_vars(Handle(s)) /\ WF_vars(ReportDisconnected(s))
        /\ WF_vars(EndSocket(s) /\ link[s] = "cut")
        /\ SF_vars(SendMessage(s, "inventory_update"))
        /\ SF_vars(Enroll(s)) /\ SF_vars(Announce(s) /\ status' = "connected")

FairSpec == Spec /\ Fairness

--------------------------------------------------------------------------------
(* Properties                                                              *)

\* The directory, the row and the handlers hold values of their types.
TypeOK ==
    /\ link \in [Socket -> {"unopened", "open", "cut"}]
    /\ unread \in [Socket -> Seq(Message)]
    /\ handler \in [Socket -> Handler]
    /\ known \in [Socket -> BOOLEAN]
    /\ entry \in Socket \cup {NoSocket}
    /\ status \in {"unknown", "connected", "disconnected"}
    /\ lost \in BOOLEAN

\* The entry exists only while its socket is served: no request is sent into
\* the channel of a socket whose handle_socket has ended, however the ends and
\* the registrations of old and new sockets interleave.
EntryIsServed == entry # NoSocket => Served(entry)

\* When the last socket has ended, the device is not left on record as
\* connected: of all handlers that announced it, the one that registered last
\* reports the disconnection (unless that report was lost, or the server died).
OfflineIsReported ==
    (\A s \in Socket : ~Served(s)) /\ ~lost => status # "connected"

\* Why the two hold (their inductive strengthening): the socket in the directory
\* is being served, knows its agent and has not begun to leave, and a device on
\* record as connected is in the directory or about to be, or some handler is
\* about to report the disconnection.
DirectoryInv ==
    /\ TypeOK
    /\ \A s \in Socket : link[s] = "unopened" => handler[s] = "none"
    /\ entry # NoSocket => Served(entry) /\ known[entry] /\ handler[entry] # "leaving"
    /\ status = "connected" /\ ~lost =>
          entry # NoSocket \/ \E s \in Socket : handler[s] \in {"registering", "leaving"}

\* A replacement socket keeps the entry: the end of an older socket never
\* removes the agent from the directory while a newer one, which has registered,
\* is still served (disconnect_unless_replaced).
StaleEndHarmless ==
    [][\A s, t \in Socket :
          s < t /\ entry = s /\ entry' = NoSocket => ~(Served(t) /\ known[t] /\ Served(t)')]_vars

\* A connection that lasts is in the end reachable through the directory and on
\* record as connected, whatever older sockets do as they end: the inventory
\* updates repair what they undo.
Reconverges ==
    \A s \in Socket :
        <>[](link[s] = "open") => <>[](entry = s /\ status = "connected")

================================================================================
