---------------------------- MODULE RemoteSessions ----------------------------
(***************************************************************************)
(* The launch sessions of one agent in talos_server: how a shell, desktop, *)
(* file transfer, registry or chat session is negotiated with the agent,   *)
(* attached and kept alive by its viewer, and removed by its viewer, by    *)
(* the reaper, or by the cleanup that follows the agent's disconnection.   *)
(*                                                                         *)
(* Nothing but the maps' own locks orders these: a session is inserted     *)
(* long after the agent was looked up, and the cleanup empties the maps    *)
(* one by one.  The agent's sockets are reduced to the connection the      *)
(* directory holds (AgentDirectory has the rest), a viewer's calls to      *)
(* their effect on the maps, a clock to what has become too old.  Handlers *)
(* that read a session and then write it with get_mut are one step: when   *)
(* the session goes in between, the write does nothing.                    *)
(***************************************************************************)
EXTENDS Naturals, Sequences, FiniteSets

CONSTANTS
    Shell, File, Desktop, Registry, Chat,   \* the session ids of each kind
    NoParent,                               \* a chat opened without a desktop
    MaxConnections,                         \* bound: connections of the agent
    MaxSessions                             \* bound: sessions started

Session == Shell \cup File \cup Desktop \cup Registry \cup Chat

ASSUME KindAssumption ==
    /\ Shell \cap (File \cup Desktop \cup Registry \cup Chat) = {}
    /\ File \cap (Desktop \cup Registry \cup Chat) = {}
    /\ Desktop \cap (Registry \cup Chat) = {}
    /\ Registry \cap Chat = {}
    /\ NoParent \notin Desktop

ASSUME BoundsAssumption == MaxConnections \in Nat /\ MaxSessions \in Nat

VARIABLES
    entry,      \* the connection in the directory, 0 when the agent is offline
    opened,     \* connections so far
    sweep,      \* sweep[c]: the next map the cleanup of c empties; 0: not begun
    start,      \* start[s]: where the handler that starts s is
    via,        \* via[s]: the connection that handler looked up
    pending,    \* pending[s]: the request it waits on: "none", "fresh" or "stale"
    table,      \* table[s]: "absent", "open" or "ended" in the map of its kind
    attached,   \* attached[s]: attached_at is set
    beat,       \* beat[s]: a chat's viewer_last_heartbeat_at: "never", "fresh" or "expired"
    old,        \* old[s]: older than UNATTACHED_SESSION_TTL, and unattached
    parent,     \* parent[s]: parent_desktop_session_id
    ending,     \* ending[d]: the end of d: "no", "children" still to go, or "done"
    late        \* history: s was inserted after its connection or its parent had gone

connection == <<entry, opened, sweep>>
starting == <<start, pending>>
record == <<via, parent, attached, beat, old, late>>
vars == <<connection, starting, table, record, ending>>

Connection == 1..MaxConnections

\* The order in which handle_socket empties the maps of the agent.
SweepOrder == <<Shell, File, Desktop, Registry, Chat>>
Swept == Len(SweepOrder) + 1

Waiting == {"capabilities", "reflex", "legacy reflex", "offer"}

\* The record goes with the entry of the map.
Remove(gone) ==
    LET Keep(f, none) == [s \in Session |-> IF s \in gone /\ table[s] = "open" THEN none ELSE f[s]]
    IN  /\ table' = Keep(table, "ended")
        /\ via' = Keep(via, 0) /\ parent' = Keep(parent, NoParent)
        /\ attached' = Keep(attached, FALSE) /\ beat' = Keep(beat, "never")
        /\ old' = Keep(old, FALSE) /\ late' = Keep(late, FALSE)

Moves(s, stage) == start' = [start EXCEPT ![s] = stage]

\* The start handler goes on, or returns an error and forgets the session.
Goes(s, stage) == Moves(s, stage) /\ UNCHANGED record
Fails(s) ==
    /\ Moves(s, "returned")
    /\ via' = [via EXCEPT ![s] = 0] /\ parent' = [parent EXCEPT ![s] = NoParent]
    /\ UNCHANGED <<attached, beat, old, late>>

--------------------------------------------------------------------------------
(* The agent's connections                                                 *)

\* A new connection takes over the entry: Register of AgentDirectory.
Connect ==
    /\ opened < MaxConnections
    /\ opened' = opened + 1
    /\ entry' = opened + 1
    /\ UNCHANGED <<sweep, starting, table, record, ending>>

\* handle_socket ends and disconnect_unless_replaced removes the entry.  The
\* socket of a connection that was replaced ends without a cleanup.
Disconnect ==
    /\ entry # 0
    /\ sweep' = [sweep EXCEPT ![entry] = 1]
    /\ entry' = 0
    /\ UNCHANGED <<opened, starting, table, record, ending>>

Empty(i) == \A s \in SweepOrder[i] : table[s] # "open"

\* Mutant: the cleanup forgets the registry sessions.
SweepMapButRegistry(c, i) ==
    /\ 0 < sweep[c] /\ sweep[c] <= i
    /\ \A j \in sweep[c]..(i - 1) : Empty(j)
    /\ ~Empty(i) \/ i = Len(SweepOrder)
    /\ Remove(SweepOrder[i] \ Registry)
    /\ sweep' = [sweep EXCEPT ![c] = i + 1]
    /\ UNCHANGED <<entry, opened, starting, ending>>

\* After the disconnection is reported, which awaits the API: the ids of the
\* agent are read from the next map and removed, whatever connection they
\* were opened on.  Maps without sessions of the agent are passed over.
SweepMap(c, i) ==
    /\ 0 < sweep[c] /\ sweep[c] <= i
    /\ \A j \in sweep[c]..(i - 1) : Empty(j)
    /\ ~Empty(i) \/ i = Len(SweepOrder)
    /\ Remove(SweepOrder[i])
    /\ sweep' = [sweep EXCEPT ![c] = i + 1]
    /\ UNCHANGED <<entry, opened, starting, ending>>

--------------------------------------------------------------------------------
(* Starting a session                                                      *)

\* Look up the agent, insert the pending entry and send the request.  When
\* the connection has gone the entry is left behind.
Look(s, stage, p) ==
    /\ start[s] = "none" /\ entry # 0
    /\ Cardinality({t \in Session : start[t] # "none"}) < MaxSessions
    /\ pending' = [pending EXCEPT ![s] = "fresh"]
    /\ \/ /\ Moves(s, stage)
          /\ via' = [via EXCEPT ![s] = entry]
          /\ parent' = [parent EXCEPT ![s] = p]
          /\ UNCHANGED <<attached, beat, old, late>>
       \/ Fails(s)
    /\ UNCHANGED <<connection, table, ending>>

\* The start handlers differ in their first request; the rest of each is the
\* actions that follow, up to Insert.
StartDesktop(s) == s \in Desktop /\ Look(s, "capabilities", NoParent)
StartFileTransfer(s) == s \in File /\ Look(s, "capabilities", NoParent)
StartRegistry(s) == s \in Registry /\ Look(s, "capabilities", NoParent)
StartShell(s) == s \in Shell /\ Look(s, "offer", NoParent)
StartChat(s, p) == s \in Chat /\ Look(s, "capabilities", p)

\* The desktop session is read, then the chat is started in its name.
OpenChatFromSession(s, d) == table[d] = "open" /\ StartChat(s, d)

\* An answer of the agent takes the entry out of its map.
Answered(s) ==
    /\ pending[s] = "fresh" /\ entry # 0
    /\ pending' = [pending EXCEPT ![s] = "none"]
    /\ UNCHANGED <<connection, table, ending>>

\* handle_session_capabilities_response; the feature may be missing.
Capabilities(s) ==
    /\ start[s] = "capabilities" /\ Answered(s)
    /\ Goes(s, "capable") \/ Fails(s)

\* tunnel_prepare.  A headless desktop does not wait for an answer, and a
\* message that cannot be sent leaves the entry behind.
Prepare(s) ==
    /\ start[s] \in {"capable", "legacy"}
    /\ \/ /\ pending' = [pending EXCEPT ![s] = "fresh"]
          /\ Goes(s, IF start[s] = "legacy" THEN "legacy reflex" ELSE "reflex") \/ Fails(s)
       \/ /\ s \in Desktop /\ start[s] = "capable" /\ UNCHANGED pending
          /\ Goes(s, "granted") \/ Fails(s)
    /\ UNCHANGED <<connection, table, ending>>

\* handle_quic_reflex.
Reflex(s) == start[s] \in {"reflex", "legacy reflex"} /\ Answered(s) /\ Goes(s, "granted")

\* handle_remote_desktop_unavailable: a desktop is tried once more with the
\* legacy profile or given up; the other kinds go on with the relay.
Unavailable(s) ==
    /\ start[s] \in {"reflex", "legacy reflex"} /\ Answered(s)
    /\ \/ s \in Desktop /\ start[s] = "reflex" /\ Goes(s, "legacy")
       \/ s \in Desktop /\ Fails(s)
       \/ s \notin Desktop /\ Goes(s, "granted")

\* handle_shell_offer, handle_shell_error.
ShellAnswer(s) ==
    /\ start[s] = "offer" /\ Answered(s)
    /\ Goes(s, "granted") \/ Fails(s)

\* The wait of 10 or 15 s runs out.  Without a reflex the relay is left.
TimeOut(s) ==
    /\ start[s] \in Waiting
    /\ pending' = [pending EXCEPT ![s] = "none"]
    /\ IF start[s] \in {"reflex", "legacy reflex"} THEN Goes(s, "granted") ELSE Fails(s)
    /\ UNCHANGED <<connection, table, ending>>

CameLate(s) ==
    \/ \E c \in Connection : via[s] <= c /\ sweep[c] # 0
    \/ parent[s] # NoParent /\ ending[parent[s]] = "done"

\* The session is inserted without another look at the directory, the
\* parent or the cleanup.  A shell counts as attached from the beginning.
Insert(s) ==
    /\ start[s] = "granted"
    /\ Moves(s, "returned")
    /\ table' = [table EXCEPT ![s] = "open"]
    /\ attached' = [attached EXCEPT ![s] = s \in Shell]
    /\ late' = [late EXCEPT ![s] = CameLate(s)]
    /\ UNCHANGED <<connection, pending, via, parent, beat, old, ending>>

--------------------------------------------------------------------------------
(* The viewer                                                              *)

Touch(s, heard) ==
    /\ table[s] = "open"
    /\ attached' = [attached EXCEPT ![s] = TRUE]
    /\ old' = [old EXCEPT ![s] = FALSE]
    /\ beat' = [beat EXCEPT ![s] = IF heard /\ s \in Chat THEN "fresh" ELSE @]
    /\ UNCHANGED <<connection, starting, table, via, parent, late, ending>>

ViewerConnected(s) == Touch(s, TRUE)
ViewerHeartbeat(s) == Touch(s, TRUE)

\* The viewer's address is stored and passed on to a connected agent.
ViewerReflex(s) == Touch(s, FALSE)

\* The relay needs the agent; a chat takes the request as a heartbeat.
RequestRelay(s) == s \notin Chat /\ entry # 0 /\ Touch(s, FALSE)
RequestChatRelay(s) == s \in Chat /\ entry # 0 /\ Touch(s, TRUE)

Ends(s) ==
    /\ table[s] = "open"
    /\ Remove({s})
    /\ UNCHANGED <<connection, starting, ending>>

EndFileTransfer(s) == s \in File /\ Ends(s)
EndRegistry(s) == s \in Registry /\ Ends(s)
EndShell(s) == s \in Shell /\ Ends(s)
EndChat(s) == s \in Chat /\ Ends(s)

\* The desktop goes first, its chats after it.
EndDesktop(d) ==
    /\ table[d] = "open"
    /\ Remove({d})
    /\ ending' = [ending EXCEPT ![d] = "children"]
    /\ UNCHANGED <<connection, starting>>

Children(d) == {s \in Chat : parent[s] = d}

\* Mutant: only the chats a viewer has attached are ended.
EndAttachedChildren(d) ==
    /\ ending[d] = "children"
    /\ Remove({s \in Children(d) : attached[s]})
    /\ ending' = [ending EXCEPT ![d] = "done"]
    /\ UNCHANGED <<connection, starting>>

EndChildren(d) ==
    /\ ending[d] = "children"
    /\ Remove(Children(d))
    /\ ending' = [ending EXCEPT ![d] = "done"]
    /\ UNCHANGED <<connection, starting>>

\* The API ends a desktop of the AI runner: its chats go even when the
\* desktop has gone already.
CleanupAiRunnerSession(d) ==
    /\ table[d] # "absent" /\ ending[d] # "children"
    /\ Remove({d})
    /\ ending' = [ending EXCEPT ![d] = "children"]
    /\ UNCHANGED <<connection, starting>>

--------------------------------------------------------------------------------
(* Time and the reaper                                                     *)

\* A wait is shorter than PENDING_REQUEST_TTL: only an entry its handler has
\* left behind grows stale.
AgePending(s) ==
    /\ pending[s] = "fresh" /\ start[s] = "returned"
    /\ pending' = [pending EXCEPT ![s] = "stale"]
    /\ UNCHANGED <<connection, start, table, record, ending>>

AgeSession(s) ==
    /\ table[s] = "open" /\ ~attached[s] /\ ~old[s]
    /\ old' = [old EXCEPT ![s] = TRUE]
    /\ UNCHANGED <<connection, starting, table, via, parent, attached, beat, late, ending>>

AgeBeat(s) ==
    /\ table[s] = "open" /\ beat[s] = "fresh"
    /\ beat' = [beat EXCEPT ![s] = "expired"]
    /\ UNCHANGED <<connection, starting, table, via, parent, attached, old, late, ending>>

UnattachedStale(s) == ~attached[s] /\ old[s]

\* Mutant: a chat is treated like the other sessions.
HeartbeatNeverExpires(s) == FALSE

\* Only a chat lives on its heartbeats, and only once it has had one.
HeartbeatExpired(s) == s \in Chat /\ attached[s] /\ beat[s] = "expired"

\* Mutant: the maps of pending requests are left alone.
ReapSessionsOnly ==
    /\ Remove({s \in Session : UnattachedStale(s) \/ HeartbeatExpired(s)})
    /\ UNCHANGED <<connection, starting, ending>>

\* Mutant: a session that was never attached is kept.
ReapAttachedOnly ==
    /\ pending' = [s \in Session |-> IF pending[s] = "stale" THEN "none" ELSE pending[s]]
    /\ Remove({s \in Session : HeartbeatExpired(s)})
    /\ UNCHANGED <<connection, start, ending>>

\* One round over every map.
Reap ==
    /\ pending' = [s \in Session |-> IF pending[s] = "stale" THEN "none" ELSE pending[s]]
    /\ Remove({s \in Session : UnattachedStale(s) \/ HeartbeatExpired(s)})
    /\ UNCHANGED <<connection, start, ending>>

--------------------------------------------------------------------------------
Init ==
    /\ entry = 0 /\ opened = 0 /\ sweep = [c \in Connection |-> 0]
    /\ start = [s \in Session |-> "none"]
    /\ via = [s \in Session |-> 0]
    /\ pending = [s \in Session |-> "none"]
    /\ table = [s \in Session |-> "absent"]
    /\ attached = [s \in Session |-> FALSE]
    /\ beat = [s \in Session |-> "never"]
    /\ old = [s \in Session |-> FALSE]
    /\ parent = [s \in Session |-> NoParent]
    /\ ending = [d \in Desktop |-> "no"]
    /\ late = [s \in Session |-> FALSE]

Starts(s) ==
    \/ StartDesktop(s) \/ StartFileTransfer(s) \/ StartRegistry(s) \/ StartShell(s)
    \/ StartChat(s, NoParent) \/ \E d \in Desktop : OpenChatFromSession(s, d)

Answers(s) == Capabilities(s) \/ Reflex(s) \/ Unavailable(s) \/ ShellAnswer(s)

Views(s) ==
    \/ ViewerConnected(s) \/ ViewerHeartbeat(s) \/ ViewerReflex(s)
    \/ RequestRelay(s) \/ RequestChatRelay(s)

RunsOn(s) == Prepare(s) \/ TimeOut(s) \/ Insert(s)

Closes(s) == EndFileTransfer(s) \/ EndRegistry(s) \/ EndShell(s) \/ EndChat(s)

Ages(s) == AgePending(s) \/ AgeSession(s) \/ AgeBeat(s)

Next ==
    \/ Connect \/ Disconnect \/ \E c \in Connection, i \in 1..Len(SweepOrder) : SweepMap(c, i)
    \/ \E s \in Session :
          \/ Starts(s) \/ Answers(s) \/ RunsOn(s)
          \/ Views(s) \/ Closes(s) \/ Ages(s)
    \/ \E d \in Desktop : EndDesktop(d) \/ EndChildren(d) \/ CleanupAiRunnerSession(d)
    \/ Reap

Spec == Init /\ [][Next]_vars

\* The handlers of the server run on, waits run out, time passes and the
\* reaper comes round.  Agent, viewer and network owe nothing.
FairSpec ==
    /\ Spec
    /\ WF_vars(Reap)
    /\ \A s \in Session : WF_vars(RunsOn(s)) /\ WF_vars(Ages(s))

--------------------------------------------------------------------------------
(* Properties                                                              *)

\* Type invariant of the session maps, the handlers and the connections.
TypeOK ==
    /\ entry \in 0..opened /\ opened \in 0..MaxConnections
    /\ sweep \in [Connection -> 0..Swept]
    /\ start \in [Session -> Waiting \cup {"none", "capable", "legacy", "granted", "returned"}]
    /\ via \in [Session -> 0..MaxConnections]
    /\ pending \in [Session -> {"none", "fresh", "stale"}]
    /\ table \in [Session -> {"absent", "open", "ended"}]
    /\ attached \in [Session -> BOOLEAN]
    /\ beat \in [Session -> {"never", "fresh", "expired"}]
    /\ old \in [Session -> BOOLEAN]
    /\ parent \in [Session -> Desktop \cup {NoParent}]
    /\ ending \in [Desktop -> {"no", "children", "done"}]
    /\ late \in [Session -> BOOLEAN]

\* A session outlives the connection it was started on only until a cleanup
\* reaches the map of its kind.  The exceptions are the sessions the start
\* handlers insert when the cleanup has already begun.
CleanupReachesAll ==
    \A s \in Session, c \in Connection :
        (/\ table[s] = "open" /\ ~late[s]
         /\ via[s] <= c /\ sweep[c] # 0) =>
            \E b \in Connection, i \in 1..Len(SweepOrder) :
                sweep[b] \in 1..i /\ s \in SweepOrder[i]

\* When end_remote_desktop_session has gone through, no chat opened from the
\* desktop is left, except one that was inserted after it.
ChatsEndWithDesktop ==
    \A s \in Chat :
        (table[s] = "open" /\ ~late[s] /\ parent[s] # NoParent) => ending[parent[s]] # "done"

\* No pending request stays in its map, whether the agent answers, the wait
\* runs out or the message could not be sent (every id is started once, so
\* what holds for each in the end holds for all).
PendingCleared == <>[](\A s \in Session : pending[s] = "none")

\* A session nobody attaches is removed after UNATTACHED_SESSION_TTL.
UnattachedExpire == <>[](\A s \in Session : table[s] = "open" => attached[s])

\* A chat whose viewer has fallen silent is removed, unless a call of the
\* viewer comes first.
SilentChatEnds ==
    \A s \in Chat :
        table[s] = "open" /\ beat[s] = "expired" ~> table[s] # "open" \/ beat[s] = "fresh"

================================================================================
