------------------------ MODULE RemoteSessionsProofs ------------------------
(***************************************************************************)
(* Proofs about the launch sessions of an agent, for any sets of sessions  *)
(* and any number of connections.                                          *)
(***************************************************************************)
EXTENDS RemoteSessions, TLAPS

\* A session whose start handler has not returned is in no map: Look and
\* Fails may overwrite its record.
Unreturned == \A s \in Session : start[s] # "returned" => table[s] = "absent"

\* The strengthening that a step of any handler preserves.
SessionInv == TypeOK /\ Unreturned /\ CleanupReachesAll /\ ChatsEndWithDesktop

\* The cleanup visits five maps, and every session is in one of them.
LEMMA EveryKindSwept ==
    /\ Len(SweepOrder) = 5 /\ Swept = 6
    /\ \A s \in Session : \E i \in 1..5 : s \in SweepOrder[i]
    /\ \A i \in 1..5 : SweepOrder[i] \subseteq Session
<1>1. Len(SweepOrder) = 5 /\ Swept = 6
  BY DEF SweepOrder, Swept
<1>2. /\ SweepOrder[1] = Shell /\ SweepOrder[2] = File /\ SweepOrder[3] = Desktop
      /\ SweepOrder[4] = Registry /\ SweepOrder[5] = Chat
  BY DEF SweepOrder
<1>3. 1 \in 1..5 /\ 2 \in 1..5 /\ 3 \in 1..5 /\ 4 \in 1..5 /\ 5 \in 1..5
  OBVIOUS
<1>4. \A s \in Session : \E i \in 1..5 : s \in SweepOrder[i]
  BY <1>2, <1>3 DEF Session
<1>5. \A i \in 1..5 : i = 1 \/ i = 2 \/ i = 3 \/ i = 4 \/ i = 5
  OBVIOUS
<1>6. \A i \in 1..5 : SweepOrder[i] \subseteq Session
  BY <1>2, <1>5 DEF Session
<1> QED BY <1>1, <1>4, <1>6

\* No session is open, waited for or swept at the start of the server.
LEMMA InitSession == Init => SessionInv
<1> SUFFICES ASSUME Init PROVE SessionInv
  OBVIOUS
<1>1. TypeOK
  BY BoundsAssumption, EveryKindSwept DEF Init, TypeOK, Connection
<1>2. Unreturned /\ CleanupReachesAll
  BY DEF Init, Unreturned, CleanupReachesAll
<1>3. ChatsEndWithDesktop
  BY DEF Init, ChatsEndWithDesktop, Session
<1> QED BY <1>1, <1>2, <1>3 DEF SessionInv

\* What removing a set of sessions (the ends, the cleanup and the reaper)
\* leaves of each record.
LEMMA RemoveFacts ==
    ASSUME TypeOK, NEW gone, Remove(gone)
    PROVE  /\ table' \in [Session -> {"absent", "open", "ended"}]
           /\ via' \in [Session -> 0..MaxConnections]
           /\ parent' \in [Session -> Desktop \cup {NoParent}]
           /\ attached' \in [Session -> BOOLEAN]
           /\ beat' \in [Session -> {"never", "fresh", "expired"}]
           /\ old' \in [Session -> BOOLEAN]
           /\ late' \in [Session -> BOOLEAN]
           /\ \A s \in Session :
                 /\ table[s] = "absent" <=> table'[s] = "absent"
                 /\ table'[s] = "open" =>
                       /\ table[s] = "open" /\ s \notin gone
                       /\ via'[s] = via[s] /\ parent'[s] = parent[s] /\ late'[s] = late[s]
<1>1. 0 \in 0..MaxConnections
  BY BoundsAssumption
<1>2. /\ table' \in [Session -> {"absent", "open", "ended"}]
      /\ via' \in [Session -> 0..MaxConnections]
      /\ parent' \in [Session -> Desktop \cup {NoParent}]
      /\ beat' \in [Session -> {"never", "fresh", "expired"}]
  BY <1>1 DEF TypeOK, Remove
<1>3. /\ attached' \in [Session -> BOOLEAN]
      /\ old' \in [Session -> BOOLEAN]
      /\ late' \in [Session -> BOOLEAN]
  BY DEF TypeOK, Remove
<1>4. \A s \in Session :
         /\ table[s] = "absent" <=> table'[s] = "absent"
         /\ table'[s] = "open" =>
               /\ table[s] = "open" /\ s \notin gone
               /\ via'[s] = via[s] /\ parent'[s] = parent[s] /\ late'[s] = late[s]
  BY DEF TypeOK, Remove
<1> QED BY <1>2, <1>3, <1>4

\* A step that removes sessions, and lets no end go through before the chats
\* of its desktop are among them, keeps the invariant.
LEMMA RemoveKeeps ==
    ASSUME SessionInv, NEW gone, Remove(gone),
           UNCHANGED <<entry, opened, sweep, start>>,
           pending' \in [Session -> {"none", "fresh", "stale"}],
           ending' \in [Desktop -> {"no", "children", "done"}],
           \A d \in Desktop : ending'[d] = "done" => ending[d] = "done" \/ Children(d) \subseteq gone
    PROVE  SessionInv'
<1> USE DEF SessionInv
<1>1. TypeOK'
  BY RemoveFacts DEF TypeOK
<1>2. Unreturned'
  BY RemoveFacts DEF Unreturned
<1>3. CleanupReachesAll'
  BY RemoveFacts DEF CleanupReachesAll, SweepOrder
<1>4. ChatsEndWithDesktop'
  <2> SUFFICES ASSUME NEW s \in Chat,
                      table'[s] = "open", ~late'[s], parent'[s] # NoParent,
                      ending'[parent'[s]] = "done"
               PROVE  FALSE
    BY DEF ChatsEndWithDesktop
  <2>1. s \in Session
    BY DEF Session
  <2>2. table[s] = "open" /\ s \notin gone /\ parent'[s] = parent[s] /\ ~late[s]
    BY <2>1, RemoveFacts
  <2>3. parent[s] \in Desktop /\ s \in Children(parent[s])
    BY <2>1, <2>2 DEF TypeOK, Children
  <2> QED BY <2>2, <2>3 DEF ChatsEndWithDesktop
<1> QED BY <1>1, <1>2, <1>3, <1>4

\* Connections come and go: a disconnection begins a cleanup that has every
\* map before it.
LEMMA ConnectionKeeps ==
    ASSUME SessionInv, Connect \/ Disconnect
    PROVE  SessionInv'
<1> USE DEF SessionInv, connection, starting, record
<1>1. CASE Connect
  <2>1. TypeOK'
    BY <1>1, BoundsAssumption DEF Connect, TypeOK
  <2> QED BY <1>1, <2>1 DEF Connect, Unreturned, CleanupReachesAll, ChatsEndWithDesktop, SweepOrder
<1>2. CASE Disconnect
  <2>1. entry \in Connection
    BY <1>2, BoundsAssumption DEF Disconnect, TypeOK, Connection
  <2>2. TypeOK'
    BY <1>2, <2>1, EveryKindSwept DEF Disconnect, TypeOK
  <2>3. sweep'[entry] = 1 /\ entry \in Connection
    BY <1>2, <2>1 DEF Disconnect, TypeOK
  <2>4. CleanupReachesAll'
    <3> SUFFICES ASSUME NEW s \in Session
                 PROVE  \E b \in Connection, i \in 1..Len(SweepOrder) :
                            sweep'[b] \in 1..i /\ s \in SweepOrder[i]
      BY DEF CleanupReachesAll, SweepOrder
    <3>1. PICK i \in 1..5 : s \in SweepOrder[i]
      BY EveryKindSwept
    <3>2. 1 \in 1..i
      OBVIOUS
    <3> QED BY <2>3, <3>1, <3>2, EveryKindSwept
  <2> QED BY <1>2, <2>2, <2>4 DEF Disconnect, Unreturned, ChatsEndWithDesktop
<1> QED BY <1>1, <1>2

\* Emptying a map, after the ones passed over because they were empty.
LEMMA SweepKeeps ==
    ASSUME SessionInv, NEW c \in Connection, NEW i \in 1..Len(SweepOrder), SweepMap(c, i)
    PROVE  SessionInv'
<1> USE DEF SessionInv, starting
<1>1. Remove(SweepOrder[i]) /\ sweep' = [sweep EXCEPT ![c] = i + 1] /\ sweep[c] \in 1..i
  BY EveryKindSwept DEF SweepMap, TypeOK
<1>2. TypeOK'
  <2>1. i + 1 \in 0..Swept
    BY EveryKindSwept
  <2>2. sweep' \in [Connection -> 0..Swept]
    BY <1>1, <2>1 DEF TypeOK
  <2> QED BY <1>1, <2>2, RemoveFacts DEF SweepMap, TypeOK
<1>3. Unreturned'
  BY <1>1, RemoveFacts DEF SweepMap, Unreturned
<1>4. CleanupReachesAll'
  <2> SUFFICES ASSUME NEW s \in Session, NEW a \in Connection,
                      table'[s] = "open", ~late'[s], via'[s] <= a, sweep'[a] # 0
               PROVE  \E b \in Connection, j \in 1..Len(SweepOrder) :
                          sweep'[b] \in 1..j /\ s \in SweepOrder[j]
    BY DEF CleanupReachesAll, SweepOrder
  <2>1. table[s] = "open" /\ s \notin SweepOrder[i] /\ ~late[s] /\ via[s] <= a
    BY <1>1, RemoveFacts
  <2>2. sweep[a] # 0
    BY <1>1 DEF TypeOK
  <2>3. PICK b \in Connection, j \in 1..Len(SweepOrder) : sweep[b] \in 1..j /\ s \in SweepOrder[j]
    BY <2>1, <2>2 DEF CleanupReachesAll
  <2>4. CASE b = c
    <3>1. ~(j \in sweep[c]..(i - 1))
      BY <2>1, <2>3 DEF SweepMap, Empty
    <3>2. j # i
      BY <2>1, <2>3
    <3>3. i < j
      BY <2>3, <2>4, <3>1, <3>2, EveryKindSwept, <1>1
    <3>4. sweep'[c] = i + 1
      BY <1>1 DEF TypeOK
    <3> QED BY <2>3, <3>3, <3>4, EveryKindSwept
  <2>5. CASE b # c
    BY <1>1, <2>3, <2>5 DEF TypeOK
  <2> QED BY <2>4, <2>5
<1>5. ChatsEndWithDesktop'
  BY <1>1, RemoveFacts DEF SweepMap, ChatsEndWithDesktop, Session
<1> QED BY <1>2, <1>3, <1>4, <1>5

Stage == Waiting \cup {"none", "capable", "legacy", "granted", "returned"}

\* A start handler that moves on touches only the record of its own session,
\* which is in no map yet.
LEMMA HandlerKeeps ==
    ASSUME SessionInv, NEW s \in Session, start[s] # "returned",
           NEW stage \in Stage, Moves(s, stage),
           NEW v \in 0..MaxConnections, NEW p \in Desktop \cup {NoParent},
           via' = [via EXCEPT ![s] = v], parent' = [parent EXCEPT ![s] = p],
           pending' \in [Session -> {"none", "fresh", "stale"}],
           UNCHANGED <<connection, table, ending, attached, beat, old, late>>
    PROVE  SessionInv'
<1> USE DEF SessionInv, connection
<1>1. table[s] = "absent"
  BY DEF Unreturned
<1>2. TypeOK'
  BY DEF TypeOK, Moves, Stage
<1>3. Unreturned'
  BY <1>1 DEF Unreturned, Moves, TypeOK
<1>4. \A u \in Session : table[u] = "open" => via'[u] = via[u] /\ parent'[u] = parent[u]
  BY <1>1 DEF TypeOK
<1>5. CleanupReachesAll'
  BY <1>4 DEF CleanupReachesAll, SweepOrder
<1>6. ChatsEndWithDesktop'
  BY <1>4 DEF ChatsEndWithDesktop, Session
<1> QED BY <1>2, <1>3, <1>5, <1>6

\* The two ways a start handler moves on: to its next stage, or to an error.
LEMMA GoesOrFails ==
    ASSUME SessionInv, NEW s \in Session, start[s] # "returned",
           NEW stage \in Stage, Goes(s, stage) \/ Fails(s),
           pending' \in [Session -> {"none", "fresh", "stale"}],
           UNCHANGED <<connection, table, ending>>
    PROVE  SessionInv'
<1>1. CASE Goes(s, stage)
  <2>1. /\ via[s] \in 0..MaxConnections /\ via' = [via EXCEPT ![s] = via[s]]
        /\ parent[s] \in Desktop \cup {NoParent} /\ parent' = [parent EXCEPT ![s] = parent[s]]
    BY <1>1 DEF Goes, record, SessionInv, TypeOK
  <2>2. Moves(s, stage) /\ UNCHANGED <<attached, beat, old, late>>
    BY <1>1 DEF Goes, record
  <2> QED BY <2>1, <2>2, HandlerKeeps
<1>2. CASE Fails(s)
  <2>1. 0 \in 0..MaxConnections /\ NoParent \in Desktop \cup {NoParent} /\ "returned" \in Stage
    BY BoundsAssumption DEF Stage
  <2> QED BY <1>2, <2>1, HandlerKeeps DEF Fails
<1> QED BY <1>1, <1>2

\* The directory holds a connection that was opened.
LEMMA EntryBound == TypeOK => entry \in 0..MaxConnections
<1> SUFFICES ASSUME TypeOK PROVE entry \in 0..MaxConnections
  OBVIOUS
<1>1. opened \in Nat /\ opened <= MaxConnections
  BY BoundsAssumption DEF TypeOK
<1>2. entry \in Nat /\ 0 <= entry /\ entry <= opened
  BY <1>1 DEF TypeOK
<1> QED BY <1>1, <1>2, BoundsAssumption

\* Every step of a start handler before the insertion.
LEMMA StartKeeps ==
    ASSUME SessionInv, NEW s \in Session,
           Starts(s) \/ Answers(s) \/ Prepare(s) \/ TimeOut(s)
    PROVE  SessionInv'
<1> USE DEF Stage, Waiting
<1>1. CASE Starts(s)
  <2>1. PICK stage \in Stage, p \in Desktop \cup {NoParent} : Look(s, stage, p)
    BY <1>1 DEF Starts, StartDesktop, StartFileTransfer, StartRegistry, StartShell, StartChat,
                OpenChatFromSession
  <2>2. entry \in 0..MaxConnections /\ start[s] # "returned"
    <3>1. start[s] = "none"
      BY <2>1 DEF Look
    <3> QED BY <3>1, EntryBound DEF SessionInv
  <2>3. pending' \in [Session -> {"none", "fresh", "stale"}]
    BY <2>1 DEF Look, SessionInv, TypeOK
  <2>4. CASE Fails(s)
    BY <2>1, <2>2, <2>3, <2>4, GoesOrFails DEF Look
  <2>5. CASE /\ Moves(s, stage) /\ via' = [via EXCEPT ![s] = entry]
             /\ parent' = [parent EXCEPT ![s] = p] /\ UNCHANGED <<attached, beat, old, late>>
    <3>1. UNCHANGED <<connection, table, ending, attached, beat, old, late>>
      BY <2>1, <2>5 DEF Look
    <3> QED BY <2>2, <2>3, <2>5, <3>1, HandlerKeeps
  <2> QED BY <2>1, <2>4, <2>5 DEF Look
<1>2. CASE Answers(s)
  <2>1. start[s] # "returned" /\ Answered(s)
    BY <1>2 DEF Answers, Capabilities, Reflex, Unavailable, ShellAnswer
  <2>2. PICK stage \in Stage : Goes(s, stage) \/ Fails(s)
    BY <1>2 DEF Answers, Capabilities, Reflex, Unavailable, ShellAnswer
  <2>3. pending' \in [Session -> {"none", "fresh", "stale"}]
    BY <2>1 DEF Answered, SessionInv, TypeOK
  <2> QED BY <2>1, <2>2, <2>3, GoesOrFails DEF Answered
<1>3. CASE Prepare(s)
  <2>1. start[s] # "returned" /\ UNCHANGED <<connection, table, ending>>
    BY <1>3 DEF Prepare
  <2>2. PICK stage \in Stage : Goes(s, stage) \/ Fails(s)
    BY <1>3 DEF Prepare
  <2>3. pending' \in [Session -> {"none", "fresh", "stale"}]
    BY <1>3 DEF Prepare, SessionInv, TypeOK
  <2> QED BY <2>1, <2>2, <2>3, GoesOrFails
<1>4. CASE TimeOut(s)
  <2>1. start[s] # "returned" /\ UNCHANGED <<connection, table, ending>>
    BY <1>4 DEF TimeOut
  <2>2. PICK stage \in Stage : Goes(s, stage) \/ Fails(s)
    BY <1>4 DEF TimeOut
  <2>3. pending' \in [Session -> {"none", "fresh", "stale"}]
    BY <1>4 DEF TimeOut, SessionInv, TypeOK
  <2> QED BY <2>1, <2>2, <2>3, GoesOrFails
<1> QED BY <1>1, <1>2, <1>3, <1>4

\* The insertion: what came late is marked late.
LEMMA InsertKeeps ==
    ASSUME SessionInv, NEW s \in Session, Insert(s)
    PROVE  SessionInv'
<1> USE DEF SessionInv, connection
<1>1. CameLate(s) \in BOOLEAN /\ (s \in Shell) \in BOOLEAN
  BY DEF CameLate
<1>2. TypeOK'
  BY <1>1 DEF Insert, Moves, TypeOK
<1>3. Unreturned'
  BY DEF Insert, Moves, Unreturned, TypeOK
<1>4. /\ late'[s] = CameLate(s)
      /\ \A u \in Session : u # s => table'[u] = table[u] /\ late'[u] = late[u]
  BY DEF Insert, TypeOK
<1>5. CleanupReachesAll'
  <2> SUFFICES ASSUME NEW u \in Session, NEW c \in Connection,
                      table'[u] = "open", ~late'[u], via'[u] <= c, sweep'[c] # 0
               PROVE  \E b \in Connection, i \in 1..Len(SweepOrder) :
                          sweep'[b] \in 1..i /\ u \in SweepOrder[i]
    BY DEF CleanupReachesAll, SweepOrder
  <2>1. via' = via /\ sweep' = sweep
    BY DEF Insert
  <2>2. u # s
    BY <1>4, <2>1 DEF CameLate
  <2> QED BY <1>4, <2>1, <2>2 DEF CleanupReachesAll
<1>6. ChatsEndWithDesktop'
  BY <1>4 DEF Insert, ChatsEndWithDesktop, CameLate, Session
<1> QED BY <1>2, <1>3, <1>5, <1>6

\* A viewer's call, or time, changes nothing the cleanups depend on.
LEMMA ViewKeeps ==
    ASSUME SessionInv, NEW s \in Session, Views(s) \/ Ages(s)
    PROVE  SessionInv'
<1> USE DEF SessionInv, connection, starting, record
<1>1. UNCHANGED <<entry, opened, sweep, start, table, via, parent, late, ending>>
  BY DEF Views, ViewerConnected, ViewerHeartbeat, ViewerReflex, RequestRelay, RequestChatRelay,
         Touch, Ages, AgePending, AgeSession, AgeBeat
<1>2. TypeOK'
  <2>1. CASE Views(s)
    <3>1. PICK heard \in BOOLEAN : Touch(s, heard)
      BY <2>1 DEF Views, ViewerConnected, ViewerHeartbeat, ViewerReflex, RequestRelay,
                  RequestChatRelay
    <3> QED BY <1>1, <3>1 DEF Touch, TypeOK
  <2>2. CASE Ages(s)
    BY <1>1, <2>2 DEF Ages, AgePending, AgeSession, AgeBeat, TypeOK
  <2> QED BY <2>1, <2>2
<1>3. Unreturned' /\ CleanupReachesAll' /\ ChatsEndWithDesktop'
  BY <1>1 DEF Unreturned, CleanupReachesAll, ChatsEndWithDesktop, SweepOrder
<1> QED BY <1>2, <1>3

\* The ends of sessions and the reaper.
LEMMA EndKeeps ==
    ASSUME SessionInv,
           \/ \E s \in Session : Closes(s)
           \/ \E d \in Desktop : EndDesktop(d) \/ EndChildren(d) \/ CleanupAiRunnerSession(d)
           \/ Reap
    PROVE  SessionInv'
<1> USE DEF connection, starting
<1>1. ASSUME NEW s \in Session, Closes(s) PROVE SessionInv'
  <2>1. Remove({s}) /\ UNCHANGED <<connection, starting, ending>>
    BY <1>1 DEF Closes, EndFileTransfer, EndRegistry, EndShell, EndChat, Ends
  <2> QED BY <2>1, RemoveKeeps DEF SessionInv, TypeOK
<1>2. ASSUME NEW d \in Desktop, EndDesktop(d) \/ CleanupAiRunnerSession(d) PROVE SessionInv'
  <2>1. /\ Remove({d}) /\ UNCHANGED <<connection, starting>>
        /\ ending' = [ending EXCEPT ![d] = "children"]
    BY <1>2 DEF EndDesktop, CleanupAiRunnerSession
  <2>2. /\ ending' \in [Desktop -> {"no", "children", "done"}]
        /\ \A e \in Desktop : ending'[e] = "done" => ending[e] = "done"
    BY <2>1 DEF SessionInv, TypeOK
  <2> QED BY <2>1, <2>2, RemoveKeeps DEF SessionInv, TypeOK
<1>3. ASSUME NEW d \in Desktop, EndChildren(d) PROVE SessionInv'
  <2>1. /\ Remove(Children(d)) /\ UNCHANGED <<connection, starting>>
        /\ ending' = [ending EXCEPT ![d] = "done"]
    BY <1>3 DEF EndChildren
  <2>2. /\ ending' \in [Desktop -> {"no", "children", "done"}]
        /\ \A e \in Desktop : ending'[e] = "done" =>
                                 ending[e] = "done" \/ Children(e) \subseteq Children(d)
    BY <2>1 DEF SessionInv, TypeOK
  <2> QED BY <2>1, <2>2, RemoveKeeps DEF SessionInv, TypeOK
<1>4. ASSUME Reap PROVE SessionInv'
  <2>1. pending' \in [Session -> {"none", "fresh", "stale"}]
    BY <1>4 DEF Reap, SessionInv, TypeOK
  <2>2. ending' \in [Desktop -> {"no", "children", "done"}]
    BY <1>4 DEF Reap, SessionInv, TypeOK
  <2> QED BY <1>4, <2>1, <2>2, RemoveKeeps DEF Reap
<1> QED BY <1>1, <1>2, <1>3, <1>4

\* The invariant holds of every state of the server.
THEOREM SessionInvariant == Spec => []SessionInv
<1>1. SessionInv /\ [Next]_vars => SessionInv'
  <2> SUFFICES ASSUME SessionInv, [Next]_vars PROVE SessionInv'
    OBVIOUS
  <2>1. CASE Connect \/ Disconnect
    BY <2>1, ConnectionKeeps
  <2>2. ASSUME NEW c \in Connection, NEW i \in 1..Len(SweepOrder), SweepMap(c, i)
        PROVE  SessionInv'
    BY <2>2, SweepKeeps
  <2>3. ASSUME NEW s \in Session, Starts(s) \/ Answers(s) \/ RunsOn(s) PROVE SessionInv'
    BY <2>3, StartKeeps, InsertKeeps DEF RunsOn
  <2>4. ASSUME NEW s \in Session, Views(s) \/ Ages(s) PROVE SessionInv'
    BY <2>4, ViewKeeps
  <2>5. CASE UNCHANGED vars
    BY <2>5 DEF vars, connection, starting, record, SessionInv, TypeOK, Unreturned,
                CleanupReachesAll, ChatsEndWithDesktop, SweepOrder
  <2> QED BY <2>1, <2>2, <2>3, <2>4, <2>5, EndKeeps DEF Next
<1> QED BY <1>1, InitSession, PTL DEF Spec

\* The type invariant, for every set of sessions.
THEOREM SessionTypes == Spec => []TypeOK
<1> QED BY SessionInvariant, PTL DEF SessionInv

\* Once the agent's connection has gone, its sessions wait for a cleanup or
\* are gone, apart from the ones inserted after the cleanup had begun.
THEOREM CleanupComplete == Spec => []CleanupReachesAll
<1> QED BY SessionInvariant, PTL DEF SessionInv

\* No chat outlives the end of the desktop it was opened from, apart from the
\* ones inserted after that.
THEOREM ChatsEnd == Spec => []ChatsEndWithDesktop
<1> QED BY SessionInvariant, PTL DEF SessionInv

=============================================================================
