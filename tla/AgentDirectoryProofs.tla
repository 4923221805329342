------------------------- MODULE AgentDirectoryProofs -------------------------
(***************************************************************************)
(* Proofs about the directory, for any number of sockets.                  *)
(***************************************************************************)
EXTENDS AgentDirectory, TLAPS

\* What the worker and the network do keeps the invariant.
LEMMA WorkerInv ==
    ASSUME DirectoryInv, NEW s \in Socket, NEW message \in Message,
           Open(s) \/ Cut(s) \/ SendMessage(s, message)
    PROVE  DirectoryInv'
<1> USE DEF DirectoryInv, TypeOK, Served, Moves
<1>1. CASE Open(s)
  <2>1. handler[s] = "none" /\ entry # s
    BY <1>1, SocketAssumption DEF Open
  <2>2. TypeOK'
    <3>1. <<"agent_hello">> \in Seq(Message)
      BY DEF Message
    <3> QED
      BY <1>1, <3>1 DEF Open, Handler
  <2>3. entry # NoSocket => (Served(entry) /\ known[entry] /\ handler[entry] # "leaving")'
    BY <1>1, <2>1 DEF Open
  <2>4. \A t \in Socket : handler[t] \in {"registering", "leaving"} =>
                            handler'[t] \in {"registering", "leaving"}
    BY <1>1, <2>1 DEF Open
  <2> QED
    BY <1>1, <2>2, <2>3, <2>4 DEF Open
<1>2. CASE Cut(s)
  BY <1>2 DEF Cut
<1>3. CASE SendMessage(s, message)
  <2>1. Append(unread[s], message) \in Seq(Message)
    OBVIOUS
  <2> QED
    BY <1>3, <2>1 DEF SendMessage
<1> QED
  BY <1>1, <1>2, <1>3

\* Handling a message keeps the invariant.
LEMMA HandleInv ==
    ASSUME DirectoryInv, NEW s \in Socket, Handle(s)
    PROVE  DirectoryInv'
<1> USE DEF DirectoryInv, TypeOK, Served, Moves
<1>1. CASE Read(s)
  <2>1. Tail(unread[s]) \in Seq(Message)
    BY <1>1 DEF Read
  <2>2. TypeOK'
    BY <1>1, <2>1 DEF Read, Handler
  <2>3. \A t \in Socket : handler[t] \in {"registering", "leaving"} =>
                            handler'[t] \in {"registering", "leaving"}
    BY <1>1 DEF Read
  <2>4. entry' # NoSocket => (Served(entry) /\ known[entry] /\ handler[entry] # "leaving")'
    BY <1>1 DEF Read
  <2>5. \A t \in Socket : link'[t] = "unopened" => handler'[t] = "none"
    BY <1>1 DEF Read
  <2> QED
    BY <1>1, <2>2, <2>3, <2>4, <2>5 DEF Read
<1>2. CASE Enroll(s)
  <2>1. \A t \in Socket : handler[t] \in {"registering", "leaving"} =>
                            handler'[t] \in {"registering", "leaving"}
    BY <1>2 DEF Enroll
  <2> QED
    BY <1>2, <2>1 DEF Enroll, Handler
<1>3. CASE Announce(s)
  <2>1. handler'[s] = "registering"
    BY <1>3 DEF Announce
  <2> QED
    BY <1>3, <2>1 DEF Announce, Handler
<1>4. CASE Register(s)
  BY <1>4, SocketAssumption DEF Register, Handler
<1> QED
  BY <1>1, <1>2, <1>3, <1>4 DEF Handle

\* The end of a socket, and of the server, keeps the invariant.
LEMMA EndInv ==
    ASSUME DirectoryInv, NEW s \in Socket, EndSocket(s) \/ ReportDisconnected(s) \/ Restart
    PROVE  DirectoryInv'
<1> USE DEF DirectoryInv, TypeOK, Served, Moves
<1>1. CASE EndSocket(s)
  <2>1. <<>> \in Seq(Message)
    OBVIOUS
  <2>2. TypeOK'
    BY <1>1, <2>1 DEF EndSocket, Disconnect, Handler
  <2>3. \A t \in Socket : handler[t] \in {"registering", "leaving"} =>
                            handler'[t] \in {"registering", "leaving"}
    BY <1>1 DEF EndSocket, Disconnect
  <2>4. entry' # NoSocket => entry' = entry /\ entry # s
    BY <1>1 DEF EndSocket, Disconnect
  <2>5. entry' # entry => handler'[s] = "leaving"
    BY <1>1 DEF EndSocket, Disconnect
  <2>6. entry' # NoSocket => (Served(entry) /\ known[entry] /\ handler[entry] # "leaving")'
    BY <1>1, <2>4 DEF EndSocket, Disconnect
  <2>7. \A t \in Socket : link'[t] = "unopened" => handler'[t] = "none"
    BY <1>1 DEF EndSocket, Disconnect
  <2> QED
    BY <1>1, <2>2, <2>3, <2>5, <2>6, <2>7 DEF EndSocket
<1>2. CASE ReportDisconnected(s)
  BY <1>2 DEF ReportDisconnected, Handler
<1>3. CASE Restart
  <2>1. <<>> \in Seq(Message)
    OBVIOUS
  <2> QED
    BY <1>3, <2>1 DEF Restart, Handler
<1> QED
  BY <1>1, <1>2, <1>3

\* Every step keeps the invariant.
LEMMA NextInv == DirectoryInv /\ [Next]_vars => DirectoryInv'
<1> SUFFICES ASSUME DirectoryInv, [Next]_vars PROVE DirectoryInv'
  OBVIOUS
<1>1. CASE \E s \in Socket : Open(s) \/ Cut(s)
  <2>1. "telemetry" \in Message
    BY DEF Message
  <2> QED
    BY <1>1, <2>1, WorkerInv
<1>2. CASE \E s \in Socket, message \in Message : SendMessage(s, message)
  BY <1>2, WorkerInv
<1>3. CASE \E s \in Socket : Handle(s) \/ EndSocket(s) \/ ReportDisconnected(s)
  BY <1>3, HandleInv, EndInv
<1>4. CASE Restart
  BY <1>4, EndInv DEF Restart
<1>5. CASE UNCHANGED vars
  BY <1>5 DEF vars, DirectoryInv, TypeOK, Served
<1> QED
  BY <1>1, <1>2, <1>3, <1>4, <1>5 DEF Next

\* The directory invariant holds for any number of sockets of the agent and any
\* interleaving of their handlers.
THEOREM DirectoryInvariant == Spec => []DirectoryInv
<1>1. Init => DirectoryInv
  <2>1. <<>> \in Seq(Message)
    OBVIOUS
  <2>2. Init => TypeOK
    BY <2>1 DEF Init, TypeOK, Handler
  <2> QED
    BY <2>2 DEF Init, DirectoryInv
<1> QED
  BY <1>1, NextInv, PTL DEF Spec

\* No request is sent into the channel of a socket that has ended.
THEOREM EntriesAreServed == Spec => []EntryIsServed
<1>1. DirectoryInv => EntryIsServed
  BY DEF DirectoryInv, EntryIsServed
<1> QED
  BY <1>1, DirectoryInvariant, PTL

\* A device whose last socket has ended is not left on record as connected,
\* unless the report was lost.
THEOREM OfflineIsOnRecord == Spec => []OfflineIsReported
<1>1. DirectoryInv => OfflineIsReported
  BY DEF DirectoryInv, TypeOK, OfflineIsReported, Served
<1> QED
  BY <1>1, DirectoryInvariant, PTL

================================================================================
