------------------------ MODULE RelayPairingProofs ------------------------
(***************************************************************************)
(* The relay joins each connection at most once, within its session, and   *)
(* passes on the end of a stream after all of it, for any connections,     *)
(* sessions, buffers and amount of data.                                   *)
(***************************************************************************)
EXTENDS RelayPairing, TLAPS

\* What the copy task has read and not written is the chunk it holds; it holds
\* one at a time; what has ended has been read to its end.
Accounted ==
  \A c \in Conn :
    /\ phase[c] \in {"new", "pending"} =>
         peer[c] = NoConn /\ taken[c] = 0 /\ into[c] = 0
    /\ phase[c] = "paired" =>
         /\ peer[c] # NoConn
         /\ taken[c] = into[peer[c]] + (IF c \in held THEN 1 ELSE 0)
    /\ c \in held => phase[c] = "paired" /\ c \notin eof /\ peer[c] \notin held
    /\ c \in eof => peer[c] # NoConn /\ c \in fin

\* The inductive invariant.
RelayInv == TypeOK /\ PairedOnce /\ WholeStream /\ Accounted

\* A relay without connections satisfies it.
LEMMA InitRelay == Init => RelayInv
<1> SUFFICES ASSUME Init PROVE RelayInv
  OBVIOUS
<1>1. TypeOK
  BY BoundsAssumption DEF Init, TypeOK, Phase
<1>2. PairedOnce /\ WholeStream /\ Accounted
  BY NoConnAssumption DEF Init, PairedOnce, WholeStream, Accounted
<1> QED BY <1>1, <1>2 DEF RelayInv

\* The clients change neither the pairing nor what the task has read: data is
\* added only by a client that has not ended its stream.
LEMMA ClientKeeps ==
  ASSUME RelayInv, NEW c \in Conn,
         Send(c) \/ Finish(c) \/ Receive(c) \/ Vanish(c)
  PROVE  RelayInv'
<1> USE DEF RelayInv
<1>1. TypeOK'
  BY BoundsAssumption
     DEF TypeOK, Send, Finish, Receive, Vanish, relay, copying
<1>2. PairedOnce'
  BY DEF PairedOnce, Send, Finish, Receive, Vanish, relay
<1>3. Accounted'
  BY DEF Accounted, Send, Finish, Receive, Vanish, relay, copying
<1>4. WholeStream'
  BY DEF TypeOK, WholeStream, Accounted, Send, Finish, Receive, Vanish, relay,
     copying
<1> QED BY <1>1, <1>2, <1>3, <1>4

\* A connection that joins is new, and the one it finds waited for it alone.
LEMMA JoinKeeps ==
  ASSUME RelayInv, NEW c \in Conn, Join(c)
  PROVE  RelayInv'
<1> USE DEF RelayInv
<1> DEFINE existing == pending[session[c]]
<1>1. CASE existing = NoConn
  <2>1. /\ phase' = [phase EXCEPT ![c] = "pending"]
        /\ pending' = [pending EXCEPT ![session[c]] = c]
        /\ UNCHANGED <<peer, session, client, copying>>
    BY <1>1 DEF Join
  <2>2. phase[c] = "new" /\ peer[c] = NoConn
    BY DEF Join, Accounted
  <2>3. TypeOK'
    BY <2>1 DEF TypeOK, Phase, client, copying
  <2>4. \A d \in Conn : peer[d] # c
    BY <2>2, NoConnAssumption DEF PairedOnce
  <2>5. PairedOnce'
    BY <1>1, <2>1, <2>2, <2>4, NoConnAssumption DEF TypeOK, PairedOnce
  <2>6. Accounted' /\ WholeStream'
    BY <2>1, <2>2 DEF TypeOK, Accounted, WholeStream, client, copying
  <2> QED BY <2>3, <2>5, <2>6
<1>2. CASE existing # NoConn
  <2>1. /\ phase' = [phase EXCEPT ![existing] = "paired", ![c] = "paired"]
        /\ peer' = [peer EXCEPT ![existing] = c, ![c] = existing]
        /\ pending' = [pending EXCEPT ![session[c]] = NoConn]
        /\ UNCHANGED <<session, client, copying>>
    BY <1>2 DEF Join
  <2>2. /\ existing \in Conn /\ phase[existing] = "pending"
        /\ session[existing] = session[c] /\ existing # c /\ phase[c] = "new"
    BY <1>2 DEF Join, TypeOK, PairedOnce
  <2>3. /\ peer[c] = NoConn /\ peer[existing] = NoConn
        /\ taken[c] = 0 /\ taken[existing] = 0 /\ into[c] = 0
        /\ into[existing] = 0 /\ {c, existing} \cap (held \cup eof) = {}
    BY <2>2 DEF Accounted
  <2>4. TypeOK'
    BY <2>1, <2>2 DEF TypeOK, Phase, client, copying
  <2>5. \A d \in Conn : peer[d] # c /\ peer[d] # existing
    BY <2>2, <2>3, NoConnAssumption DEF PairedOnce
  <2>6. /\ \A d \in Conn \ {c, existing} :
             peer'[d] = peer[d] /\ phase'[d] = phase[d]
        /\ peer'[c] = existing /\ peer'[existing] = c
        /\ phase'[c] = "paired" /\ phase'[existing] = "paired"
    BY <2>1, <2>2 DEF TypeOK
  <2>7. PairedOnce'
    <3>1. \A s \in Session, d \in Conn :
            pending'[s] = d <=> phase'[d] = "pending" /\ session'[d] = s
      BY <2>1, <2>2, <2>6, NoConnAssumption DEF TypeOK, PairedOnce
    <3>2. \A d \in Conn : peer'[d] # NoConn =>
            /\ peer'[d] # d /\ peer'[peer'[d]] = d
            /\ session'[peer'[d]] = session'[d] /\ phase'[peer'[d]] = phase'[d]
      BY <2>1, <2>2, <2>5, <2>6 DEF TypeOK, PairedOnce
    <3> QED BY <3>1, <3>2 DEF PairedOnce
  <2>8. Accounted'
    BY <2>1, <2>2, <2>3, <2>6, NoConnAssumption
       DEF TypeOK, Accounted, client, copying
  <2>9. WholeStream'
    BY <2>1, <2>3, <2>6 DEF TypeOK, WholeStream, client, copying
  <2> QED BY <2>4, <2>7, <2>8, <2>9
<1> QED BY <1>1, <1>2

\* The peer of a paired connection is another connection, paired with it.
LEMMA PeerFacts ==
  ASSUME RelayInv, NEW c \in Conn, phase[c] = "paired"
  PROVE  /\ peer[c] \in Conn /\ peer[c] # c /\ peer[peer[c]] = c
         /\ phase[peer[c]] = "paired"
         /\ \A d \in Conn : peer[d] = peer[c] => d = c
BY NoConnAssumption DEF RelayInv, TypeOK, PairedOnce, Accounted

\* One direction reads a chunk only when the task holds none.
LEMMA ReadChunkKeeps ==
  ASSUME RelayInv, NEW c \in Conn, ReadChunk(c)
  PROVE  RelayInv'
<1> USE DEF RelayInv
<1>1. phase[c] = "paired" /\ c \notin held /\ peer[c] \notin held /\ c \notin eof
  BY DEF ReadChunk, Selecting
<1>2. TypeOK'
  BY DEF ReadChunk, TypeOK, relay, client
<1>3. PairedOnce' /\ WholeStream'
  BY DEF ReadChunk, PairedOnce, WholeStream, relay, client
<1>4. Accounted'
  BY <1>1, PeerFacts DEF ReadChunk, TypeOK, PairedOnce, Accounted, relay, client
<1> QED BY <1>2, <1>3, <1>4

\* The chunk that is held is written to the peer of its own connection only.
LEMMA WriteChunkKeeps ==
  ASSUME RelayInv, NEW c \in Conn, WriteChunk(c)
  PROVE  RelayInv'
<1> USE DEF RelayInv
<1>1. /\ peer[c] \in Conn /\ peer[c] # c /\ phase[peer[c]] = "paired"
      /\ \A d \in Conn : peer[d] = peer[c] => d = c
  BY PeerFacts DEF WriteChunk
<1>2. TypeOK'
  BY <1>1 DEF WriteChunk, TypeOK, relay, client
<1>3. PairedOnce'
  BY DEF WriteChunk, PairedOnce, relay
<1>4. c \notin eof
  BY DEF WriteChunk, Accounted
<1>5. WholeStream'
  BY <1>1, <1>4, NoConnAssumption
     DEF WriteChunk, TypeOK, Accounted, WholeStream, relay, client
<1>6. Accounted'
  BY <1>1, NoConnAssumption
     DEF WriteChunk, TypeOK, Accounted, relay, client
<1> QED BY <1>2, <1>3, <1>5, <1>6

\* Two connections that are dropped together were paired with each other.
LEMMA DroppedFacts ==
  ASSUME RelayInv, NEW c \in Conn, phase[c] = "paired", phase' = Dropped(c),
         UNCHANGED <<session, peer, pending>>
  PROVE  phase' \in [Conn -> Phase] /\ PairedOnce'
<1>1. /\ peer[c] \in Conn /\ peer[c] # c /\ peer[peer[c]] = c
      /\ phase[peer[c]] = "paired"
  BY PeerFacts
<1>2. phase' \in [Conn -> Phase]
  BY <1>1 DEF RelayInv, TypeOK, Dropped, Phase
<1>3. /\ phase'[c] = "closed" /\ phase'[peer[c]] = "closed"
      /\ \A d \in Conn \ {c, peer[c]} : phase'[d] = phase[d]
  BY <1>1 DEF RelayInv, TypeOK, Dropped
<1>4. PairedOnce'
  <2>1. \A s \in Session, d \in Conn :
          pending[s] = d <=> phase'[d] = "pending" /\ session[d] = s
    BY <1>1, <1>3 DEF RelayInv, PairedOnce
  <2>2. \A d \in Conn : peer[d] # NoConn => phase'[peer[d]] = phase'[d]
    BY <1>1, <1>3 DEF RelayInv, TypeOK, PairedOnce
  <2> QED BY <2>1, <2>2 DEF RelayInv, PairedOnce
<1> QED BY <1>2, <1>4

\* The end of a direction is read when the task holds nothing and has read all
\* of it.
LEMMA ReadEndKeeps ==
  ASSUME RelayInv, NEW c \in Conn, ReadEnd(c)
  PROVE  RelayInv'
<1> USE DEF RelayInv
<1>1. /\ phase[c] = "paired" /\ c \notin held /\ peer[c] \notin held
      /\ taken[c] = sent[c] /\ c \in fin
  BY DEF ReadEnd, Selecting
<1>2. /\ peer[c] \in Conn /\ peer[c] # c /\ peer[peer[c]] = c
  BY <1>1, PeerFacts
<1>3. phase' = phase \/ phase' = Dropped(c)
  BY DEF ReadEnd
<1>4. phase' \in [Conn -> Phase] /\ PairedOnce'
  BY <1>1, <1>3, DroppedFacts DEF ReadEnd, TypeOK, PairedOnce
<1>5. TypeOK'
  BY <1>4 DEF ReadEnd, TypeOK, client
<1>6. into[peer[c]] = sent[c]
  BY <1>1, <1>2 DEF Accounted, TypeOK
<1>7. WholeStream'
  BY <1>6 DEF ReadEnd, WholeStream, client
<1>8. \A d \in Conn : phase'[d] # phase[d] =>
        phase'[d] = "closed" /\ d \notin held
  BY <1>1, <1>2, <1>3 DEF TypeOK, Dropped
<1>9. Accounted'
  BY <1>1, <1>2, <1>8, NoConnAssumption DEF ReadEnd, Accounted, client
<1> QED BY <1>4, <1>5, <1>7, <1>9

\* A copy that fails drops both connections and the chunk it held.
LEMMA CopyFailsKeeps ==
  ASSUME RelayInv, NEW c \in Conn, CopyFails(c)
  PROVE  RelayInv'
<1> USE DEF RelayInv
<1>1. phase[c] = "paired" /\ peer[c] \notin held
  BY DEF CopyFails, Selecting, Accounted
<1>2. /\ peer[c] \in Conn /\ peer[c] # c /\ peer[peer[c]] = c
  BY <1>1, PeerFacts
<1>3. phase' \in [Conn -> Phase] /\ PairedOnce'
  BY <1>1, DroppedFacts DEF CopyFails
<1>4. TypeOK'
  BY <1>3 DEF CopyFails, TypeOK, client
<1>5. WholeStream'
  BY DEF CopyFails, WholeStream, client
<1>6. \A d \in Conn : phase'[d] # phase[d] =>
        phase'[d] = "closed" /\ d \notin held'
  BY <1>1, <1>2 DEF CopyFails, TypeOK, Dropped
<1>7. c \notin held' /\ phase'[c] = "closed"
  BY <1>2 DEF CopyFails, TypeOK, Dropped
<1>8. Accounted'
  BY <1>1, <1>2, <1>6, <1>7, NoConnAssumption DEF CopyFails, Accounted, client
<1> QED BY <1>3, <1>4, <1>5, <1>8

\* The cleanup drops connections that wait, from the map and for good.
LEMMA CleanupKeeps ==
  ASSUME RelayInv, NEW c \in Conn, Cleanup(c)
  PROVE  RelayInv'
<1> USE DEF RelayInv
<1>1. PICK old \in SUBSET Waiting : Remove(old)
  BY DEF Cleanup
<1>2. \A d \in old : d \in Conn /\ phase[d] = "pending" /\ peer[d] = NoConn
  BY <1>1 DEF Waiting, Accounted
<1>3. TypeOK'
  BY <1>1, <1>2 DEF Remove, TypeOK, Phase, client, copying
<1>4. \A d \in Conn : IF d \in old THEN phase'[d] = "closed"
                      ELSE phase'[d] = phase[d]
  BY <1>1 DEF Remove
<1>5. PairedOnce'
  <2>1. \A s \in Session, d \in Conn :
          pending'[s] = d <=> phase'[d] = "pending" /\ session[d] = s
    BY <1>1, <1>2, <1>4, NoConnAssumption DEF Remove, TypeOK, PairedOnce
  <2>2. \A d \in Conn : peer[d] # NoConn => phase'[peer[d]] = phase'[d]
    BY <1>2, <1>4, NoConnAssumption DEF TypeOK, PairedOnce
  <2> QED BY <1>1, <2>1, <2>2 DEF Remove, PairedOnce
<1>6. Accounted' /\ WholeStream'
  BY <1>1, <1>2, <1>4 DEF Remove, Accounted, WholeStream, client, copying
<1> QED BY <1>3, <1>5, <1>6

----------------------------------------------------------------------------

\* In every behaviour of the relay and its clients the inductive invariant
\* holds.
THEOREM RelayInvariant == Spec => []RelayInv
<1>1. Init => RelayInv
  BY InitRelay
<1>2. RelayInv /\ [Next]_vars => RelayInv'
  <2> SUFFICES ASSUME RelayInv, [Next]_vars PROVE RelayInv'
    OBVIOUS
  <2>1. CASE Next
    <3>1. PICK c \in Conn : \/ Send(c) \/ Finish(c) \/ Receive(c) \/ Vanish(c)
                            \/ Join(c) \/ Copy(c) \/ Cleanup(c)
      BY <2>1 DEF Next
    <3> QED BY <3>1, ClientKeeps, JoinKeeps, ReadChunkKeeps, WriteChunkKeeps,
               ReadEndKeeps, CopyFailsKeeps, CleanupKeeps DEF Copy
  <2>2. CASE UNCHANGED vars
    BY <2>2 DEF vars, RelayInv, TypeOK, PairedOnce, WholeStream, Accounted
  <2> QED BY <2>1, <2>2
<1> QED BY <1>1, <1>2, PTL DEF Spec

\* The variables of the relay's model keep their types.
THEOREM RelayTypes == Spec => []TypeOK
BY RelayInvariant, PTL DEF RelayInv

\* A connection waits in the map or is copied with one other connection of the
\* same session, never both and never with two (handle_connection).
THEOREM RelayPairsOnce == Spec => []PairedOnce
BY RelayInvariant, PTL DEF RelayInv

\* Whoever sees the end of its peer's stream has been written all of it
\* (relay_bidirectional_copy).
THEOREM RelayPassesWholeStreams == Spec => []WholeStream
BY RelayInvariant, PTL DEF RelayInv
===========================================================================
