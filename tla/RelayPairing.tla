--------------------------- MODULE RelayPairing ---------------------------
(***************************************************************************)
(* The relay (talos_relay).  Two clients that name the same session are    *)
(* joined: the first waits in the map of pending connections, the second   *)
(* takes it out and one task copies both directions until both have ended. *)
(* The relay knows no roles: whoever comes second is the peer.             *)
(*                                                                         *)
(* One task serves a pair, and a chunk it has read it writes before it     *)
(* reads again, in either direction: a client that does not read holds up  *)
(* its own data too.  A stream is a count of chunks; a socket holds at     *)
(* most Buffer of them.  The frame probe only logs and is left out.        *)
(***************************************************************************)
EXTENDS Naturals, FiniteSets

CONSTANTS Conn,       \* the connections made during a behaviour
          Session,    \* the session names
          NoConn,     \* no connection
          MaxChunks,  \* bound on the chunks the clients send between them
          Buffer      \* chunks a socket holds

ASSUME NoConnAssumption == NoConn \notin Conn
ASSUME BoundsAssumption == MaxChunks \in Nat /\ Buffer \in Nat \ {0}

\* At the relay: a connection is not there yet, waits, is copied, is dropped.
Phase == {"new", "pending", "paired", "closed"}

VARIABLES
  phase, session, peer,  \* the relay's side of each connection
  pending,  \* the map of pending connections, NoConn where there is no entry
  alive,    \* clients that have not gone away
  fin,      \* clients that have shut down their sending side
  left,     \* chunks the clients may still send
  sent,     \* chunks each client sent
  taken,    \* chunks the relay read from each client
  into,     \* chunks the relay wrote to each client
  got,      \* chunks each client read
  held,     \* connections from which a chunk is read and not yet written
  eof       \* connections whose end the relay has seen and passed on

relay == <<phase, session, peer, pending>>
client == <<alive, fin, left, sent, got>>
copying == <<taken, into, held, eof>>
vars == <<phase, session, peer, pending, alive, fin, left, sent, taken,
          into, got, held, eof>>

\* Type invariant of the relay's map, the pairs and the streams.
TypeOK ==
  /\ phase \in [Conn -> Phase]
  /\ session \in [Conn -> Session]
  /\ peer \in [Conn -> Conn \cup {NoConn}]
  /\ pending \in [Session -> Conn \cup {NoConn}]
  /\ alive \subseteq Conn /\ fin \subseteq Conn
  /\ held \subseteq Conn /\ eof \subseteq Conn
  /\ left \in 0..MaxChunks
  /\ sent \in [Conn -> Nat] /\ taken \in [Conn -> Nat]
  /\ into \in [Conn -> Nat] /\ got \in [Conn -> Nat]

Init ==
  /\ phase = [c \in Conn |-> "new"]
  /\ session \in [Conn -> Session]
  /\ peer = [c \in Conn |-> NoConn]
  /\ pending = [s \in Session |-> NoConn]
  /\ alive = Conn /\ fin = {} /\ held = {} /\ eof = {}
  /\ left = MaxChunks
  /\ sent = [c \in Conn |-> 0] /\ taken = [c \in Conn |-> 0]
  /\ into = [c \in Conn |-> 0] /\ got = [c \in Conn |-> 0]

----------------------------------------------------------------------------
(* The clients.                                                            *)

Send(c) ==
  /\ c \in alive \ fin /\ phase[c] \in {"pending", "paired"}
  /\ sent[c] < taken[c] + Buffer
  /\ left > 0 /\ left' = left - 1
  /\ sent' = [sent EXCEPT ![c] = @ + 1]
  /\ UNCHANGED <<relay, copying, alive, fin, got>>

Finish(c) ==
  /\ c \in alive \ fin /\ phase[c] \in {"pending", "paired"}
  /\ fin' = fin \cup {c}
  /\ UNCHANGED <<relay, copying, alive, left, sent, got>>

Receive(c) ==
  /\ c \in alive /\ got[c] < into[c]
  /\ got' = [got EXCEPT ![c] = @ + 1]
  /\ UNCHANGED <<relay, copying, alive, fin, left, sent>>

\* The client's process ends; its system closes the connection.
Vanish(c) ==
  /\ c \in alive /\ phase[c] \in {"pending", "paired"}
  /\ alive' = alive \ {c} /\ fin' = fin \cup {c}
  /\ UNCHANGED <<relay, copying, left, sent, got>>

----------------------------------------------------------------------------
(* handle_connection, from the parsed request on.                          *)

\* Mutant: the waiting connection is looked up, not taken out.
JoinWithoutRemove(c) ==
  LET existing == pending[session[c]] IN
  /\ phase[c] = "new"
  /\ IF existing # NoConn
     THEN /\ phase' = [phase EXCEPT ![existing] = "paired", ![c] = "paired"]
          /\ peer' = [peer EXCEPT ![existing] = c, ![c] = existing]
          /\ UNCHANGED pending
     ELSE /\ phase' = [phase EXCEPT ![c] = "pending"]
          /\ pending' = [pending EXCEPT ![session[c]] = c]
          /\ UNCHANGED peer
  /\ UNCHANGED <<session, client, copying>>

\* Under the lock of the map: take out the connection that waits for this
\* session and start the copy, or wait in its stead.
Join(c) ==
  LET existing == pending[session[c]] IN
  /\ phase[c] = "new"
  /\ IF existing # NoConn
     THEN /\ phase' = [phase EXCEPT ![existing] = "paired", ![c] = "paired"]
          /\ peer' = [peer EXCEPT ![existing] = c, ![c] = existing]
          /\ pending' = [pending EXCEPT ![session[c]] = NoConn]
     ELSE /\ phase' = [phase EXCEPT ![c] = "pending"]
          /\ pending' = [pending EXCEPT ![session[c]] = c]
          /\ UNCHANGED peer
  /\ UNCHANGED <<session, client, copying>>

----------------------------------------------------------------------------
(* relay_bidirectional_copy: one task for c and peer[c].                   *)

\* The task is in its select.
Selecting(c) ==
  phase[c] = "paired" /\ c \notin held /\ peer[c] \notin held

ReadChunk(c) ==
  /\ Selecting(c) /\ c \notin eof
  /\ taken[c] < sent[c]
  /\ taken' = [taken EXCEPT ![c] = @ + 1]
  /\ held' = held \cup {c}
  /\ UNCHANGED <<relay, client, into, eof>>

WriteChunk(c) ==
  /\ phase[c] = "paired" /\ c \in held
  /\ into[peer[c]] < got[peer[c]] + Buffer
  /\ into' = [into EXCEPT ![peer[c]] = @ + 1]
  /\ held' = held \ {c}
  /\ UNCHANGED <<relay, client, taken, eof>>

\* The task returns and drops both streams.
Dropped(c) == [phase EXCEPT ![c] = "closed", ![peer[c]] = "closed"]

\* Mutant: the first direction that ends, ends the copy.
OneEnded(c) == TRUE

\* The copy ends when both directions have.
BothEnded(c) == peer[c] \in eof

\* Mutant: the end is taken from the client's state, data or not.
ReadEndEarly(c) ==
  /\ Selecting(c) /\ c \in fin \ eof
  /\ eof' = eof \cup {c}
  /\ phase' = IF BothEnded(c) THEN Dropped(c) ELSE phase
  /\ UNCHANGED <<session, peer, pending, client, taken, into, held>>

\* A read of nothing: the end of this direction is passed on to the peer.
ReadEnd(c) ==
  /\ Selecting(c) /\ c \in fin \ eof
  /\ taken[c] = sent[c]
  /\ eof' = eof \cup {c}
  /\ phase' = IF BothEnded(c) THEN Dropped(c) ELSE phase
  /\ UNCHANGED <<session, peer, pending, client, taken, into, held>>

\* A read from, or a write to, a client that is gone fails.
CopyFails(c) ==
  /\ phase[c] = "paired"
  /\ \/ Selecting(c) /\ c \notin eof /\ c \notin alive
     \/ c \in held /\ peer[c] \notin alive
  /\ phase' = Dropped(c)
  /\ held' = held \ {c}
  /\ UNCHANGED <<session, peer, pending, client, taken, into, eof>>

----------------------------------------------------------------------------
(* spawn_cleanup_task.                                                     *)

Waiting == {c \in Conn : phase[c] = "pending"}

\* Mutant: an entry whose client is still there is kept.
RemoveGone(old) ==
  LET stale == old \ alive IN
  /\ phase' = [c \in Conn |-> IF c \in stale THEN "closed" ELSE phase[c]]
  /\ pending' = [s \in Session |->
                   IF pending[s] \in stale THEN NoConn ELSE pending[s]]
  /\ UNCHANGED <<session, peer, client, copying>>

\* Drop the entries that have become older than the TTL.
Remove(old) ==
  /\ phase' = [c \in Conn |-> IF c \in old THEN "closed" ELSE phase[c]]
  /\ pending' = [s \in Session |->
                   IF pending[s] \in old THEN NoConn ELSE pending[s]]
  /\ UNCHANGED <<session, peer, client, copying>>

\* One pass of the cleanup, in which c is among the old ones.
Cleanup(c) == \E old \in SUBSET Waiting : c \in old /\ Remove(old)

Copy(c) == ReadChunk(c) \/ WriteChunk(c) \/ ReadEnd(c) \/ CopyFails(c)

Next ==
  \E c \in Conn : \/ Send(c) \/ Finish(c) \/ Receive(c) \/ Vanish(c)
                  \/ Join(c) \/ Copy(c) \/ Cleanup(c)

Spec == Init /\ [][Next]_vars

\* The tasks of the relay run and time passes.  A client that is there goes on
\* reading what it is sent: the desktop and shell relays of the Worker read in
\* a task of their own.  Nobody has to send, to finish or to come at all.
Fairness ==
  \A c \in Conn :
    WF_vars(Cleanup(c)) /\ WF_vars(Copy(c)) /\ WF_vars(Receive(c))

FairSpec == Spec /\ Fairness

----------------------------------------------------------------------------
(* Properties.                                                             *)

\* A connection is in one place: the map holds exactly the connections that
\* wait, each under its own session, and two connections are joined only with
\* each other and for the same session (the lock of handle_connection).
PairedOnce ==
  /\ \A s \in Session, c \in Conn :
       pending[s] = c <=> phase[c] = "pending" /\ session[c] = s
  /\ \A c \in Conn : peer[c] # NoConn =>
       /\ peer[c] # c /\ peer[peer[c]] = c
       /\ session[peer[c]] = session[c] /\ phase[peer[c]] = phase[c]

\* The end of a stream is passed on only after every chunk that was sent before
\* it: a client that sees the end has been written everything
\* (relay_bidirectional_copy).
WholeStream == \A c \in eof : into[peer[c]] = sent[c]

\* What a client sends reaches its peer while both are there, however the two
\* directions and their ends interleave in the one task of the pair.
EverythingArrives ==
  <>[](\A c \in Conn :
         peer[c] # NoConn /\ c \in alive /\ peer[c] \in alive
           => got[peer[c]] = sent[c])

\* No stream is kept for ever: one that waits is joined or dropped, and a pair
\* whose clients are both gone is dropped.
StreamsReleased ==
  <>[](\A c \in Conn :
         /\ phase[c] # "pending"
         /\ phase[c] = "paired" => c \in alive \/ peer[c] \in alive)
===========================================================================
