----------------------- MODULE TelemetryConsumerProofs -----------------------
(***************************************************************************)
(* Proofs about the telemetry consumer, for any number of members,         *)
(* records, retries and faults.                                            *)
(***************************************************************************)
EXTENDS TelemetryConsumer, TLAPS

Process == [gen : Nat, assigned : BOOLEAN, pos : 1..(Messages + 1), dirty : BOOLEAN,
            at : Phase, msg : 0..Messages, attempt : 0..MaxRetries]

\* The record a process has come to.
Place(r) == IF r.at = "polling" THEN r.pos ELSE r.msg

\* Everything before p is settled.
Front(p) == \A o \in Message : o < p => Settled(o)

\* Nobody is ahead of a record that is not settled.
InOrder ==
    /\ Front(committed) /\ Front(fact)
    /\ \A m \in Member : Front(Place(member[m]))
    /\ \A m \in Member : member[m].at # "polling" => member[m].msg < member[m].pos
    /\ \A r \in late : Front(r.msg)

\* Who has been told of the decision of o: a member, or a request on its own.
Holds(m, o) == member[m].at \in {"executing", "recording"} /\ member[m].msg = o
Sent(o) == \E r \in late : r.step \in {"executing", "recording"} /\ r.msg = o

\* One of them at most, after the record was applied, and the command has not
\* been published while the execution is still to come.
OneCarrier ==
    /\ \A m \in Member, o \in Message :
          Holds(m, o) => applied[o] > 0 /\ ~Sent(o) /\ \A n \in Member : Holds(n, o) => n = m
    /\ \A r, s \in late : r.step \in {"executing", "recording"} /\ s.step \in {"executing", "recording"}
                             /\ r.msg = s.msg => r = s
    /\ \A o \in Message : Sent(o) => applied[o] > 0
    /\ \A o \in Message : applied[o] = 0 => published[o] = 0
    /\ \A m \in Member : member[m].at = "executing" => published[member[m].msg] = 0
    /\ \A r \in late : r.step = "executing" => published[r.msg] = 0

ConsumerInv == TypeOK /\ EffectsOnce /\ InOrder /\ OneCarrier

\* Nothing has been read at the start.
LEMMA InitConsumer == Init => ConsumerInv
<1> SUFFICES ASSUME Init PROVE ConsumerInv
  OBVIOUS
<1>1. Out \in Process /\ Out.at = "polling" /\ Out.pos = 1
  BY MessageAssumption, BoundAssumption DEF Out, Process, Phase
<1>2. TypeOK
  BY <1>1, MessageAssumption, BoundAssumption DEF Init, TypeOK, Message, Status, Process
<1>3. InOrder
  BY <1>1, MessageAssumption DEF Init, InOrder, Front, Place, Message
<1>4. EffectsOnce /\ OneCarrier
  BY <1>1 DEF Init, EffectsOnce, OneCarrier, Holds, Sent
<1> QED BY <1>2, <1>3, <1>4 DEF ConsumerInv

\* A fault stays within its bound.
LEMMA FaultBound == ASSUME TypeOK, Fault \/ UNCHANGED faults PROVE faults' \in 0..MaxFaults
BY BoundAssumption DEF TypeOK, Fault

\* The next record of a batch comes after one that is settled.
LEMMA FollowingFacts ==
    ASSUME NEW r \in Process, r.at # "polling", r.msg \in Message, r.msg < r.pos
    PROVE  /\ Following(r) \in Process /\ Place(Following(r)) = r.msg + 1
           /\ Following(r).at \in {"polling", "checking"}
           /\ Following(r).at # "polling" => Following(r).msg \in Message /\ Following(r).msg < Following(r).pos
<1>1. r.msg \in Nat /\ r.pos \in 1..(Messages + 1) /\ r.pos \in Nat
  BY MessageAssumption DEF Process, Message
<1>2. CASE r.msg + 1 < r.pos
  <2>1. r.msg + 1 \in Message
    BY <1>1, <1>2, MessageAssumption DEF Message
  <2>2. Following(r) = [r EXCEPT !.at = "checking", !.msg = r.msg + 1, !.attempt = 0]
    BY <1>2 DEF Following, Process
  <2>3. "checking" \in Phase /\ 0 \in 0..MaxRetries /\ r.msg + 1 \in 0..Messages
    BY <2>1, MessageAssumption, BoundAssumption DEF Phase, Message
  <2>4. Following(r) \in Process /\ Following(r).at = "checking" /\ Following(r).msg = r.msg + 1
        /\ Following(r).pos = r.pos
    BY <2>2, <2>3 DEF Process
  <2> QED BY <1>2, <2>1, <2>4 DEF Place
<1>3. CASE ~(r.msg + 1 < r.pos)
  <2>1. r.pos = r.msg + 1
    BY <1>1, <1>3
  <2>2. Following(r) = [r EXCEPT !.at = "polling", !.msg = 0, !.attempt = 0]
    BY <1>3 DEF Following
  <2>3. "polling" \in Phase /\ 0 \in 0..MaxRetries /\ 0 \in 0..Messages
    BY MessageAssumption, BoundAssumption DEF Phase
  <2>4. Following(r) \in Process /\ Following(r).at = "polling" /\ Following(r).pos = r.pos
    BY <2>2, <2>3 DEF Process
  <2> QED BY <2>1, <2>4 DEF Place
<1> QED BY <1>2, <1>3

\* The order is kept by a step of one member, if what it has come to is settled.
LEMMA OrderKeeps ==
    ASSUME TypeOK, InOrder, NEW m \in Member,
           \A o \in Message : Settled(o) => Settled(o)',
           \A n \in Member \ {m} : member'[n] = member[n],
           member'[m].at # "polling" => member'[m].msg < member'[m].pos,
           \A o \in Message : o < Place(member'[m]) => Settled(o)',
           committed' = committed \/ committed' = Place(member[m]),
           fact' = fact \/ fact' = Place(member[m]),
           \A r \in late' : r \in late \/ r.msg = Place(member[m])
    PROVE  InOrder'
<1>1. Front(committed)' /\ Front(fact)' /\ \A r \in late' : \A o \in Message : o < r.msg => Settled(o)'
  BY DEF InOrder, Front
<1>2. \A n \in Member : \A o \in Message : o < Place(member'[n]) => Settled(o)'
  BY DEF InOrder, Front
<1>3. \A n \in Member : member'[n].at # "polling" => member'[n].msg < member'[n].pos
  BY DEF InOrder
<1> QED BY <1>1, <1>2, <1>3 DEF InOrder, Front, Place

\* No step that adds no carrier can make two of one.
LEMMA CarriersKeep ==
    ASSUME TypeOK, OneCarrier, published' = published,
           \A o \in Message : applied[o] > 0 => applied'[o] > 0,
           \A o \in Message : applied'[o] = 0 => applied[o] = 0,
           \A n \in Member : member'[n].at \in {"executing", "recording"} =>
                                 member'[n].at = member[n].at /\ member'[n].msg = member[n].msg,
           \A r \in late' : r.step \in {"executing", "recording"} => r \in late
    PROVE  OneCarrier'
<1>1. \A n \in Member, o \in Message : Holds(n, o)' => Holds(n, o)
  BY DEF Holds
<1>2. \A o \in Message : Sent(o)' => Sent(o)
  BY DEF Sent
<1> QED BY <1>1, <1>2 DEF OneCarrier

\* A member that is at a record is at one of the topic.
LEMMA AtRecord ==
    ASSUME TypeOK, NEW m \in Member
    PROVE  /\ member[m] \in Process
           /\ member[m].at # "polling" => member[m].msg \in Message /\ Place(member[m]) = member[m].msg
BY DEF TypeOK, Process, Place

\* The steps of the group.
LEMMA GroupKeeps ==
    ASSUME ConsumerInv, NEW m \in Member, Rebalance \/ Rejoin(m) \/ Commit(m) \/ Fetch(m)
    PROVE  ConsumerInv'
<1> USE DEF ConsumerInv
<1>1. UNCHANGED <<alerted, applied, fact, decision, published, late, dlq, lost, missed>>
  BY DEF Rebalance, Rejoin, Commit, Fetch, api
<1>2. EffectsOnce' /\ \A o \in Message : Settled(o) <=> Settled(o)'
  BY <1>1 DEF EffectsOnce, Settled
<1>3. /\ Out \in Process /\ Out.at = "polling" /\ member[m] \in Process
      /\ "checking" \in Phase
  BY MessageAssumption, BoundAssumption DEF Out, Process, Phase, TypeOK
<1>4. faults' \in 0..MaxFaults
  BY FaultBound DEF Rebalance, Rejoin, Commit, Fetch
<1>5. CASE Rebalance
  <2>1. TypeOK'
    BY <1>1, <1>4, <1>5 DEF Rebalance, TypeOK
  <2>2. InOrder' /\ OneCarrier'
    BY <1>1, <1>2, <1>5 DEF Rebalance, InOrder, Front, Place, OneCarrier, Holds, Sent
  <2> QED BY <1>2, <2>1, <2>2
<1>6. CASE Rejoin(m)
  <2> DEFINE q == [Out EXCEPT !.gen = generation, !.assigned = (owner = m), !.pos = committed]
  <2>1. q \in Process /\ q.at = "polling" /\ q.pos = committed
    BY <1>3 DEF TypeOK, Process, Out
  <2>2. member' = [member EXCEPT ![m] = q] /\ UNCHANGED group
    BY <1>6 DEF Rejoin
  <2> HIDE DEF q
  <2>3. TypeOK'
    BY <1>1, <1>4, <2>1, <2>2 DEF TypeOK, group, Process
  <2>4. member'[m] = q /\ \A n \in Member \ {m} : member'[n] = member[n]
    BY <2>2 DEF TypeOK
  <2>5. InOrder'
    <3>1. \A o \in Message : o < Place(member'[m]) => Settled(o)'
      BY <1>2, <2>1, <2>4 DEF InOrder, Front, Place
    <3> QED BY <1>1, <1>2, <2>1, <2>2, <2>4, <3>1, OrderKeeps DEF group
  <2>6. OneCarrier'
    BY <1>1, <2>1, <2>4, CarriersKeep
  <2> QED BY <1>2, <2>3, <2>5, <2>6
<1>7. CASE Commit(m)
  <2>1. /\ member[m].at = "polling" /\ committed' = member[m].pos /\ UNCHANGED <<generation, owner>>
        /\ member' = [member EXCEPT ![m] = [member[m] EXCEPT !.dirty = FALSE]]
    BY <1>7 DEF Commit
  <2> DEFINE q == [member[m] EXCEPT !.dirty = FALSE]
  <2>2. q \in Process /\ q.at = "polling" /\ q.pos = member[m].pos
    BY <1>3, <2>1 DEF Process
  <2> HIDE DEF q
  <2>3. member'[m] = q /\ \A n \in Member \ {m} : member'[n] = member[n]
    BY <2>1 DEF TypeOK, q
  <2>4. TypeOK'
    BY <1>1, <1>3, <1>4, <2>1, <2>2 DEF TypeOK, Process, q
  <2>5. Place(member[m]) = member[m].pos /\ Place(member'[m]) = member[m].pos
    BY <2>1, <2>2, <2>3 DEF Place
  <2>6. InOrder'
    <3>1. \A o \in Message : o < Place(member'[m]) => Settled(o)'
      BY <1>2, <2>5 DEF InOrder, Front
    <3> QED BY <1>1, <1>2, <2>1, <2>2, <2>3, <2>5, <3>1, OrderKeeps
  <2>7. OneCarrier'
    BY <1>1, <2>2, <2>3, CarriersKeep
  <2> QED BY <1>2, <2>4, <2>6, <2>7
<1>8. CASE Fetch(m)
  <2>1. PICK n \in 1..MaxBatch :
            /\ member[m].pos + n <= Messages + 1
            /\ member' = [member EXCEPT ![m].at = "checking", ![m].msg = member[m].pos,
                                        ![m].pos = @ + n, ![m].dirty = TRUE]
    BY <1>8 DEF Fetch
  <2>2. member[m].at = "polling" /\ member[m].pos <= Messages /\ UNCHANGED group
    BY <1>8 DEF Fetch
  <2>3. member[m].pos \in Message /\ member[m].pos + n \in 1..(Messages + 1)
        /\ member[m].pos < member[m].pos + n /\ member[m].pos \in 0..Messages
    BY <1>3, <2>1, <2>2, MessageAssumption, BoundAssumption DEF Process, Message
  <2>4. /\ member' \in [Member -> Process] /\ \A k \in Member \ {m} : member'[k] = member[k]
        /\ member'[m].at = "checking" /\ member'[m].msg = member[m].pos
        /\ member'[m].pos = member[m].pos + n
    BY <1>3, <2>1, <2>3 DEF TypeOK, Process
  <2>5. TypeOK'
    BY <1>1, <1>4, <2>2, <2>3, <2>4 DEF TypeOK, group, Process
  <2>6. Place(member'[m]) = Place(member[m])
    BY <2>2, <2>4 DEF Place
  <2>7. InOrder'
    <3>1. \A o \in Message : o < Place(member'[m]) => Settled(o)'
      BY <1>2, <2>6 DEF InOrder, Front
    <3> QED BY <1>1, <1>2, <2>2, <2>3, <2>4, <3>1, OrderKeeps DEF group
  <2>8. OneCarrier'
    BY <1>1, <2>4, CarriersKeep
  <2> QED BY <1>2, <2>5, <2>7, <2>8
<1> QED BY <1>5, <1>6, <1>7, <1>8

\* A member that stays at its record, in another phase.
LEMMA GoesFacts ==
    ASSUME TypeOK, InOrder, NEW m \in Member, NEW at \in Phase \ {"polling"},
           member[m].at # "polling", Goes(m, at)
    PROVE  /\ member' \in [Member -> Process] /\ \A n \in Member \ {m} : member'[n] = member[n]
           /\ member'[m].at = at /\ member'[m].msg = member[m].msg
           /\ Place(member'[m]) = Place(member[m]) /\ member'[m].msg < member'[m].pos
           /\ \A n \in Member : member'[n].at # "polling" => member'[n].msg \in Message
<1>1. member' = [member EXCEPT ![m] = [member[m] EXCEPT !.at = at]]
  BY DEF Goes
<1>2. /\ member[m] \in Process /\ member[m].msg \in Message /\ member[m].msg < member[m].pos
  BY AtRecord DEF InOrder
<1>3. /\ [member[m] EXCEPT !.at = at] \in Process
      /\ [member[m] EXCEPT !.at = at].at = at
      /\ [member[m] EXCEPT !.at = at].msg = member[m].msg
      /\ [member[m] EXCEPT !.at = at].pos = member[m].pos
  BY <1>2 DEF Process
<1> QED BY <1>1, <1>2, <1>3 DEF TypeOK, Place, Process

\* A member that goes on to the next record, or to the next poll.
LEMMA AdvanceFacts ==
    ASSUME TypeOK, InOrder, NEW m \in Member, member[m].at # "polling", Advance(m)
    PROVE  /\ member' \in [Member -> Process] /\ \A n \in Member \ {m} : member'[n] = member[n]
           /\ member'[m].at \in {"polling", "checking"}
           /\ Place(member'[m]) = member[m].msg + 1
           /\ member'[m].at # "polling" => member'[m].msg < member'[m].pos
           /\ \A n \in Member : member'[n].at # "polling" => member'[n].msg \in Message
<1>1. member' = [member EXCEPT ![m] = Following(member[m])]
  BY DEF Advance
<1>2. member[m] \in Process /\ member[m].msg \in Message /\ member[m].msg < member[m].pos
  BY AtRecord DEF InOrder
<1> QED BY <1>1, <1>2, FollowingFacts DEF TypeOK, Process

\* A member that starts over, or gives the record up.
LEMMA RetryFacts ==
    ASSUME TypeOK, InOrder, NEW m \in Member, member[m].at # "polling", Retry(m)
    PROVE  /\ member' \in [Member -> Process] /\ \A n \in Member \ {m} : member'[n] = member[n]
           /\ member'[m].at \in {"storing", "failing"}
           /\ Place(member'[m]) = Place(member[m]) /\ member'[m].msg < member'[m].pos
           /\ \A n \in Member : member'[n].at # "polling" => member'[n].msg \in Message
<1>1. /\ member[m] \in Process /\ member[m].msg \in Message /\ member[m].msg < member[m].pos
      /\ member[m].attempt \in 0..MaxRetries /\ {"storing", "failing"} \subseteq Phase
  BY AtRecord DEF InOrder, Process, Phase
<1>2. CASE member[m].attempt < MaxRetries
  <2> DEFINE q == [member[m] EXCEPT !.at = "storing", !.attempt = @ + 1]
  <2>1. member' = [member EXCEPT ![m] = q]
    BY <1>2 DEF Retry, Again
  <2>2. member[m].attempt + 1 \in 0..MaxRetries
    BY <1>1, <1>2, BoundAssumption
  <2>3. q \in Process /\ q.at = "storing" /\ q.msg = member[m].msg /\ q.pos = member[m].pos
    BY <1>1, <2>2 DEF Process
  <2> HIDE DEF q
  <2> QED BY <1>1, <2>1, <2>3 DEF TypeOK, Place, Process
<1>3. CASE ~(member[m].attempt < MaxRetries)
  <2> DEFINE q == [member[m] EXCEPT !.at = "failing"]
  <2>1. member' = [member EXCEPT ![m] = q]
    BY <1>3 DEF Retry, Again
  <2>2. q \in Process /\ q.at = "failing" /\ q.msg = member[m].msg /\ q.pos = member[m].pos
    BY <1>1 DEF Process
  <2> HIDE DEF q
  <2> QED BY <1>1, <2>1, <2>2 DEF TypeOK, Place, Process
<1> QED BY <1>2, <1>3

\* Before the record is applied, or when it is given up.
LEMMA EarlyKeeps ==
    ASSUME ConsumerInv, NEW m \in Member, Check(m) \/ Store(m) \/ DeadLetter(m)
    PROVE  ConsumerInv'
<1> USE DEF ConsumerInv
<1>1. /\ UNCHANGED <<generation, owner, committed, applied, fact, decision, published, late, missed>>
      /\ member[m].at # "polling"
  BY DEF Check, Store, DeadLetter, group, api
<1>2. member[m].msg \in Message /\ member[m] \in Process /\ Place(member[m]) = member[m].msg
  BY <1>1, AtRecord
<1>3. faults' \in 0..MaxFaults
  BY FaultBound DEF Check, Store, DeadLetter
<1>4. /\ dlq' \subseteq Message /\ lost' \subseteq Message
      /\ dlq \subseteq dlq' /\ lost \subseteq lost'
  BY <1>2 DEF Check, Store, DeadLetter, TypeOK
<1>5. alerted' \in [Message -> Nat] /\ \A o \in Message : alerted'[o] <= 1
  <2>1. \A o \in Message : alerted[o] <= 1
    BY DEF EffectsOnce
  <2>2. CASE alerted' = alerted
    BY <2>1, <2>2 DEF TypeOK
  <2>3. CASE StoreEvent(member[m].msg)
    BY <1>2, <2>1, <2>3 DEF StoreEvent, TypeOK
  <2> QED BY <2>2, <2>3 DEF Check, Store, DeadLetter, api
<1>6. \A o \in Message : Settled(o) => Settled(o)'
  BY <1>1, <1>4 DEF Settled
<1>7. EffectsOnce'
  BY <1>1, <1>5 DEF EffectsOnce
<1>8. CASE Advance(m) /\ \A o \in Message : o = member[m].msg => Settled(o)'
  <2>1. TypeOK'
    BY <1>1, <1>3, <1>4, <1>5, <1>8, AdvanceFacts DEF TypeOK, Process
  <2>2. \A o \in Message : o < Place(member'[m]) => Settled(o)'
    <3>1. \A o \in Message : o < member[m].msg + 1 => o < member[m].msg \/ o = member[m].msg
      BY <1>2, MessageAssumption DEF Message
    <3> QED BY <1>1, <1>2, <1>6, <1>8, <3>1, AdvanceFacts DEF InOrder, Front
  <2>3. InOrder'
    BY <1>1, <1>6, <1>8, <2>2, AdvanceFacts, OrderKeeps
  <2>4. OneCarrier'
    BY <1>1, <1>8, AdvanceFacts, CarriersKeep
  <2> QED BY <1>7, <2>1, <2>3, <2>4
<1>9. ASSUME NEW at \in {"storing", "applying", "failing"}, Goes(m, at) PROVE ConsumerInv'
  <2>1. at \in Phase \ {"polling"}
    BY <1>9 DEF Phase
  <2>2. TypeOK'
    BY <1>1, <1>3, <1>4, <1>5, <1>9, <2>1, GoesFacts DEF TypeOK, Process
  <2>3. \A o \in Message : o < Place(member'[m]) => Settled(o)'
    BY <1>1, <1>6, <1>9, <2>1, GoesFacts DEF InOrder, Front
  <2>4. InOrder'
    BY <1>1, <1>6, <1>9, <2>1, <2>3, GoesFacts, OrderKeeps
  <2>5. OneCarrier'
    BY <1>1, <1>9, <2>1, GoesFacts, CarriersKeep
  <2> QED BY <1>7, <2>2, <2>4, <2>5
<1>10. \/ Advance(m) /\ \A o \in Message : o = member[m].msg => Settled(o)'
       \/ \E at \in {"storing", "applying", "failing"} : Goes(m, at)
  <2>1. CASE Check(m)
    BY <1>1, <1>6, <2>1, <1>2 DEF Check, Settled
  <2>2. CASE Store(m)
    BY <2>2 DEF Store
  <2>3. CASE DeadLetter(m)
    <3>1. Advance(m) /\ (dlq' = dlq \cup {member[m].msg} \/ lost' = lost \cup {member[m].msg})
      BY <2>3 DEF DeadLetter
    <3>2. member[m].msg \in dlq' \/ member[m].msg \in lost'
      BY <3>1
    <3>3. \A p \in Message : p \in dlq' \/ p \in lost' => Settled(p)'
      BY DEF Settled
    <3> QED BY <1>2, <3>1, <3>2, <3>3
  <2> QED BY <2>1, <2>2, <2>3
<1> QED BY <1>8, <1>9, <1>10

\* Applying a record: once, and its facts with it.
LEMMA ApplyFacts ==
    ASSUME TypeOK, EffectsOnce, NEW o \in Message, GraphApply(o)
    PROVE  /\ applied' \in [Message -> Nat] /\ decision' \in [Message -> Status] /\ fact' \in 0..Messages
           /\ \A p \in Message : applied'[p] <= 1 /\ applied[p] <= applied'[p]
           /\ applied'[o] = 1 /\ \A p \in Message \ {o} : applied'[p] = applied[p]
           /\ fact' = fact \/ fact' = o
           /\ fact' = fact \/ applied[o] = 0
<1>1. \A p \in Message : applied[p] \in Nat /\ applied[p] <= 1
  BY DEF TypeOK, EffectsOnce
<1>2. applied \in [Message -> Nat] /\ decision \in [Message -> Status] /\ fact \in 0..Messages
  BY DEF TypeOK
<1>3. CASE applied[o] > 0
  BY <1>1, <1>2, <1>3 DEF GraphApply
<1>4. CASE ~(applied[o] > 0)
  <2>1. applied[o] = 0 /\ applied' = [applied EXCEPT ![o] = 1]
    BY <1>1, <1>4 DEF GraphApply
  <2>2. fact' = o /\ fact' \in 0..Messages
    BY <1>4, MessageAssumption DEF GraphApply, Message
  <2>3. decision' \in [Message -> Status]
    BY <1>2, <1>4 DEF GraphApply, Status
  <2>4. /\ applied' \in [Message -> Nat] /\ applied'[o] = 1
        /\ \A p \in Message \ {o} : applied'[p] = applied[p]
    BY <1>2, <2>1
  <2>5. \A p \in Message : applied'[p] <= 1 /\ applied[p] <= applied'[p]
    BY <1>1, <2>1, <2>4
  <2> QED BY <2>1, <2>2, <2>3, <2>4, <2>5
<1> QED BY <1>3, <1>4

\* The member applies its record, and is told of the decision if it was first.
LEMMA ApplyKeeps ==
    ASSUME ConsumerInv, NEW m \in Member, Apply(m)
    PROVE  ConsumerInv'
<1> USE DEF ConsumerInv
<1> DEFINE o == member[m].msg
<1>1. /\ UNCHANGED <<generation, owner, committed, alerted, published, late, dlq, lost, faults, missed>>
      /\ member[m].at = "applying" /\ GraphApply(o)
      /\ IF Answered(o) THEN Goes(m, "executing") ELSE Advance(m)
  BY DEF Apply, group
<1>2. o \in Message /\ Place(member[m]) = o
  BY <1>1, AtRecord
<1> HIDE DEF o
<1>3. /\ applied' \in [Message -> Nat] /\ decision' \in [Message -> Status] /\ fact' \in 0..Messages
      /\ \A p \in Message : applied'[p] <= 1 /\ applied[p] <= applied'[p]
      /\ applied'[o] = 1 /\ \A p \in Message \ {o} : applied'[p] = applied[p]
      /\ fact' = fact \/ fact' = o
  BY <1>1, <1>2, ApplyFacts
<1>4. /\ \A p \in Message : applied[p] \in Nat /\ applied'[p] \in Nat
      /\ \A p \in Message : (applied[p] > 0 => applied'[p] > 0) /\ (applied'[p] = 0 => applied[p] = 0)
  BY <1>3 DEF TypeOK
<1>5. (\A p \in Message : Settled(p) => Settled(p)') /\ (\A p \in Message : p = o => Settled(p)')
  BY <1>1, <1>3, <1>4 DEF Settled
<1>6. EffectsOnce'
  BY <1>1, <1>3 DEF EffectsOnce
<1>7. CASE ~Answered(o)
  <2>1. Advance(m)
    BY <1>1, <1>7
  <2>2. TypeOK'
    BY <1>1, <1>3, <2>1, AdvanceFacts DEF TypeOK, Process
  <2>3. \A p \in Message : p < Place(member'[m]) => Settled(p)'
    <3>1. \A p \in Message : p < o + 1 => p < o \/ p = o
      BY <1>2, MessageAssumption DEF Message
    <3>2. Place(member'[m]) = o + 1
      BY <1>1, <2>1, AdvanceFacts DEF o
    <3>3. \A p \in Message : p < o => Settled(p)
      BY <1>2 DEF InOrder, Front
    <3> QED BY <1>5, <3>1, <3>2, <3>3
  <2>4. InOrder'
    BY <1>1, <1>2, <1>3, <1>5, <2>1, <2>3, AdvanceFacts, OrderKeeps
  <2>5. OneCarrier'
    BY <1>1, <1>4, <2>1, AdvanceFacts, CarriersKeep
  <2> QED BY <1>6, <2>2, <2>4, <2>5
<1>8. CASE Answered(o)
  <2>1. Goes(m, "executing") /\ applied[o] = 0 /\ "executing" \in Phase \ {"polling"}
    BY <1>1, <1>8 DEF Answered, Phase
  <2>2. TypeOK'
    BY <1>1, <1>3, <2>1, GoesFacts DEF TypeOK, Process
  <2>3. \A p \in Message : p < Place(member'[m]) => Settled(p)'
    BY <1>1, <1>5, <2>1, GoesFacts DEF InOrder, Front
  <2>4. InOrder'
    BY <1>1, <1>2, <1>3, <1>5, <2>1, <2>3, GoesFacts, OrderKeeps
  <2>5. OneCarrier'
    <3>1. published[o] = 0 /\ ~Sent(o) /\ \A n \in Member : ~Holds(n, o)
      BY <1>2, <1>4, <2>1 DEF OneCarrier
    <3>2. \A n \in Member, p \in Message : Holds(n, p)' <=> (n = m /\ p = o) \/ Holds(n, p)
      BY <1>1, <2>1, GoesFacts DEF Holds, o
    <3>3. \A p \in Message : Sent(p)' <=> Sent(p)
      BY <1>1 DEF Sent
    <3>4. \A n \in Member : member'[n].at = "executing" =>
              published[member'[n].msg] = 0
      <4>1. \A n \in Member \ {m} : member'[n] = member[n]
        BY <1>1, <2>1, GoesFacts
      <4>2. member'[m].msg = o
        BY <1>1, <2>1, GoesFacts DEF o
      <4> QED BY <3>1, <4>1, <4>2 DEF OneCarrier
    <3>5. applied'[o] > 0
      BY <1>3
    <3>6. \A n \in Member, p \in Message :
              Holds(n, p)' => applied'[p] > 0 /\ ~Sent(p)' /\ \A k \in Member : Holds(k, p)' => k = n
      BY <1>4, <3>1, <3>2, <3>3, <3>5 DEF OneCarrier
    <3>7. \A r, s \in late' : r.step \in {"executing", "recording"} /\ s.step \in {"executing", "recording"}
                                /\ r.msg = s.msg => r = s
      BY <1>1 DEF OneCarrier
    <3>8. \A p \in Message : (Sent(p)' => applied'[p] > 0) /\ (applied'[p] = 0 => published'[p] = 0)
      BY <1>1, <1>4, <3>3 DEF OneCarrier
    <3>9. \A r \in late' : r.step = "executing" => published'[r.msg] = 0
      BY <1>1 DEF OneCarrier
    <3> QED BY <1>1, <3>4, <3>6, <3>7, <3>8, <3>9 DEF OneCarrier
  <2> QED BY <1>6, <2>2, <2>4, <2>5
<1> QED BY <1>7, <1>8

\* The command is published by the one who was told of the decision.
LEMMA PublishFacts ==
    ASSUME TypeOK, NEW o \in Message, published[o] = 0, Publish(o)
    PROVE  /\ published' \in [Message -> Nat] /\ published'[o] <= 1
           /\ \A p \in Message \ {o} : published'[p] = published[p]
BY DEF TypeOK, Publish

\* The member has the decision executed, and its outcome recorded.
LEMMA ExecuteKeeps ==
    ASSUME ConsumerInv, NEW m \in Member, Execute(m) \/ Record(m)
    PROVE  ConsumerInv'
<1> USE DEF ConsumerInv
<1> DEFINE o == member[m].msg
<1>1. /\ UNCHANGED <<generation, owner, committed, alerted, applied, fact, late, dlq, lost, faults, missed>>
      /\ member[m].at \in {"executing", "recording"}
  BY DEF Execute, Record, group
<1>2. o \in Message /\ Place(member[m]) = o /\ applied[o] > 0
  BY <1>1, AtRecord DEF OneCarrier, Holds
<1>3. \A p \in Message : (Settled(p) <=> Settled(p)') /\ applied[p] = applied'[p]
  BY <1>1 DEF Settled
<1>4. Settled(o)
  BY <1>2 DEF Settled
<1> HIDE DEF o
<1>5. CASE Execute(m)
  <2>1. Goes(m, "recording") /\ Publish(o) /\ UNCHANGED decision /\ published[o] = 0
        /\ member[m].at = "executing" /\ "recording" \in Phase \ {"polling"}
    BY <1>5 DEF Execute, OneCarrier, o, Phase
  <2>2. /\ published' \in [Message -> Nat] /\ published'[o] <= 1
        /\ \A p \in Message \ {o} : published'[p] = published[p]
    BY <1>2, <2>1, PublishFacts
  <2>3. TypeOK'
    BY <1>1, <2>1, <2>2, GoesFacts DEF TypeOK, Process
  <2>4. EffectsOnce'
    BY <1>1, <2>2 DEF EffectsOnce
  <2>5. \A p \in Message : p < Place(member'[m]) => Settled(p)'
    BY <1>3, <2>1, GoesFacts DEF InOrder, Front
  <2>6. InOrder'
    BY <1>1, <1>3, <2>1, <2>5, GoesFacts, OrderKeeps
  <2>7. OneCarrier'
    <3>1. \A n \in Member, p \in Message : Holds(n, p)' <=> Holds(n, p)
      BY <2>1, GoesFacts DEF Holds
    <3>2. \A p \in Message : Sent(p)' <=> Sent(p)
      BY <1>1 DEF Sent
    <3>3. \A n \in Member : member'[n].at = "executing" => published'[member'[n].msg] = 0
      <4> SUFFICES ASSUME NEW n \in Member, member'[n].at = "executing"
                   PROVE  published'[member'[n].msg] = 0
        OBVIOUS
      <4>1. n # m /\ member'[n] = member[n]
        BY <2>1, GoesFacts
      <4>2. member[n].msg \in Message /\ Holds(n, member[n].msg) /\ published[member[n].msg] = 0
        BY <4>1, AtRecord DEF Holds, OneCarrier
      <4>3. member[n].msg # o
        BY <1>1, <1>2, <4>1, <4>2 DEF OneCarrier, Holds, o
      <4> QED BY <2>2, <4>1, <4>2, <4>3
    <3>4. \A r \in late' : r.step = "executing" => published'[r.msg] = 0
      <4> SUFFICES ASSUME NEW r \in late, r.step = "executing" PROVE published'[r.msg] = 0
        BY <1>1
      <4>1. r.msg \in Message /\ published[r.msg] = 0 /\ Sent(r.msg)
        BY DEF TypeOK, Request, OneCarrier, Sent
      <4>2. r.msg # o
        BY <1>1, <1>2, <4>1 DEF OneCarrier, Holds, o
      <4> QED BY <2>2, <4>1, <4>2
    <3>5. \A p \in Message : applied'[p] = 0 => published'[p] = 0
      <4> SUFFICES ASSUME NEW p \in Message, applied[p] = 0 PROVE published'[p] = 0
        BY <1>3
      <4>1. p # o
        BY <1>2
      <4>2. published[p] = 0
        BY DEF OneCarrier
      <4> QED BY <2>2, <4>1, <4>2
    <3> QED BY <1>1, <3>1, <3>2, <3>3, <3>4, <3>5 DEF OneCarrier
  <2> QED BY <2>3, <2>4, <2>6, <2>7
<1>6. CASE Record(m)
  <2>1. Advance(m) /\ RecordOutcome(o) /\ UNCHANGED published /\ member[m].at # "polling"
    BY <1>6 DEF Record, o
  <2>2. decision' \in [Message -> Status]
    BY <1>2, <2>1 DEF RecordOutcome, TypeOK, Status
  <2>3. TypeOK'
    BY <1>1, <2>1, <2>2, AdvanceFacts DEF TypeOK, Process
  <2>4. EffectsOnce'
    BY <1>1, <2>1 DEF EffectsOnce
  <2>5. \A p \in Message : p < Place(member'[m]) => Settled(p)'
    <3>1. \A p \in Message : p < o + 1 => p < o \/ p = o
      BY <1>2, MessageAssumption DEF Message
    <3>2. Place(member'[m]) = o + 1
      BY <2>1, AdvanceFacts DEF o
    <3>3. \A p \in Message : p < o => Settled(p)
      BY <1>2 DEF InOrder, Front
    <3> QED BY <1>3, <1>4, <3>1, <3>2, <3>3
  <2>6. InOrder'
    BY <1>1, <1>3, <2>1, <2>5, AdvanceFacts, OrderKeeps
  <2>7. OneCarrier'
    BY <1>1, <1>3, <2>1, AdvanceFacts, CarriersKeep
  <2> QED BY <2>3, <2>4, <2>6, <2>7
<1> QED BY <1>5, <1>6

\* A call fails or is cut off, or the process dies: at most the request goes
\* on, and then its caller is gone.
LEMMA CutKeeps ==
    ASSUME ConsumerInv, NEW m \in Member, CallFails(m) \/ CallLost(m) \/ Crash(m)
    PROVE  ConsumerInv'
<1> USE DEF ConsumerInv
<1> DEFINE sent == [step |-> member[m].at, msg |-> member[m].msg]
<1>1. /\ UNCHANGED <<generation, owner, committed, alerted, applied, fact, decision, published, dlq, lost>>
      /\ member[m].at # "polling"
  BY DEF CallFails, CallLost, Crash, Waiting, group, api
<1>2. member[m].msg \in Message /\ Place(member[m]) = member[m].msg
  BY <1>1, AtRecord
<1>3. late' = late \/ (Waiting(m) /\ late' = late \cup {sent})
  BY DEF CallFails, CallLost, Crash
<1>4. Waiting(m) => sent \in Request
  BY <1>2 DEF Waiting, Request
<1>5. sent.step = member[m].at /\ sent.msg = member[m].msg
  OBVIOUS
<1> HIDE DEF sent
<1>6. faults' \in 0..MaxFaults /\ missed' \subseteq Message
  <2>1. Drops(m) \subseteq Message
    BY <1>2 DEF Drops
  <2> QED BY <2>1, FaultBound DEF CallFails, CallLost, Crash, TypeOK
<1>7. /\ member' \in [Member -> Process] /\ \A n \in Member \ {m} : member'[n] = member[n]
      /\ member'[m].at \in {"storing", "failing", "polling"}
      /\ Place(member'[m]) = Place(member[m]) \/ Place(member'[m]) = 1
      /\ member'[m].at # "polling" => member'[m].msg < member'[m].pos
      /\ \A n \in Member : member'[n].at # "polling" => member'[n].msg \in Message
  <2>1. CASE Retry(m)
    BY <1>1, <2>1, RetryFacts
  <2>2. CASE member' = [member EXCEPT ![m] = Out]
    <3>1. Out \in Process /\ Out.at = "polling" /\ Place(Out) = 1
      BY MessageAssumption, BoundAssumption DEF Out, Process, Phase, Place
    <3> QED BY <2>2, <3>1 DEF TypeOK, Process
  <2> QED BY <2>1, <2>2 DEF CallFails, CallLost, Crash
<1>8. TypeOK'
  BY <1>1, <1>3, <1>4, <1>6, <1>7 DEF TypeOK, Process
<1>9. EffectsOnce' /\ \A p \in Message : Settled(p) <=> Settled(p)'
  BY <1>1 DEF EffectsOnce, Settled
<1>10. InOrder'
  <2>1. \A p \in Message : p < Place(member'[m]) => Settled(p)'
    <3>1. \A p \in Message : ~(p < 1)
      BY MessageAssumption DEF Message
    <3> QED BY <1>7, <1>9, <3>1 DEF InOrder, Front
  <2>2. \A r \in late' : r \in late \/ r.msg = Place(member[m])
    BY <1>2, <1>3, <1>5
  <2> QED BY <1>1, <1>7, <1>9, <2>1, <2>2, OrderKeeps
<1>11. OneCarrier'
  <2>1. CASE late' = late \/ member[m].at \notin {"executing", "recording"}
    <3>1. \A r \in late' : r.step \in {"executing", "recording"} => r \in late
      BY <1>3, <1>5, <2>1
    <3> QED BY <1>1, <1>7, <3>1, CarriersKeep
  <2>2. CASE late' = late \cup {sent} /\ member[m].at \in {"executing", "recording"}
    <3> DEFINE o == member[m].msg
    <3>1. o \in Message /\ Holds(m, o) /\ applied[o] > 0 /\ ~Sent(o) /\ \A n \in Member : Holds(n, o) => n = m
      BY <1>2, <2>2 DEF OneCarrier, Holds
    <3> HIDE DEF o
    <3>2. \A n \in Member, p \in Message : Holds(n, p)' => n # m /\ p # o /\ Holds(n, p)
      BY <1>7, <3>1 DEF Holds
    <3>3. \A p \in Message : Sent(p)' => p = o \/ Sent(p)
      BY <1>5, <2>2 DEF Sent, o
    <3>4. \A r \in late : r.step \in {"executing", "recording"} => r.msg # o
      BY <3>1 DEF Sent
    <3>5. \A r, s \in late' : r.step \in {"executing", "recording"} /\ s.step \in {"executing", "recording"}
                                /\ r.msg = s.msg => r = s
      BY <1>5, <2>2, <3>4 DEF OneCarrier, o
    <3>6. \A r \in late' : r.step = "executing" => published'[r.msg] = 0
      BY <1>1, <1>5, <2>2 DEF OneCarrier
    <3>7. \A n \in Member : member'[n].at = "executing" => published'[member'[n].msg] = 0
      BY <1>1, <1>7 DEF OneCarrier
    <3> QED BY <1>1, <3>1, <3>2, <3>3, <3>5, <3>6, <3>7 DEF OneCarrier
  <2> QED BY <1>3, <2>1, <2>2
<1> QED BY <1>8, <1>9, <1>10, <1>11

\* A request nobody waits for is run.
LEMMA LateKeeps ==
    ASSUME ConsumerInv, NEW r \in late, LateStep(r)
    PROVE  ConsumerInv'
<1> USE DEF ConsumerInv
<1> DEFINE next == [r EXCEPT !.step = "recording"]
<1>1. UNCHANGED <<generation, owner, committed, member, dlq, lost, faults>>
  BY DEF LateStep, group
<1>2. r \in Request /\ r.msg \in Message /\ next \in Request /\ next.step = "recording" /\ next.msg = r.msg
  BY DEF TypeOK, Request
<1>3. /\ late' \subseteq (late \ {r}) \cup {next}
      /\ r.step # "executing" => late' = late \ {r}
  BY DEF LateStep
<1> HIDE DEF next
<1>4. late' \subseteq Request /\ missed' \subseteq Message
  BY <1>2, <1>3 DEF LateStep, TypeOK
<1>5. ASSUME \A p \in Message : Settled(p) => Settled(p)', fact' = fact \/ fact' = r.msg
      PROVE  InOrder'
  <2>1. Front(committed)' /\ Front(fact)'
    BY <1>1, <1>5 DEF InOrder, Front
  <2>2. \A s \in late' : \A p \in Message : p < s.msg => Settled(p)'
    BY <1>2, <1>3, <1>5 DEF InOrder, Front
  <2>3. \A n \in Member : Front(Place(member[n]))'
    BY <1>1, <1>5 DEF InOrder, Front, Place
  <2> QED BY <1>1, <2>1, <2>2, <2>3 DEF InOrder, Front
<1>6. CASE r.step = "storing"
  <2>1. StoreEvent(r.msg) /\ UNCHANGED <<applied, fact, decision, published>>
    BY <1>6 DEF LateStep
  <2>2. alerted' \in [Message -> Nat] /\ \A p \in Message : alerted'[p] <= 1
    BY <1>2, <2>1 DEF StoreEvent, TypeOK, EffectsOnce
  <2>3. TypeOK' /\ EffectsOnce'
    BY <1>1, <1>4, <2>1, <2>2 DEF TypeOK, EffectsOnce
  <2>4. InOrder'
    BY <1>1, <1>5, <2>1 DEF Settled
  <2>5. OneCarrier'
    BY <1>1, <1>3, <1>6, <2>1, CarriersKeep
  <2> QED BY <2>3, <2>4, <2>5
<1>7. CASE r.step = "applying"
  <2>1. GraphApply(r.msg) /\ UNCHANGED <<alerted, published>>
    BY <1>7 DEF LateStep
  <2>2. /\ applied' \in [Message -> Nat] /\ decision' \in [Message -> Status] /\ fact' \in 0..Messages
        /\ \A p \in Message : applied'[p] <= 1 /\ applied[p] <= applied'[p]
        /\ fact' = fact \/ fact' = r.msg
    BY <1>2, <2>1, ApplyFacts
  <2>3. TypeOK' /\ EffectsOnce'
    BY <1>1, <1>4, <2>1, <2>2 DEF TypeOK, EffectsOnce
  <2>4. \A p \in Message : (applied[p] > 0 => applied'[p] > 0) /\ (applied'[p] = 0 => applied[p] = 0)
    <3>1. \A p \in Message : applied[p] \in Nat /\ applied'[p] \in Nat
      BY <2>2 DEF TypeOK
    <3> QED BY <2>2, <3>1
  <2>5. InOrder'
    BY <1>1, <1>5, <2>2, <2>4 DEF Settled
  <2>6. OneCarrier'
    BY <1>1, <1>3, <1>7, <2>1, <2>4, CarriersKeep
  <2> QED BY <2>3, <2>5, <2>6
<1>8. CASE r.step = "executing"
  <2>1. Publish(r.msg) /\ UNCHANGED <<alerted, applied, fact, decision>> /\ published[r.msg] = 0 /\ Sent(r.msg)
    BY <1>8 DEF LateStep, OneCarrier, Sent
  <2>2. /\ published' \in [Message -> Nat] /\ published'[r.msg] <= 1
        /\ \A p \in Message \ {r.msg} : published'[p] = published[p]
    BY <1>2, <2>1, PublishFacts
  <2>3. TypeOK' /\ EffectsOnce'
    BY <1>1, <1>4, <2>1, <2>2 DEF TypeOK, EffectsOnce
  <2>4. InOrder'
    BY <1>1, <1>5, <2>1 DEF Settled
  <2>5. OneCarrier'
    <3>1. \A n \in Member, p \in Message : Holds(n, p)' <=> Holds(n, p)
      BY <1>1 DEF Holds
    <3>2. \A p \in Message : Sent(p)' => Sent(p)
      BY <1>2, <1>3, <2>1 DEF Sent
    <3>3. \A s \in late \ {r} : s.step \in {"executing", "recording"} => s.msg # r.msg
      BY <1>8 DEF OneCarrier
    <3>4. \A s, u \in late' : s.step \in {"executing", "recording"} /\ u.step \in {"executing", "recording"}
                                /\ s.msg = u.msg => s = u
      BY <1>2, <1>3, <3>3 DEF OneCarrier
    <3>5. \A s \in late' : s.step = "executing" => published'[s.msg] = 0
      BY <1>2, <1>3, <2>2, <3>3 DEF OneCarrier, TypeOK, Request
    <3>6. \A n \in Member : member'[n].at = "executing" => published'[member'[n].msg] = 0
      <4> SUFFICES ASSUME NEW n \in Member, member[n].at = "executing" PROVE published'[member[n].msg] = 0
        BY <1>1
      <4>1. member[n].msg \in Message /\ Holds(n, member[n].msg) /\ published[member[n].msg] = 0
        BY AtRecord DEF Holds, OneCarrier
      <4>2. member[n].msg # r.msg
        BY <1>2, <2>1, <4>1 DEF OneCarrier
      <4> QED BY <2>2, <4>1, <4>2
    <3>7. \A p \in Message : applied'[p] = 0 => published'[p] = 0
      <4> SUFFICES ASSUME NEW p \in Message, applied[p] = 0 PROVE published'[p] = 0
        BY <2>1
      <4>1. applied[r.msg] > 0
        BY <1>2, <2>1 DEF OneCarrier
      <4>2. p # r.msg
        BY <4>1
      <4>3. published[p] = 0
        BY DEF OneCarrier
      <4> QED BY <2>2, <4>2, <4>3
    <3> QED BY <1>1, <2>1, <3>1, <3>2, <3>4, <3>5, <3>6, <3>7 DEF OneCarrier
  <2> QED BY <2>3, <2>4, <2>5
<1>9. CASE r.step = "recording"
  <2>1. RecordOutcome(r.msg) /\ UNCHANGED <<alerted, applied, fact, published>>
    BY <1>9 DEF LateStep
  <2>2. decision' \in [Message -> Status]
    BY <1>2, <2>1 DEF RecordOutcome, TypeOK, Status
  <2>3. TypeOK' /\ EffectsOnce'
    BY <1>1, <1>4, <2>1, <2>2 DEF TypeOK, EffectsOnce
  <2>4. InOrder'
    BY <1>1, <1>5, <2>1 DEF Settled
  <2>5. OneCarrier'
    BY <1>1, <1>3, <1>9, <2>1, CarriersKeep
  <2> QED BY <2>3, <2>4, <2>5
<1> QED BY <1>2, <1>6, <1>7, <1>8, <1>9 DEF Request

\* The tables, the group and the requests under way agree in every reachable
\* state.
THEOREM ConsumerInvariant == Spec => []ConsumerInv
<1>1. ConsumerInv /\ [Next]_vars => ConsumerInv'
  <2> SUFFICES ASSUME ConsumerInv, [Next]_vars PROVE ConsumerInv'
    OBVIOUS
  <2>1. CASE Rebalance
    <3>1. PICK m \in Member : owner' = m
      BY <2>1 DEF Rebalance
    <3> QED BY <2>1, <3>1, GroupKeeps
  <2>2. ASSUME NEW m \in Member, Works(m) \/ CallFails(m) \/ CallLost(m) \/ Crash(m) PROVE ConsumerInv'
    BY <2>2, GroupKeeps, EarlyKeeps, ApplyKeeps, ExecuteKeeps, CutKeeps DEF Works
  <2>3. CASE \E r \in late : LateStep(r)
    BY <2>3, LateKeeps
  <2>4. CASE UNCHANGED vars
    BY <2>4 DEF vars, group, api, ConsumerInv, TypeOK, EffectsOnce, InOrder, Front, Place, Settled,
                OneCarrier, Holds, Sent
  <2> QED BY <2>1, <2>2, <2>3, <2>4 DEF Next
<1> QED BY <1>1, InitConsumer, PTL DEF Spec

\* A record has its effects once, for any number of members and deliveries.
THEOREM ConsumerEffectsOnce == Spec => []EffectsOnce
<1>1. ConsumerInv => EffectsOnce
  BY DEF ConsumerInv
<1> QED BY <1>1, ConsumerInvariant, PTL

\* The group never commits past a record that is not settled.
THEOREM ConsumerSkipsNothing == Spec => []NothingSkipped
<1>1. ConsumerInv => NothingSkipped
  BY DEF ConsumerInv, InOrder, Front, NothingSkipped
<1> QED BY <1>1, ConsumerInvariant, PTL

\* Facts go back only to a record that had been given up.
THEOREM ConsumerFactsInOrder == Spec => FactsInOrder
<1>1. ConsumerInv /\ [Next]_vars => [fact' < fact => fact' \in dlq \cup lost]_vars
  <2> SUFFICES ASSUME ConsumerInv, Next, fact' < fact PROVE fact' \in dlq \cup lost
    BY DEF vars
  <2>1. fact \in 0..Messages /\ fact' # fact
    BY MessageAssumption DEF ConsumerInv, TypeOK
  <2>2. \E o \in Message : GraphApply(o)
    <3>1. CASE \E m \in Member : Apply(m)
      BY <3>1, AtRecord DEF Apply, ConsumerInv
    <3>2. CASE \E r \in late : LateStep(r)
      BY <2>1, <3>2 DEF LateStep, ConsumerInv, TypeOK, Request
    <3> QED BY <2>1, <3>1, <3>2 DEF Next, Works, Rebalance, Rejoin, Commit, Fetch, Check, Store, Execute,
                                    Record, DeadLetter, CallFails, CallLost, Crash, api
  <2>3. PICK o \in Message : GraphApply(o)
    BY <2>2
  <2>4. fact' = o /\ applied[o] = 0
    BY <2>1, <2>3, ApplyFacts DEF ConsumerInv
  <2>5. Front(fact)
    BY DEF ConsumerInv, InOrder
  <2>6. Settled(o)
    BY <2>4, <2>5 DEF Front
  <2>7. ~(applied[o] > 0)
    BY <2>4
  <2> QED BY <2>4, <2>6, <2>7 DEF Settled
<1> QED BY <1>1, ConsumerInvariant, PTL DEF Spec, FactsInOrder

=============================================================================
