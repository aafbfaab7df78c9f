-------------------------- MODULE UdpRelayProofs ---------------------------
(***************************************************************************)
(* What holds of UdpRelay for every number of clients, targets, sessions   *)
(* and datagrams, whatever the limits.                                     *)
(***************************************************************************)
EXTENDS UdpRelay, FiniteSetTheorems, SequenceTheorems, TLAPS

USE DEF Workers, Readers

\* What the list, the reaper and the reader keep between their steps.
ListInv ==
    /\ listed \subseteq Created
    /\ todo \subseteq listed
    /\ mutex = "free" => todo = {}

\* What the reader knows of the session and of the datagram it works on: it
\* gives the mutex back between session_find and the insertion, and still no
\* session of the flow can appear.
ReaderInv ==
    /\ reader = "associate" => cur \in Sids \ Created
    /\ reader = "insert" => cur \in Created \ listed
    /\ reader \in {"check", "put"} => cur \in Created
    /\ reader # "read" => packet.id = arrived /\ arrived # 0 /\ packet.flow \in Flows
    /\ reader \in {"associate", "insert", "check", "put"} => flow[cur] = packet.flow
    /\ reader \in {"connect", "associate", "insert"} =>
          \A s \in listed : flow[s] = packet.flow => closed[s]

\* Every datagram that a session has had so far has a number below this one:
\* the one in the reader's hands is queued last.
Limit == IF reader = "read" THEN arrived + 1 ELSE arrived

\* A session of flow f with queue q, h in its worker's hand, and d sent last.
Ordered(q, h, d, f, m) ==
    /\ \A k \in 1..Len(q) : q[k].flow = f /\ q[k].id < m /\ h < q[k].id /\ d < q[k].id
    /\ \A k, l \in 1..Len(q) : k < l => q[k].id < q[l].id
    /\ h < m /\ d < m
    /\ h # 0 => d < h

OrderInv ==
    \A s \in Sids :
        /\ s \notin Created => queue[s] = <<>> /\ hand[s] = 0 /\ sent[s] = 0
        /\ Ordered(queue[s], hand[s], sent[s], flow[s], Limit)

-----------------------------------------------------------------------------
(* Types                                                                   *)

\* The limits that bound the state.
LEMMA Bounds ==
    /\ SessionMax \in Nat /\ SessionMax >= 1 /\ QueueMax \in Nat /\ QueueMax >= 1
    /\ MaxSid \in Nat /\ MaxDatagrams \in Nat /\ MaxTime \in Nat
BY LimitsAssumption

\* The initial state has its type: some flow exists.
LEMMA InitType == Init => TypeOK
<1> SUFFICES ASSUME Init PROVE TypeOK
    OBVIOUS
<1>1. NoFlow \in Flows
  <2>1. PICK c \in Clients, t \in Targets : TRUE
        BY FlowsAssumption
  <2>2. <<c, t>> \in Flows
        BY <2>1 DEF Flows
  <2> QED BY <2>2, Zenon DEF NoFlow
<1>2. \A s \in Sids : queue[s] = <<>> /\ Len(queue[s]) = 0
      BY DEF Init
<1>3. queue \in [Sids -> Seq(Datagrams)]
      BY DEF Init
<1> QED BY <1>1, <1>2, <1>3, Bounds DEF Init, TypeOK

\* A datagram is put at the end of a queue that has room ...
LEMMA EnqueuedLast ==
    ASSUME NEW q \in Seq(Datagrams), Len(q) < QueueMax, NEW d \in Datagrams
    PROVE  /\ Enqueued(q, d) \in Seq(Datagrams)
           /\ Len(Enqueued(q, d)) = Len(q) + 1
           /\ \A k \in 1..Len(q) : Enqueued(q, d)[k] = q[k]
           /\ Enqueued(q, d)[Len(q) + 1] = d
<1>1. Len(q) \in Nat /\ QueueMax \in Nat
      BY Bounds
<1>2. Enqueued(q, d) = Append(q, d)
      BY <1>1 DEF Enqueued
<1> QED BY <1>2, AppendProperties

\* ... and at the end of a full one, whose first datagram goes for it.
LEMMA EnqueuedFull ==
    ASSUME NEW q \in Seq(Datagrams), Len(q) = QueueMax, NEW d \in Datagrams
    PROVE  /\ Enqueued(q, d) \in Seq(Datagrams)
           /\ Len(Enqueued(q, d)) = Len(q)
           /\ \A k \in 1..Len(q) - 1 : Enqueued(q, d)[k] = q[k + 1]
           /\ Enqueued(q, d)[Len(q)] = d
<1>1. Len(q) \in Nat \ {0}
      BY Bounds
<1>2. q # <<>>
      BY <1>1
<1>3. /\ Tail(q) \in Seq(Datagrams)
      /\ Len(Tail(q)) = Len(q) - 1
      /\ \A k \in 1..Len(Tail(q)) : Tail(q)[k] = q[k + 1]
      BY <1>2, HeadTailProperties
<1>4. Enqueued(q, d) = Append(Tail(q), d)
      BY <1>1 DEF Enqueued
<1>5. /\ Enqueued(q, d) \in Seq(Datagrams)
      /\ Len(Enqueued(q, d)) = Len(Tail(q)) + 1
      /\ \A k \in 1..Len(Tail(q)) : Enqueued(q, d)[k] = Tail(q)[k]
      /\ Enqueued(q, d)[Len(Tail(q)) + 1] = d
      BY <1>3, <1>4, AppendProperties
<1>6. Len(Tail(q)) + 1 = Len(q)
      BY <1>1, <1>3
<1>7. \A k \in 1..Len(q) - 1 : Enqueued(q, d)[k] = q[k + 1]
      BY <1>3, <1>5
<1> QED BY <1>5, <1>6, <1>7

\* The list is finite, and taking a listed session off it lowers its length.
LEMMA ListedFinite ==
    ASSUME TypeOK
    PROVE  IsFiniteSet(listed) /\ Cardinality(listed) \in Nat
<1>1. IsFiniteSet(Sids)
      BY FS_Interval, Bounds DEF Sids
<1>2. listed \subseteq Sids
      BY DEF TypeOK
<1> QED BY <1>1, <1>2, FS_Subset, FS_CardinalityType

\* The reaper takes a session off the list and counts it down.
LEMMA ReapCounts ==
    ASSUME TypeOK, CountIsExact, ListInv, NEW s \in Sids, Reap(s)
    PROVE  CountIsExact' /\ sessionCount' \in Nat
<1>1. s \in listed
      BY DEF Reap, ListInv
<1>2. /\ Cardinality(listed \ {s}) = Cardinality(listed) - 1
      /\ IsFiniteSet(listed \ {s})
      BY <1>1, ListedFinite, FS_RemoveElement
<1>3. Cardinality(listed \ {s}) \in Nat
      BY <1>2, FS_CardinalityType
<1>a. SessionMax \in Nat
      BY Bounds
<1>b. sessionCount \in Nat
      BY DEF TypeOK
<1>4. SessionMax \in Nat /\ sessionCount \in Nat
      BY <1>a, <1>b
<1>5. CASE listed' = listed /\ sessionCount' = sessionCount
      BY <1>4, <1>5 DEF CountIsExact
<1>6. CASE listed' = listed \ {s} /\ sessionCount' = sessionCount - 1
      BY <1>2, <1>3, <1>4, <1>6, ListedFinite DEF CountIsExact
<1> QED BY <1>5, <1>6 DEF Reap

\* Every step keeps the types, and no queue grows past QUEUE_MAX.
LEMMA StepType ==
    ASSUME TypeOK, CountIsExact, ListInv, ReaderInv, [Next]_vars
    PROVE  TypeOK'
<1> USE DEF registry, work, reading, reaping
<1>t. /\ last \in [Sids -> 0..MaxTime] /\ now \in 0..MaxTime
      /\ worker \in [Sids -> Workers] /\ closed \in [Sids -> BOOLEAN]
      /\ hand \in [Sids -> 0..MaxDatagrams] /\ sent \in [Sids -> 0..MaxDatagrams]
      BY DEF TypeOK
<1>q. queue \in [Sids -> Seq(Datagrams)] /\ \A s \in Sids : Len(queue[s]) <= QueueMax
      BY DEF TypeOK
<1>1. ASSUME NEW f \in Flows, Read(f)
      PROVE  TypeOK'
  <2>1. arrived \in 0..MaxDatagrams
        BY DEF TypeOK
  <2>2. arrived' \in 0..MaxDatagrams /\ packet' = [id |-> arrived', flow |-> f]
        BY <1>1, <2>1, Bounds DEF Read
  <2>3. packet' \in [id: 0..MaxDatagrams, flow: Flows] /\ reader' \in Readers
        BY <1>1, <2>2 DEF Read
  <2> QED BY <1>1, <2>2, <2>3 DEF Read, TypeOK
<1>2. CASE Find
  <2>0. listed \subseteq Sids
        BY DEF TypeOK
  <2>1. \A s \in Found(packet.flow) : s \in Sids /\ s \in 0..MaxSid
        BY <2>0, Bounds DEF Found, Sids
  <2>2. last' \in [Sids -> 0..MaxTime] /\ cur' \in 0..MaxSid /\ reader' \in Readers
    <3>1. cur \in 0..MaxSid
          BY DEF TypeOK
    <3> QED BY <1>2, <1>t, <2>1, <3>1 DEF Find
  <2> QED BY <1>2, <2>2 DEF Find, TypeOK
<1>3. CASE Connect
  <2>1. packet.flow \in Flows
        BY <1>3 DEF Connect, ReaderInv
  <2>2. \A s \in Sids : s \in 0..MaxSid
        BY Bounds DEF Sids
  <2>3. cur \in 0..MaxSid /\ flow \in [Sids -> Flows]
        BY DEF TypeOK
  <2>4. /\ last' \in [Sids -> 0..MaxTime] /\ cur' \in 0..MaxSid /\ reader' \in Readers
        /\ flow' \in [Sids -> Flows]
        BY <1>3, <1>t, <2>1, <2>2, <2>3 DEF Connect
  <2> QED BY <1>3, <2>4 DEF Connect, TypeOK
<1>4. CASE Associate
  <2>1. worker' \in [Sids -> Workers] /\ reader' \in Readers
        BY <1>4, <1>t DEF Associate
  <2> QED BY <1>4, <2>1 DEF Associate, TypeOK
<1>5. CASE Insert
  <2>1. cur \in Sids
        BY <1>5 DEF Insert, ReaderInv, Created
  <2>2. listed \subseteq Sids /\ sessionCount \in Nat
        BY DEF TypeOK
  <2>3. closed' \in [Sids -> BOOLEAN]
        BY <1>5, <1>t DEF Insert
  <2>4. listed' \subseteq Sids
        BY <1>5, <2>1, <2>2 DEF Insert
  <2>5. sessionCount' \in Nat /\ reader' \in Readers
    <3>1. sessionCount' = sessionCount \/ sessionCount' = sessionCount + 1
      <4>1. CASE sessionCount >= SessionMax
            BY <1>5, <4>1, Zenon DEF Insert
      <4>2. CASE ~(sessionCount >= SessionMax)
            BY <1>5, <4>2, Zenon DEF Insert
      <4> QED BY <4>1, <4>2
    <3>2. sessionCount \in Nat
          BY <2>2
    <3>3. sessionCount' \in Nat
          BY <3>1, <3>2
    <3>4. reader' \in Readers
          BY <1>5 DEF Insert
    <3> QED BY <3>3, <3>4
  <2>6. UNCHANGED <<flow, queue, last, worker, hand, sent, readable, packet, cur, arrived,
                    mutex, todo, now>>
        BY <1>5 DEF Insert
  <2> QED BY <2>3, <2>4, <2>5, <2>6 DEF TypeOK
<1>6. CASE Check
  <2>1. reader' \in Readers
        BY <1>6 DEF Check
  <2> QED BY <1>6, <2>1 DEF Check, TypeOK
<1>7. CASE Put
  <2>1. cur \in Sids
        BY <1>7 DEF Put, ReaderInv, Created
  <2>2. packet \in Datagrams
        BY <1>7 DEF Put, ReaderInv, TypeOK, Datagrams
  <2>3. /\ Enqueued(queue[cur], packet) \in Seq(Datagrams)
        /\ Len(Enqueued(queue[cur], packet)) <= QueueMax
    <3>1. Len(queue[cur]) \in Nat /\ QueueMax \in Nat /\ Len(queue[cur]) <= QueueMax
          BY <1>q, <2>1, Bounds
    <3>2. CASE Len(queue[cur]) < QueueMax
          BY <1>q, <2>1, <2>2, <3>1, <3>2, EnqueuedLast
    <3>3. CASE Len(queue[cur]) = QueueMax
          BY <1>q, <2>1, <2>2, <3>1, <3>3, EnqueuedFull
    <3> QED BY <3>1, <3>2, <3>3
  <2>4. queue' \in [Sids -> Seq(Datagrams)] /\ \A s \in Sids : Len(queue'[s]) <= QueueMax
        BY <1>7, <1>q, <2>1, <2>3 DEF Put
  <2>5. last' \in [Sids -> 0..MaxTime] /\ reader' \in Readers
        BY <1>7, <1>t DEF Put
  <2> QED BY <1>7, <2>4, <2>5 DEF Put, TypeOK
<1>8. ASSUME NEW s \in Sids, Drain(s)
      PROVE  TypeOK'
  <2>1. worker' \in [Sids -> Workers]
        BY <1>8, <1>t DEF Drain
  <2>2. CASE ~closed[s] /\ queue[s] # <<>>
    <3>1. /\ Head(queue[s]) \in Datagrams
          /\ Tail(queue[s]) \in Seq(Datagrams)
          /\ Len(Tail(queue[s])) = Len(queue[s]) - 1
          BY <1>q, <2>2, HeadTailProperties
    <3>2. Head(queue[s]).id \in 0..MaxDatagrams
          BY <3>1 DEF Datagrams
    <3>3. Len(queue[s]) \in Nat /\ QueueMax \in Nat
          BY <1>q, Bounds
    <3>6. queue' = [queue EXCEPT ![s] = Tail(queue[s])]
          BY <1>8, <2>2 DEF Drain
    <3>7. Len(Tail(queue[s])) <= QueueMax
          BY <1>q, <3>1, <3>3
    <3>4. queue' \in [Sids -> Seq(Datagrams)] /\ \A t \in Sids : Len(queue'[t]) <= QueueMax
          BY <1>q, <3>1, <3>6, <3>7
    <3>5. hand' \in [Sids -> 0..MaxDatagrams]
          BY <1>8, <1>t, <2>2, <3>2 DEF Drain
    <3> QED BY <1>8, <2>1, <3>4, <3>5 DEF Drain, TypeOK
  <2>3. CASE closed[s] \/ queue[s] = <<>>
        BY <1>8, <2>1, <2>3 DEF Drain, TypeOK
  <2> QED BY <2>2, <2>3, <1>t
<1>9. ASSUME NEW s \in Sids, Send(s)
      PROVE  TypeOK'
  <2>1. 0 \in 0..MaxDatagrams
        BY Bounds
  <2>2. hand' \in [Sids -> 0..MaxDatagrams]
        BY <1>9, <1>t, <2>1 DEF Send
  <2>3. sent' \in [Sids -> 0..MaxDatagrams]
        BY <1>9, <1>t DEF Send
  <2>4. worker' \in [Sids -> Workers] /\ closed' \in [Sids -> BOOLEAN]
        BY <1>9, <1>t DEF Send
  <2> QED BY <1>9, <2>2, <2>3, <2>4 DEF Send, TypeOK
<1>10. ASSUME NEW s \in Sids, Poll(s) \/ Recv(s) \/ RecvFails(s) \/ Reply(s)
      PROVE  TypeOK'
  <2>1. readable \subseteq Sids
        BY DEF TypeOK
  <2>2. /\ worker' \in [Sids -> Workers] /\ last' \in [Sids -> 0..MaxTime]
        /\ readable' \subseteq Sids
        BY <1>10, <1>t, <2>1 DEF Poll, Recv, RecvFails, Reply
  <2>3. UNCHANGED <<registry, closed, queue, hand, sent, reading, reaping, now>>
        BY <1>10 DEF Poll, Recv, RecvFails, Reply
  <2> QED BY <2>2, <2>3 DEF TypeOK
<1>11. ASSUME NEW s \in Sids, Reap(s)
      PROVE  TypeOK'
  <2>1. listed \subseteq Sids /\ todo \subseteq Sids
        BY DEF TypeOK
  <2>2. listed' \subseteq Sids /\ todo' \subseteq Sids /\ closed' \in [Sids -> BOOLEAN]
        BY <1>11, <1>t, <2>1 DEF Reap
  <2>3. sessionCount' \in Nat
        BY <1>11, ReapCounts DEF Reap
  <2> QED BY <1>11, <2>2, <2>3 DEF Reap, TypeOK
<1>12. CASE ReapBegin \/ ReapEnd
      BY <1>12 DEF ReapBegin, ReapEnd, TypeOK
<1>12a. CASE Tick
  <2>1. now' \in 0..MaxTime
        BY <1>12a, <1>t, Bounds DEF Tick
  <2> QED BY <1>12a, <2>1 DEF Tick, TypeOK
<1>13. CASE UNCHANGED vars
      BY <1>13 DEF vars, TypeOK
<1> QED BY <1>1, <1>2, <1>3, <1>4, <1>5, <1>6, <1>7, <1>8, <1>9, <1>10, <1>11, <1>12, <1>12a, <1>13
        DEF Next, WorkerStep

-----------------------------------------------------------------------------
(* The list of sessions                                                    *)

Registry == CountIsExact /\ OneSessionPerFlow /\ UnlistedIsClosed /\ ListInv /\ ReaderInv

\* Initially the list is empty.
LEMMA InitRegistry == Init => Registry
<1> SUFFICES ASSUME Init PROVE Registry
    OBVIOUS
<1>1. Created = {}
      BY DEF Init, Created
<1>2. CountIsExact
      BY FS_EmptySet, Bounds DEF Init, CountIsExact
<1>3. OneSessionPerFlow /\ UnlistedIsClosed /\ ListInv
      BY <1>1 DEF Init, OneSessionPerFlow, UnlistedIsClosed, ListInv
<1>4. ReaderInv
      BY DEF Init, ReaderInv
<1> QED BY <1>2, <1>3, <1>4 DEF Registry

\* The steps of a worker, of the server and of the clock leave the list and
\* the reader alone; a worker may close its session and never opens one.
LEMMA WorkerRegistry ==
    ASSUME TypeOK, Registry, Created' = Created,
           UNCHANGED <<registry, reading, reaping>>,
           \A s \in Sids : closed[s] => closed'[s]
    PROVE  Registry'
<1> USE DEF registry, reading, reaping
<1>1. listed \subseteq Sids
      BY DEF TypeOK
<1>2. CountIsExact'
      BY DEF Registry, CountIsExact
<1>3. OneSessionPerFlow'
      BY <1>1 DEF Registry, OneSessionPerFlow
<1>4. UnlistedIsClosed'
      BY DEF Registry, UnlistedIsClosed, Created
<1>5. ListInv'
      BY DEF Registry, ListInv
<1>6. ReaderInv'
      BY <1>1 DEF Registry, ReaderInv
<1> QED BY <1>2, <1>3, <1>4, <1>5, <1>6 DEF Registry

\* An insertion adds one session, and takes one off when the list is full.
LEMMA InsertCounts ==
    ASSUME TypeOK, Registry, Insert
    PROVE  CountIsExact'
<1>1. cur \notin listed
      BY DEF Registry, ReaderInv, Insert
<1>2. IsFiniteSet(listed) /\ Cardinality(listed) \in Nat
      BY ListedFinite
<1>3. SessionMax \in Nat \ {0}
      BY Bounds
<1>4. sessionCount = Cardinality(listed) /\ sessionCount <= SessionMax
      BY DEF Registry, CountIsExact
<1>5. CASE sessionCount < SessionMax
  <2>1. listed' = listed \cup {cur} /\ sessionCount' = sessionCount + 1
    <3>1. ~(sessionCount >= SessionMax)
          BY <1>2, <1>3, <1>4, <1>5
    <3> QED BY <3>1 DEF Insert
  <2>2. Cardinality(listed \cup {cur}) = Cardinality(listed) + 1
        BY <1>1, <1>2, FS_AddElement
  <2> QED BY <1>2, <1>3, <1>4, <1>5, <2>1, <2>2 DEF CountIsExact
<1>6. CASE sessionCount >= SessionMax
  <2>1. PICK old \in listed : listed' = (listed \ {old}) \cup {cur}
        BY <1>6 DEF Insert
  <2>2. sessionCount' = sessionCount
        BY <1>6 DEF Insert
  <2>3. IsFiniteSet(listed \ {old}) /\ Cardinality(listed \ {old}) = Cardinality(listed) - 1
        BY <1>2, <2>1, FS_RemoveElement
  <2>4. Cardinality((listed \ {old}) \cup {cur}) = Cardinality(listed \ {old}) + 1
        BY <1>1, <2>3, FS_AddElement
  <2>5. Cardinality(listed') = Cardinality(listed)
        BY <1>2, <2>1, <2>3, <2>4
  <2> QED BY <1>4, <2>2, <2>5 DEF CountIsExact
<1> QED BY <1>2, <1>3, <1>4, <1>5, <1>6

\* What leaves the list is closed, and what enters it has no open rival.
LEMMA InsertRegistry ==
    ASSUME TypeOK, Registry, Insert
    PROVE  Registry'
<1>0. /\ listed \subseteq Sids /\ listed \subseteq Created /\ cur \in Created \ listed
      /\ closed \in [Sids -> BOOLEAN] /\ cur \in Sids
      BY DEF TypeOK, Registry, ListInv, ReaderInv, Insert, Created
<1>1. UNCHANGED <<flow, worker, packet, arrived, mutex, todo>>
      /\ reader = "insert" /\ reader' = "find again" /\ mutex = "free"
      BY DEF Insert, work, reaping
<1>2. Created' = Created
      BY <1>1 DEF Created
<1>3. /\ listed' \subseteq listed \cup {cur} /\ cur \in listed'
      /\ \A s \in Sids : closed[s] => closed'[s]
      /\ \A s \in listed \ listed' : closed'[s]
      BY <1>0 DEF Insert
<1>4. CountIsExact'
      BY InsertCounts
<1>5. OneSessionPerFlow'
  <2>1. \A s \in listed : flow[s] = flow[cur] => closed[s]
        BY <1>1 DEF Registry, ReaderInv
  <2>2. OneSessionPerFlow
        BY DEF Registry
  <2> QED BY <1>0, <1>1, <1>3, <2>1, <2>2 DEF OneSessionPerFlow
<1>6. UnlistedIsClosed'
  <2>1. \A s \in Created \ listed : closed[s] \/ s = cur
        BY DEF Registry, UnlistedIsClosed
  <2>2. \A s \in Created \ listed' : closed'[s]
        BY <1>0, <1>3, <2>1 DEF Created
  <2> QED BY <1>2, <2>2 DEF UnlistedIsClosed
<1>7. ListInv'
      BY <1>0, <1>1, <1>2, <1>3 DEF Registry, ListInv
<1>8. ReaderInv'
      BY <1>1 DEF Registry, ReaderInv
<1> QED BY <1>4, <1>5, <1>6, <1>7, <1>8 DEF Registry

\* The number of datagrams read so far is a number.
LEMMA ArrivedNat == TypeOK => arrived \in Nat
<1>1. TypeOK => arrived \in 0..MaxDatagrams
      BY DEF TypeOK
<1> QED BY <1>1, Bounds

\* Every step keeps the list, its count and the reader's claim.
LEMMA StepRegistry ==
    ASSUME TypeOK, Registry, [Next]_vars
    PROVE  Registry'
<1> USE DEF registry, work, reading, reaping
<1>t. /\ listed \subseteq Sids /\ listed \subseteq Created /\ todo \subseteq listed
      /\ worker \in [Sids -> Workers] /\ closed \in [Sids -> BOOLEAN]
      BY DEF TypeOK, Registry, ListInv
<1>p. packet.flow \in Flows /\ flow \in [Sids -> Flows]
      BY DEF TypeOK
\* Steps of the reader that leave the list alone.
<1>1. ASSUME NEW f \in Flows, Read(f)
      PROVE  Registry'
  <2>1. UNCHANGED <<listed, sessionCount, flow, closed, worker, cur, mutex, todo>>
        BY <1>1 DEF Read
  <2>2. Created' = Created
        BY <2>1 DEF Created
  <2>3. /\ reader = "read" /\ reader' = "find" /\ packet'.id = arrived'
        /\ packet'.flow = f /\ arrived' = arrived + 1 /\ arrived \in Nat
        BY <1>1, Bounds, ArrivedNat DEF Read
  <2>4. ReaderInv'
        BY <2>1, <2>2, <2>3 DEF ReaderInv
  <2>5. UnlistedIsClosed'
        BY <2>1, <2>2, <2>3 DEF Registry, UnlistedIsClosed
  <2> QED BY <2>1, <2>2, <2>4, <2>5 DEF Registry, CountIsExact, OneSessionPerFlow, ListInv
<1>2. CASE Find
  <2>1. UNCHANGED <<listed, sessionCount, flow, closed, worker, packet, arrived, mutex, todo>>
        BY <1>2 DEF Find
  <2>2. Created' = Created
        BY <2>1 DEF Created
  <2>3. reader \in {"find", "find again"} /\ reader' \in {"check", "connect", "read"}
        BY <1>2 DEF Find
  <2>4. ReaderInv'
    <3>1. reader' = "check" => cur' \in Created /\ flow[cur'] = packet.flow
          BY <1>2, <1>t DEF Find, Found, Matches
    <3>2. reader' = "connect" => \A s \in listed : flow[s] = packet.flow => closed[s]
          BY <1>2 DEF Find, Found, Matches
    <3> QED BY <2>1, <2>2, <2>3, <3>1, <3>2 DEF Registry, ReaderInv
  <2>5. UnlistedIsClosed'
        BY <2>1, <2>2, <2>3 DEF Registry, UnlistedIsClosed
  <2> QED BY <2>1, <2>2, <2>4, <2>5 DEF Registry, CountIsExact, OneSessionPerFlow, ListInv
<1>3. CASE Connect
  <2>1. UNCHANGED <<listed, sessionCount, closed, worker, packet, arrived, mutex, todo>>
        BY <1>3 DEF Connect
  <2>2. Created' = Created
        BY <2>1 DEF Created
  <2>3. reader = "connect" /\ reader' \in {"read", "associate"}
        BY <1>3 DEF Connect
  <2>4. \A s \in listed : flow'[s] = flow[s]
        BY <1>3, <1>t, <1>p DEF Connect
  <2>5. reader' = "associate" => cur' \in Sids \ Created /\ flow'[cur'] = packet.flow
        BY <1>3, <1>p DEF Connect
  <2>6. ReaderInv'
        BY <2>1, <2>2, <2>3, <2>4, <2>5 DEF Registry, ReaderInv
  <2>7. UnlistedIsClosed'
        BY <2>1, <2>2, <2>3 DEF Registry, UnlistedIsClosed
  <2>8. OneSessionPerFlow'
        BY <2>1, <2>4 DEF Registry, OneSessionPerFlow
  <2> QED BY <2>1, <2>2, <2>6, <2>7, <2>8 DEF Registry, CountIsExact, ListInv
<1>4. CASE Associate
  <2>1. UNCHANGED <<listed, sessionCount, flow, closed, packet, cur, arrived, mutex, todo>>
        BY <1>4 DEF Associate
  <2>2. reader = "associate" /\ cur \in Sids \ Created
        BY <1>4 DEF Associate, Registry, ReaderInv
  <2>3. \/ reader' = "read" /\ Created' = Created
        \/ reader' = "insert" /\ Created' = Created \cup {cur}
    <3>1. CASE reader' = "read" /\ UNCHANGED worker
          BY <3>1 DEF Created
    <3>2. CASE worker' = [worker EXCEPT ![cur] = "drain"] /\ reader' = "insert"
          BY <1>t, <2>2, <3>2 DEF Created
    <3> QED BY <1>4, <3>1, <3>2 DEF Associate
  <2>4. ReaderInv'
        BY <1>t, <2>1, <2>2, <2>3 DEF Registry, ReaderInv
  <2>5. UnlistedIsClosed'
        BY <2>1, <2>2, <2>3 DEF Registry, UnlistedIsClosed
  <2>6. ListInv'
        BY <2>1, <2>3 DEF Registry, ListInv
  <2> QED BY <2>1, <2>4, <2>5, <2>6 DEF Registry, CountIsExact, OneSessionPerFlow
<1>5. CASE Insert
      BY <1>5, InsertRegistry
<1>6. CASE Check \/ Put
  <2>1. UNCHANGED <<listed, sessionCount, flow, closed, worker, packet, cur, arrived, mutex, todo>>
        BY <1>6 DEF Check, Put
  <2>2. Created' = Created
        BY <2>1 DEF Created
  <2>3. \/ reader = "check" /\ reader' \in {"read", "put"}
        \/ reader = "put" /\ reader' = "read"
    <3>1. CASE Check
          BY <3>1 DEF Check
    <3>2. CASE Put
          BY <3>2 DEF Put
    <3> QED BY <1>6, <3>1, <3>2
  <2>4. ReaderInv'
        BY <2>1, <2>2, <2>3 DEF Registry, ReaderInv
  <2>5. UnlistedIsClosed'
        BY <2>1, <2>2, <2>3 DEF Registry, UnlistedIsClosed
  <2> QED BY <2>1, <2>2, <2>4, <2>5 DEF Registry, CountIsExact, OneSessionPerFlow, ListInv
<1>7. ASSUME NEW s \in Sids, WorkerStep(s) \/ RecvFails(s) \/ Reply(s)
      PROVE  Registry'
  <2>1. UNCHANGED <<registry, reading, reaping>> /\ \A t \in Sids : closed[t] => closed'[t]
    <3>1. CASE Send(s)
          BY <1>t, <3>1 DEF Send
    <3>2. CASE Drain(s) \/ Poll(s) \/ Recv(s) \/ RecvFails(s) \/ Reply(s)
          BY <3>2 DEF Drain, Poll, Recv, RecvFails, Reply
    <3> QED BY <1>7, <3>1, <3>2 DEF WorkerStep
  <2>2. \A t \in Sids : worker'[t] = "none" <=> worker[t] = "none"
    <3>1. CASE Drain(s) \/ Send(s)
          BY <1>t, <3>1 DEF Drain, Send
    <3>2. CASE Poll(s) \/ RecvFails(s)
          BY <1>t, <3>2 DEF Poll, RecvFails
    <3>3. CASE Recv(s) \/ Reply(s)
          BY <3>3 DEF Recv, Reply
    <3> QED BY <1>7, <3>1, <3>2, <3>3 DEF WorkerStep
  <2>3. Created' = Created
        BY <2>2 DEF Created
  <2> QED BY <2>1, <2>3, WorkerRegistry
<1>8. CASE Tick \/ UNCHANGED vars
  <2>1. UNCHANGED <<registry, closed, worker, reading, reaping>>
        BY <1>8 DEF Tick, vars
  <2> QED BY <2>1, WorkerRegistry DEF Created
<1>9. CASE ReapBegin \/ ReapEnd
  <2>1. UNCHANGED <<registry, closed, worker, reading>>
        BY <1>9 DEF ReapBegin, ReapEnd
  <2>2. todo' \subseteq listed /\ (mutex' = "free" => todo' = {})
        BY <1>9 DEF ReapBegin, ReapEnd
  <2>3. Created' = Created
        BY <2>1 DEF Created
  <2>4. ReaderInv'
        BY <2>1, <2>3 DEF Registry, ReaderInv
  <2> QED BY <2>1, <2>2, <2>3, <2>4
          DEF Registry, CountIsExact, OneSessionPerFlow, UnlistedIsClosed, ListInv
<1>10. ASSUME NEW s \in Sids, Reap(s)
       PROVE  Registry'
  <2>1. /\ UNCHANGED <<flow, worker, reading, mutex>> /\ mutex # "free"
        /\ todo' = todo \ {s} /\ s \in listed
        BY <1>10, <1>t DEF Reap, Registry, ListInv
  <2>2. /\ listed' \subseteq listed /\ listed \ {s} \subseteq listed'
        /\ s \notin listed' => closed'[s]
        /\ \A t \in Sids : closed[t] => closed'[t]
        BY <1>10, <1>t DEF Reap
  <2>3. Created' = Created
        BY <2>1 DEF Created
  <2>4. CountIsExact'
        BY <1>10, ReapCounts DEF Registry
  <2>5. OneSessionPerFlow'
        BY <1>t, <2>1, <2>2 DEF Registry, OneSessionPerFlow
  <2>6. UnlistedIsClosed'
        BY <1>t, <2>1, <2>2, <2>3 DEF Registry, UnlistedIsClosed, Created
  <2>7. ListInv'
        BY <2>1, <2>2, <2>3, <1>t DEF Registry, ListInv
  <2>8. ReaderInv'
        BY <1>t, <2>1, <2>2, <2>3 DEF Registry, ReaderInv
  <2> QED BY <2>4, <2>5, <2>6, <2>7, <2>8 DEF Registry
<1> QED BY <1>1, <1>2, <1>3, <1>4, <1>5, <1>6, <1>7, <1>8, <1>9, <1>10 DEF Next

-----------------------------------------------------------------------------
(* The order of the datagrams                                              *)

\* A datagram has a number and a flow.
LEMMA DatagramIds ==
    ASSUME NEW q \in Seq(Datagrams)
    PROVE  \A k \in 1..Len(q) : q[k].id \in Nat /\ q[k].id > 0
<1>1. \A k \in 1..Len(q) : q[k] \in Datagrams
      BY ElementOfSeq
<1> QED BY <1>1, Bounds DEF Datagrams

\* An empty queue is in order.
LEMMA OrderedNone ==
    ASSUME NEW f, NEW m \in Nat, 0 < m
    PROVE  Ordered(<<>>, 0, 0, f, m)
BY DEF Ordered

\* What is in order stays so when more datagrams have been read.
LEMMA OrderedLater ==
    ASSUME NEW q \in Seq(Datagrams), NEW h \in Nat, NEW d \in Nat, NEW f, NEW m \in Nat,
           NEW n \in Nat, Ordered(q, h, d, f, m), m <= n
    PROVE  Ordered(q, h, d, f, n)
BY DatagramIds DEF Ordered

\* session_enqueue: the newest datagram comes last, whether one is dropped or not.
LEMMA OrderedPut ==
    ASSUME NEW q \in Seq(Datagrams), NEW h \in Nat, NEW d \in Nat, NEW f, NEW m \in Nat,
           Ordered(q, h, d, f, m), Len(q) <= QueueMax,
           NEW p \in Datagrams, p.flow = f, p.id = m
    PROVE  Ordered(Enqueued(q, p), h, d, f, m + 1)
<1>1. Len(q) \in Nat /\ QueueMax \in Nat
      BY Bounds
<1>2. \A k \in 1..Len(q) : q[k].id \in Nat
      BY DatagramIds
<1>3. CASE Len(q) < QueueMax
  <2> DEFINE e == Enqueued(q, p)
  <2>1. /\ Len(e) = Len(q) + 1
        /\ \A k \in 1..Len(q) : e[k] = q[k]
        /\ e[Len(q) + 1] = p
        BY <1>3, EnqueuedLast
  <2> HIDE DEF e
  <2>2. \A k \in 1..Len(e) :
           (k \in 1..Len(q) /\ e[k] = q[k]) \/ (k = Len(q) + 1 /\ e[k] = p)
    <3> SUFFICES ASSUME NEW k \in 1..Len(q) + 1
        PROVE  (k \in 1..Len(q) /\ e[k] = q[k]) \/ (k = Len(q) + 1 /\ e[k] = p)
        BY <2>1
    <3>1. k \in 1..Len(q) \/ k = Len(q) + 1
          BY <1>1
    <3>2. CASE k \in 1..Len(q)
          BY <2>1, <3>2
    <3>3. CASE k = Len(q) + 1
          BY <1>1, <2>1, <3>3
    <3> QED BY <3>1, <3>2, <3>3
  <2>3. \A k \in 1..Len(e) :
           e[k].flow = f /\ e[k].id < m + 1 /\ h < e[k].id /\ d < e[k].id
        BY <1>2, <2>2 DEF Ordered
  <2>4. \A k, l \in 1..Len(e) : k < l => e[k].id < e[l].id
        BY <1>1, <1>2, <2>2 DEF Ordered
  <2>5. h < m + 1 /\ d < m + 1 /\ (h # 0 => d < h)
        BY DEF Ordered
  <2>6. Ordered(e, h, d, f, m + 1)
        BY <2>3, <2>4, <2>5 DEF Ordered
  <2> QED BY <2>6 DEF e
<1>4. CASE Len(q) = QueueMax
  <2> DEFINE e == Enqueued(q, p)
  <2>1. /\ Len(e) = Len(q)
        /\ \A k \in 1..Len(q) - 1 : e[k] = q[k + 1]
        /\ e[Len(q)] = p
        BY <1>4, EnqueuedFull
  <2> HIDE DEF e
  <2>2. \A k \in 1..Len(e) :
           (k + 1 \in 1..Len(q) /\ e[k] = q[k + 1]) \/ (k = Len(q) /\ e[k] = p)
    <3> SUFFICES ASSUME NEW k \in 1..Len(q)
        PROVE  (k + 1 \in 1..Len(q) /\ e[k] = q[k + 1]) \/ (k = Len(q) /\ e[k] = p)
        BY <2>1
    <3>1. CASE k = Len(q)
          BY <1>1, <2>1, <3>1
    <3>2. CASE k # Len(q)
      <4>1. k \in 1..Len(q) - 1 /\ k + 1 \in 1..Len(q)
            BY <1>1, <3>2
      <4>2. e[k] = q[k + 1]
            BY <1>1, <2>1, <4>1
      <4> QED BY <4>1, <4>2
    <3> QED BY <3>1, <3>2
  <2>3. \A k \in 1..Len(e) :
           e[k].flow = f /\ e[k].id < m + 1 /\ h < e[k].id /\ d < e[k].id
        BY <1>2, <2>2 DEF Ordered
  <2>4. \A k, l \in 1..Len(e) : k < l => e[k].id < e[l].id
        BY <1>1, <1>2, <2>1, <2>2 DEF Ordered
  <2>5. h < m + 1 /\ d < m + 1 /\ (h # 0 => d < h)
        BY DEF Ordered
  <2>6. Ordered(e, h, d, f, m + 1)
        BY <2>3, <2>4, <2>5 DEF Ordered
  <2> QED BY <2>6 DEF e
<1> QED BY <1>1, <1>3, <1>4

\* session_dequeue: the oldest datagram is taken.
LEMMA OrderedTake ==
    ASSUME NEW q \in Seq(Datagrams), NEW h \in Nat, NEW d \in Nat, NEW f, NEW m \in Nat,
           Ordered(q, h, d, f, m), q # <<>>
    PROVE  Ordered(Tail(q), Head(q).id, d, f, m)
<1>1. Len(q) \in Nat /\ 1 \in 1..Len(q) /\ Head(q) = q[1]
      OBVIOUS
<1>2. \A k \in 1..Len(q) : q[k].id \in Nat
      BY DatagramIds
<1> DEFINE t == Tail(q)
<1>3. Len(t) = Len(q) - 1 /\ \A k \in 1..Len(t) : t[k] = q[k + 1]
      BY HeadTailProperties
<1> HIDE DEF t
<1>4. \A k \in 1..Len(t) : k + 1 \in 1..Len(q) /\ 1 < k + 1 /\ t[k] = q[k + 1]
      BY <1>1, <1>3
<1> QED BY <1>1, <1>2, <1>4 DEF Ordered, t

\* relay_send: what was taken is sent, or lost.
LEMMA OrderedSent ==
    ASSUME NEW q \in Seq(Datagrams), NEW h \in Nat, NEW d \in Nat, NEW f, NEW m \in Nat,
           Ordered(q, h, d, f, m)
    PROVE  Ordered(q, 0, h, f, m) /\ Ordered(q, 0, d, f, m)
BY DatagramIds DEF Ordered

\* Initially nothing is queued.
LEMMA InitOrder == Init => OrderInv
<1> SUFFICES ASSUME Init, NEW s \in Sids
    PROVE  /\ s \notin Created => queue[s] = <<>> /\ hand[s] = 0 /\ sent[s] = 0
           /\ Ordered(queue[s], hand[s], sent[s], flow[s], Limit)
    BY DEF OrderInv
<1>1. queue[s] = <<>> /\ hand[s] = 0 /\ sent[s] = 0
      BY DEF Init
<1>2. Limit = 1
      BY DEF Init, Limit
<1> QED BY <1>1, <1>2, OrderedNone

\* What the order of a session speaks of has its type.
LEMMA SessionTypes ==
    ASSUME TypeOK, NEW s \in Sids
    PROVE  /\ queue[s] \in Seq(Datagrams) /\ Len(queue[s]) <= QueueMax
           /\ hand[s] \in Nat /\ sent[s] \in Nat
<1>1. /\ queue[s] \in Seq(Datagrams) /\ Len(queue[s]) <= QueueMax
      /\ hand[s] \in 0..MaxDatagrams /\ sent[s] \in 0..MaxDatagrams
      BY DEF TypeOK
<1> QED BY <1>1, Bounds

\* Steps that touch no session's datagrams: the bound only grows.
LEMMA OthersOrder ==
    ASSUME TypeOK, OrderInv, Limit \in Nat, Limit' \in Nat, Limit <= Limit',
           UNCHANGED <<queue, hand, sent>>, Created \subseteq Created',
           \A s \in Sids : flow'[s] = flow[s] \/ s \notin Created
    PROVE  OrderInv'
<1> SUFFICES ASSUME NEW s \in Sids
    PROVE  /\ s \notin Created' => queue'[s] = <<>> /\ hand'[s] = 0 /\ sent'[s] = 0
           /\ Ordered(queue'[s], hand'[s], sent'[s], flow'[s], Limit')
    BY DEF OrderInv
<1>1. /\ s \notin Created => queue[s] = <<>> /\ hand[s] = 0 /\ sent[s] = 0
      /\ Ordered(queue[s], hand[s], sent[s], flow[s], Limit)
      BY DEF OrderInv
<1>2. queue[s] \in Seq(Datagrams) /\ hand[s] \in Nat /\ sent[s] \in Nat
      BY SessionTypes
<1>3. CASE s \notin Created
  <2>1. 0 < Limit'
        BY <1>1, <1>2 DEF Ordered
  <2> QED BY <1>1, <1>3, <2>1, OrderedNone
<1>4. CASE s \in Created
  <2>1. flow'[s] = flow[s]
        BY <1>4
  <2> QED BY <1>1, <1>2, <1>4, <2>1, OrderedLater
<1> QED BY <1>3, <1>4

\* Steps that change what one session holds.
LEMMA OneOrder ==
    ASSUME TypeOK, OrderInv, Limit \in Nat, Limit' \in Nat, Limit <= Limit',
           NEW s \in Sids, s \in Created, Created' = Created,
           flow' = flow,
           \A t \in Sids \ {s} : queue'[t] = queue[t] /\ hand'[t] = hand[t] /\ sent'[t] = sent[t],
           Ordered(queue'[s], hand'[s], sent'[s], flow[s], Limit')
    PROVE  OrderInv'
<1> SUFFICES ASSUME NEW t \in Sids
    PROVE  /\ t \notin Created' => queue'[t] = <<>> /\ hand'[t] = 0 /\ sent'[t] = 0
           /\ Ordered(queue'[t], hand'[t], sent'[t], flow'[t], Limit')
    BY DEF OrderInv
<1>1. CASE t = s
      BY <1>1
<1>2. CASE t # s
  <2>1. /\ t \notin Created => queue[t] = <<>> /\ hand[t] = 0 /\ sent[t] = 0
        /\ Ordered(queue[t], hand[t], sent[t], flow[t], Limit)
        BY DEF OrderInv
  <2>2. queue[t] \in Seq(Datagrams) /\ hand[t] \in Nat /\ sent[t] \in Nat
        BY SessionTypes
  <2>3. queue'[t] = queue[t] /\ hand'[t] = hand[t] /\ sent'[t] = sent[t]
        BY <1>2
  <2> QED BY <2>1, <2>2, <2>3, OrderedLater
<1> QED BY <1>1, <1>2

\* Every step keeps the order of every session.
LEMMA StepOrder ==
    ASSUME TypeOK, Registry, OrderInv, [Next]_vars
    PROVE  OrderInv'
<1> USE DEF registry, work, reading, reaping
<1>t. /\ worker \in [Sids -> Workers] /\ flow \in [Sids -> Flows]
      /\ hand \in [Sids -> 0..MaxDatagrams] /\ sent \in [Sids -> 0..MaxDatagrams]
      /\ queue \in [Sids -> Seq(Datagrams)]
      BY DEF TypeOK
<1>a. arrived \in Nat
      BY ArrivedNat
<1>l. Limit \in Nat
      BY <1>a DEF Limit
<1>1. ASSUME NEW f \in Flows, Read(f)
      PROVE  OrderInv'
  <2>1. UNCHANGED <<queue, hand, sent, flow, worker>>
        BY <1>1 DEF Read
  <2>2. Limit' = Limit
        BY <1>1 DEF Read, Limit
  <2> QED BY <1>l, <2>1, <2>2, OthersOrder DEF Created
<1>2. CASE Find
  <2>1. UNCHANGED <<queue, hand, sent, flow, worker, arrived>>
        BY <1>2 DEF Find
  <2>2. reader # "read"
        BY <1>2 DEF Find
  <2>3. Limit' \in Nat /\ Limit <= Limit'
        BY <1>a, <2>1, <2>2 DEF Limit
  <2> QED BY <1>l, <2>1, <2>3, OthersOrder DEF Created
<1>3. CASE Connect
  <2>1. UNCHANGED <<queue, hand, sent, worker, arrived>>
        BY <1>3 DEF Connect
  <2>2. reader # "read"
        BY <1>3 DEF Connect
  <2>3. Limit' \in Nat /\ Limit <= Limit'
        BY <1>a, <2>1, <2>2 DEF Limit
  <2>4. \A s \in Sids : flow'[s] = flow[s] \/ s \notin Created
        BY <1>3, <1>t DEF Connect
  <2>5. Created' = Created
        BY <2>1 DEF Created
  <2> QED BY <1>l, <2>1, <2>3, <2>4, <2>5, OthersOrder
<1>4. CASE Associate
  <2>1. UNCHANGED <<queue, hand, sent, flow, arrived>>
        BY <1>4 DEF Associate
  <2>2. reader # "read"
        BY <1>4 DEF Associate
  <2>3. Limit' \in Nat /\ Limit <= Limit'
        BY <1>a, <2>1, <2>2 DEF Limit
  <2>4. Created \subseteq Created'
    <3>1. CASE worker' = worker
          BY <3>1 DEF Created
    <3>2. CASE worker' = [worker EXCEPT ![cur] = "drain"]
          BY <1>t, <3>2 DEF Created
    <3> QED BY <1>4, <3>1, <3>2 DEF Associate
  <2> QED BY <1>l, <2>1, <2>3, <2>4, OthersOrder
<1>5. CASE Insert
  <2>1. UNCHANGED <<queue, hand, sent, flow, worker, arrived>>
        BY <1>5 DEF Insert
  <2>2. reader # "read"
        BY <1>5 DEF Insert
  <2>3. Limit' \in Nat /\ Limit <= Limit'
        BY <1>a, <2>1, <2>2 DEF Limit
  <2> QED BY <1>l, <2>1, <2>3, OthersOrder DEF Created
<1>6. CASE Check
  <2>1. UNCHANGED <<queue, hand, sent, flow, worker, arrived>>
        BY <1>6 DEF Check
  <2>2. reader # "read"
        BY <1>6 DEF Check
  <2>3. Limit' \in Nat /\ Limit <= Limit'
        BY <1>a, <2>1, <2>2 DEF Limit
  <2> QED BY <1>l, <2>1, <2>3, OthersOrder DEF Created
<1>7. CASE Put
  <2>1. reader = "put" /\ reader' = "read" /\ UNCHANGED <<hand, sent, flow, worker, arrived, cur, packet>>
        BY <1>7 DEF Put
  <2>2. cur \in Created /\ cur \in Sids /\ flow[cur] = packet.flow /\ packet.id = arrived
        BY <2>1 DEF Registry, ReaderInv, Created
  <2>3. packet \in Datagrams
        BY <1>7 DEF Put, Registry, ReaderInv, TypeOK, Datagrams
  <2>4. Limit = arrived /\ Limit' = arrived + 1
        BY <2>1 DEF Limit
  <2>5. queue' = [queue EXCEPT ![cur] = Enqueued(queue[cur], packet)]
        BY <1>7 DEF Put
  <2>6. /\ queue[cur] \in Seq(Datagrams) /\ hand[cur] \in Nat /\ sent[cur] \in Nat
        /\ Len(queue[cur]) <= QueueMax
        BY <2>2, SessionTypes
  <2>7. Ordered(queue[cur], hand[cur], sent[cur], flow[cur], Limit)
        BY <2>2 DEF OrderInv
  <2>8. Ordered(Enqueued(queue[cur], packet), hand[cur], sent[cur], flow[cur], Limit')
        BY <1>l, <2>2, <2>3, <2>4, <2>6, <2>7, OrderedPut
  <2>9. /\ queue'[cur] = Enqueued(queue[cur], packet)
        /\ \A t \in Sids \ {cur} : queue'[t] = queue[t]
        BY <1>t, <2>2, <2>5
  <2>10. Created' = Created
        BY <2>1 DEF Created
  <2>11. Ordered(queue'[cur], hand'[cur], sent'[cur], flow[cur], Limit')
        BY <2>1, <2>8, <2>9
  <2>12. Limit' \in Nat /\ Limit <= Limit'
        BY <1>a, <2>4
  <2> QED BY <1>l, <2>1, <2>2, <2>9, <2>10, <2>11, <2>12, OneOrder
<1>8. ASSUME NEW s \in Sids, Drain(s)
      PROVE  OrderInv'
  <2>1. UNCHANGED <<sent, flow, reader, arrived>> /\ worker[s] = "drain"
        BY <1>8 DEF Drain
  <2>2. Limit' = Limit
        BY <2>1 DEF Limit
  <2>3. \E w \in Workers \ {"none"} : worker' = [worker EXCEPT ![s] = w]
        BY <1>8 DEF Drain
  <2>4. Created' = Created /\ s \in Created
        BY <1>t, <2>1, <2>3 DEF Created
  <2>5. CASE ~closed[s] /\ queue[s] # <<>>
    <3>1. hand' = [hand EXCEPT ![s] = Head(queue[s]).id] /\ queue' = [queue EXCEPT ![s] = Tail(queue[s])]
          BY <1>8, <2>5 DEF Drain
    <3>2. /\ hand'[s] = Head(queue[s]).id /\ queue'[s] = Tail(queue[s])
          /\ \A t \in Sids \ {s} : queue'[t] = queue[t] /\ hand'[t] = hand[t]
          BY <1>t, <3>1
    <3>3. queue[s] \in Seq(Datagrams) /\ hand[s] \in Nat /\ sent[s] \in Nat
          BY SessionTypes
    <3>4. Ordered(queue[s], hand[s], sent[s], flow[s], Limit)
          BY DEF OrderInv
    <3>5. Ordered(Tail(queue[s]), Head(queue[s]).id, sent[s], flow[s], Limit)
          BY <1>l, <2>5, <3>3, <3>4, OrderedTake
    <3>6. Ordered(queue'[s], hand'[s], sent'[s], flow[s], Limit')
          BY <2>1, <2>2, <3>2, <3>5
    <3>7. Limit' \in Nat /\ Limit <= Limit'
          BY <1>l, <2>2
    <3> QED BY <1>l, <2>1, <2>4, <3>2, <3>6, <3>7, OneOrder
  <2>6. CASE ~(~closed[s] /\ queue[s] # <<>>)
    <3>1. hand' = hand /\ queue' = queue
          BY <1>8, <2>6 DEF Drain
    <3>2. Limit' \in Nat /\ Limit <= Limit'
          BY <1>l, <2>2
    <3> QED BY <1>l, <2>1, <2>4, <3>1, <3>2, OthersOrder
  <2> QED BY <2>5, <2>6
<1>9. ASSUME NEW s \in Sids, Send(s)
      PROVE  OrderInv'
  <2>1. /\ UNCHANGED <<queue, flow, reader, arrived>> /\ worker[s] = "send"
        /\ hand' = [hand EXCEPT ![s] = 0]
        BY <1>9 DEF Send
  <2>2. Limit' = Limit
        BY <2>1 DEF Limit
  <2>3. \E w \in Workers \ {"none"} : worker' = [worker EXCEPT ![s] = w]
        BY <1>9 DEF Send
  <2>4. Created' = Created /\ s \in Created
        BY <1>t, <2>1, <2>3 DEF Created
  <2>5. /\ sent'[s] = hand[s] \/ sent'[s] = sent[s]
        /\ \A t \in Sids \ {s} : sent'[t] = sent[t]
        BY <1>9, <1>t DEF Send
  <2>6. hand'[s] = 0 /\ \A t \in Sids \ {s} : hand'[t] = hand[t]
        BY <1>t, <2>1
  <2>7. queue[s] \in Seq(Datagrams) /\ hand[s] \in Nat /\ sent[s] \in Nat
        BY SessionTypes
  <2>8. Ordered(queue[s], hand[s], sent[s], flow[s], Limit)
        BY DEF OrderInv
  <2>9. /\ Ordered(queue[s], 0, hand[s], flow[s], Limit)
        /\ Ordered(queue[s], 0, sent[s], flow[s], Limit)
        BY <1>l, <2>7, <2>8, OrderedSent
  <2>10. Ordered(queue'[s], hand'[s], sent'[s], flow[s], Limit')
        BY <2>1, <2>2, <2>5, <2>6, <2>9
  <2>11. Limit' \in Nat /\ Limit <= Limit'
        BY <1>l, <2>2
  <2> QED BY <1>l, <2>1, <2>4, <2>5, <2>6, <2>10, <2>11, OneOrder
<1>10. ASSUME NEW s \in Sids, Poll(s) \/ RecvFails(s)
       PROVE  OrderInv'
  <2>1. UNCHANGED <<queue, hand, sent, flow, reader, arrived>>
        BY <1>10 DEF Poll, RecvFails
  <2>2. worker[s] # "none"
        BY <1>10 DEF Poll, RecvFails
  <2>3. \E w \in Workers \ {"none"} : worker' = [worker EXCEPT ![s] = w]
        BY <1>10 DEF Poll, RecvFails
  <2>4. Created' = Created
        BY <1>t, <2>2, <2>3 DEF Created
  <2>5. Limit' = Limit
        BY <2>1 DEF Limit
  <2> QED BY <1>l, <2>1, <2>4, <2>5, OthersOrder
<1>11. ASSUME NEW s \in Sids, Recv(s) \/ Reply(s) \/ Reap(s)
       PROVE  OrderInv'
  <2>1. UNCHANGED <<queue, hand, sent, flow, worker, reader, arrived>>
        BY <1>11 DEF Recv, Reply, Reap
  <2>2. Limit' = Limit
        BY <2>1 DEF Limit
  <2> QED BY <1>l, <2>1, <2>2, OthersOrder DEF Created
<1>12. CASE ReapBegin \/ ReapEnd \/ Tick \/ UNCHANGED vars
  <2>1. UNCHANGED <<queue, hand, sent, flow, worker, reader, arrived>>
        BY <1>12 DEF ReapBegin, ReapEnd, Tick, vars
  <2>2. Limit' = Limit
        BY <2>1 DEF Limit
  <2> QED BY <1>l, <2>1, <2>2, OthersOrder DEF Created
<1> QED BY <1>1, <1>2, <1>3, <1>4, <1>5, <1>6, <1>7, <1>8, <1>9, <1>10, <1>11, <1>12
        DEF Next, WorkerStep

-----------------------------------------------------------------------------
(* The theorems                                                            *)

\* The inductive invariant: the registry needs what the reader knows of its
\* session, and the order of the datagrams needs the registry.
IInv == TypeOK /\ Registry /\ OrderInv

\* The inductive invariant holds.
LEMMA Invariant == Spec => []IInv
<1>1. Init => IInv
      BY InitType, InitRegistry, InitOrder DEF IInv
<1>2. IInv /\ [Next]_vars => IInv'
  <2> SUFFICES ASSUME IInv, [Next]_vars PROVE IInv'
      OBVIOUS
  <2>1. TypeOK /\ Registry /\ OrderInv
        BY DEF IInv
  <2>2. CountIsExact /\ ListInv /\ ReaderInv
        BY <2>1 DEF Registry
  <2>3. TypeOK'
        BY <2>1, <2>2, StepType
  <2>4. Registry'
        BY <2>1, StepRegistry
  <2>5. OrderInv'
        BY <2>1, StepOrder
  <2> QED BY <2>3, <2>4, <2>5 DEF IInv
<1> QED BY <1>1, <1>2, PTL DEF Spec

\* Every variable has its type, and no queue is longer than QUEUE_MAX.
THEOREM TypeCorrect == Spec => []TypeOK
<1>1. IInv => TypeOK
      BY DEF IInv
<1> QED BY <1>1, Invariant, PTL

\* session_count counts the list, which never exceeds SESSION_MAX, although
\* the reader's insertions and evictions and the reaper's removals interleave.
THEOREM CountStaysExact == Spec => []CountIsExact
<1>1. IInv => CountIsExact
      BY DEF IInv, Registry
<1> QED BY <1>1, Invariant, PTL

\* session_get never opens a second session of a flow: between session_find
\* and the insertion nobody else can add one, and sessions do not reopen.
THEOREM OneSession == Spec => []OneSessionPerFlow
<1>1. IInv => OneSessionPerFlow
      BY DEF IInv, Registry
<1> QED BY <1>1, Invariant, PTL

\* A session off the list, evicted or idle, is closed: its worker will end.
THEOREM NoOpenOrphan == Spec => []UnlistedIsClosed
<1>1. IInv => UnlistedIsClosed
      BY DEF IInv, Registry
<1> QED BY <1>1, Invariant, PTL

\* Datagrams leave a session in the order of their arrival, once at most, and
\* only on their own flow's session.
THEOREM OrderKept == Spec => []SentInOrder
<1>1. IInv => SentInOrder
  <2> SUFFICES ASSUME IInv, NEW s \in Sids, s \in Created
      PROVE  /\ \A k \in 1..Len(queue[s]) : queue[s][k].flow = flow[s]
             /\ \A k, l \in 1..Len(queue[s]) : k < l => queue[s][k].id < queue[s][l].id
             /\ \A k \in 1..Len(queue[s]) :
                   hand[s] < queue[s][k].id /\ sent[s] < queue[s][k].id
             /\ hand[s] # 0 => sent[s] < hand[s]
      BY DEF SentInOrder, Created
  <2>1. Ordered(queue[s], hand[s], sent[s], flow[s], Limit)
        BY DEF IInv, OrderInv
  <2> QED BY <2>1 DEF Ordered
<1> QED BY <1>1, Invariant, PTL
=============================================================================
