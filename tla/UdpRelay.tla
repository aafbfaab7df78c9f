------------------------------ MODULE UdpRelay ------------------------------
(***************************************************************************)
(* wz-udprelay: it reads the clients' UDP datagrams from utun, keeps one   *)
(* session with the upstream SOCKS5 server per flow, and injects what the  *)
(* server relays back.  A reader thread owns utun and creates sessions,    *)
(* each session has a worker thread, and a reaper closes the idle ones.    *)
(*                                                                         *)
(* The reader and the reaper change the list of sessions under list_mutex; *)
(* workers look at their session without it.  The reader is the only one   *)
(* to add to the list, at its head, so that its order is that of the       *)
(* sessions' numbers.  Descriptors are not modelled: a send or a receive   *)
(* may fail at any time.                                                   *)
(***************************************************************************)
EXTENDS Integers, FiniteSets, Sequences

CONSTANTS
    Clients, Targets,   \* addresses (with ports) of clients and of their peers
    SessionMax,         \* SESSION_MAX
    QueueMax,           \* QUEUE_MAX
    IdleTimeout,        \* IDLE_TIMEOUT
    RelayPort,          \* the port in the server's answer to UDP ASSOCIATE
    MaxSid,             \* bound on the sessions ever created
    MaxDatagrams,       \* bound on the datagrams read from utun
    MaxTime             \* bound on the clock

ASSUME FlowsAssumption == Clients # {} /\ Targets # {}

ASSUME LimitsAssumption ==
    /\ SessionMax \in Nat \ {0} /\ QueueMax \in Nat \ {0} /\ IdleTimeout \in Nat
    /\ RelayPort \in 0..65535
    /\ MaxSid \in Nat /\ MaxDatagrams \in Nat /\ MaxTime \in Nat

Flows == Clients \X Targets
Sids == 1..MaxSid
Datagrams == [id: 1..MaxDatagrams, flow: Flows]

VARIABLES
    listed,         \* the sessions in the list
    sessionCount,   \* session_count
    flow,           \* the client and the target of each session
    closed,         \* each session's `closed`
    queue,          \* each session's queued datagrams
    last,           \* when each session was used last
    worker,         \* what each session's thread does
    hand,           \* the datagram a worker has taken and not yet sent
    sent,           \* the id of the datagram each session sent last (0: none)
    readable,       \* sessions whose socket has a datagram of the server
    reader,         \* what the reader does
    packet,         \* the datagram the reader works on
    cur,            \* the session it has found or created
    arrived,        \* the datagrams read so far
    mutex,          \* list_mutex, when the reaper holds it across steps
    todo,           \* the sessions the reaper has yet to look at
    now             \* the clock

registry == <<listed, sessionCount, flow>>
work == <<worker, hand, sent, readable>>
reading == <<reader, packet, cur, arrived>>
reaping == <<mutex, todo>>
vars == <<registry, closed, queue, last, work, reading, reaping, now>>

Workers == {"none", "drain", "send", "poll", "recv", "ended"}
Readers == {"read", "find", "connect", "associate", "insert", "find again", "check", "put"}

\* Sessions that are in use at all; a number is free again when its creation fails.
Created == {s \in Sids : worker[s] # "none"}

----------------------------------------------------------------------------
(* The session's helpers                                                   *)

\* session_find looks for an open session of the flow.
\* (Matches_Client: it compares the client's address only.  Found_Fresh: it
\* passes over the sessions that the reaper is about to close.)
Matches_Client(s, f) == flow[s][1] = f[1]
Matches(s, f) == flow[s] = f

Found_Fresh(f) ==
    {s \in listed : ~closed[s] /\ Matches(s, f) /\ now - last[s] <= IdleTimeout}
Found(f) == {s \in listed : ~closed[s] /\ Matches(s, f)}

\* session_evict_one takes the session that was idle the longest, the one
\* furthest down the list when there are several.
IdleLongest(s) ==
    \A t \in listed : last[s] < last[t] \/ (last[s] = last[t] /\ s <= t)

\* session_enqueue drops the oldest datagram of a full queue.
Enqueued(q, d) == Append(IF Len(q) >= QueueMax THEN Tail(q) ELSE q, d)

\* s5_udp_associate stores the port in host order: on a little-endian machine
\* its two bytes change places on the wire.
SinPort(port) == (port % 256) * 256 + port \div 256

----------------------------------------------------------------------------
(* tun_reader, with session_get and session_create                         *)

Read(f) ==
    /\ reader = "read"
    /\ arrived < MaxDatagrams
    /\ arrived' = arrived + 1
    /\ packet' = [id |-> arrived', flow |-> f]
    /\ reader' = "find"
    /\ UNCHANGED <<registry, closed, queue, last, work, cur, reaping, now>>

\* session_find, under the mutex, before and after the creation of a session.
Find ==
    /\ reader \in {"find", "find again"}
    /\ mutex = "free"
    /\ \/ \E s \in Found(packet.flow) :
          /\ \A t \in Found(packet.flow) : t <= s
          /\ cur' = s
          /\ last' = [last EXCEPT ![s] = now]
          /\ reader' = "check"
       \/ /\ Found(packet.flow) = {}
          /\ reader' = IF reader = "find" THEN "connect" ELSE "read"
          /\ UNCHANGED <<cur, last>>
    /\ UNCHANGED <<registry, closed, queue, work, packet, arrived, reaping, now>>

\* connect_socks and s5_handshake; the session gets its time stamp here.
Connect ==
    /\ reader = "connect"
    /\ \/ reader' = "read" /\ UNCHANGED <<cur, flow, last>>
       \/ \E s \in Sids \ Created :
          /\ \A t \in Sids \ Created : s <= t
          /\ cur' = s
          /\ flow' = [flow EXCEPT ![s] = packet.flow]
          /\ last' = [last EXCEPT ![s] = now]
          /\ reader' = "associate"
    /\ UNCHANGED <<listed, sessionCount, closed, queue, work, packet, arrived, reaping, now>>

\* s5_udp_associate, and the worker's thread.
Associate ==
    /\ reader = "associate"
    /\ \/ reader' = "read" /\ UNCHANGED worker
       \/ /\ worker' = [worker EXCEPT ![cur] = "drain"]
          /\ reader' = "insert"
    /\ UNCHANGED <<registry, closed, queue, last, hand, sent, readable, packet, cur, arrived,
                   reaping, now>>

\* A full list gives up a session for the new one.
\* (Insert_LeftOpen: without setting its closed flag.)
Insert_LeftOpen ==
    /\ reader = "insert"
    /\ mutex = "free"
    /\ IF sessionCount >= SessionMax
       THEN /\ \E old \in listed : IdleLongest(old) /\ listed' = (listed \ {old}) \cup {cur}
            /\ UNCHANGED sessionCount
       ELSE /\ listed' = listed \cup {cur}
            /\ sessionCount' = sessionCount + 1
    /\ reader' = "find again"
    /\ UNCHANGED <<flow, closed, queue, last, work, packet, cur, arrived, reaping, now>>

Insert ==
    /\ reader = "insert"
    /\ mutex = "free"
    /\ IF sessionCount >= SessionMax
       THEN /\ \E old \in listed :
                  /\ IdleLongest(old)
                  /\ listed' = (listed \ {old}) \cup {cur}
                  /\ closed' = [closed EXCEPT ![old] = TRUE]
            /\ UNCHANGED sessionCount
       ELSE /\ listed' = listed \cup {cur}
            /\ sessionCount' = sessionCount + 1
            /\ UNCHANGED closed
    /\ reader' = "find again"
    /\ UNCHANGED <<flow, queue, last, work, packet, cur, arrived, reaping, now>>

\* The look at s->closed, without a lock, and session_enqueue.
Check ==
    /\ reader = "check"
    /\ reader' = IF closed[cur] THEN "read" ELSE "put"
    /\ UNCHANGED <<registry, closed, queue, last, work, packet, cur, arrived, reaping, now>>

Put ==
    /\ reader = "put"
    /\ queue' = [queue EXCEPT ![cur] = Enqueued(@, packet)]
    /\ last' = [last EXCEPT ![cur] = now]
    /\ reader' = "read"
    /\ UNCHANGED <<registry, closed, work, packet, cur, arrived, reaping, now>>

----------------------------------------------------------------------------
(* session_thread                                                          *)

Drain(s) ==
    /\ worker[s] = "drain"
    /\ IF closed[s]
       THEN worker' = [worker EXCEPT ![s] = "ended"] /\ UNCHANGED <<hand, queue>>
       ELSE IF queue[s] # <<>>
       THEN /\ hand' = [hand EXCEPT ![s] = Head(queue[s]).id]
            /\ queue' = [queue EXCEPT ![s] = Tail(@)]
            /\ worker' = [worker EXCEPT ![s] = "send"]
       ELSE worker' = [worker EXCEPT ![s] = "poll"] /\ UNCHANGED <<hand, queue>>
    /\ UNCHANGED <<registry, closed, last, sent, readable, reading, reaping, now>>

\* relay_send.  A session whose send fails is closed and stays in the list.
Send(s) ==
    /\ worker[s] = "send"
    /\ \/ /\ sent' = [sent EXCEPT ![s] = hand[s]]
          /\ worker' = [worker EXCEPT ![s] = "drain"]
          /\ UNCHANGED closed
       \/ /\ closed' = [closed EXCEPT ![s] = TRUE]
          /\ worker' = [worker EXCEPT ![s] = "ended"]
          /\ UNCHANGED sent
    /\ hand' = [hand EXCEPT ![s] = 0]
    /\ UNCHANGED <<registry, queue, last, readable, reading, reaping, now>>

\* poll, for at most 100 ms.  (Poll_Forever: until the socket is readable.)
Poll_Forever(s) ==
    /\ worker[s] = "poll"
    /\ s \in readable
    /\ worker' = [worker EXCEPT ![s] = "recv"]
    /\ UNCHANGED <<registry, closed, queue, last, hand, sent, readable, reading, reaping, now>>

Poll(s) ==
    /\ worker[s] = "poll"
    /\ worker' = [worker EXCEPT ![s] = IF s \in readable THEN "recv" ELSE "drain"]
    /\ UNCHANGED <<registry, closed, queue, last, hand, sent, readable, reading, reaping, now>>

\* recv on a blocking socket, over and over: inject_reply, or a frame that is
\* ignored.  The loop ends only when recv fails or returns an empty datagram.
Recv(s) ==
    /\ worker[s] = "recv"
    /\ s \in readable
    /\ readable' = readable \ {s}
    /\ \E stamp \in {last[s], now} : last' = [last EXCEPT ![s] = stamp]
    /\ UNCHANGED <<registry, closed, queue, worker, hand, sent, reading, reaping, now>>

RecvFails(s) ==
    /\ worker[s] = "recv"
    /\ worker' = [worker EXCEPT ![s] = "drain"]
    /\ \E left \in {readable, readable \ {s}} : readable' = left
    /\ UNCHANGED <<registry, closed, queue, last, hand, sent, reading, reaping, now>>

WorkerStep(s) == Drain(s) \/ Send(s) \/ Poll(s) \/ Recv(s)

\* The server answers when what the session sent went to its relay's port.
Reply(s) ==
    /\ sent[s] # 0
    /\ SinPort(RelayPort) = RelayPort
    /\ worker[s] # "ended"
    /\ s \notin readable
    /\ readable' = readable \cup {s}
    /\ UNCHANGED <<registry, closed, queue, last, worker, hand, sent, reading, reaping, now>>

----------------------------------------------------------------------------
(* reaper, which holds the mutex while it walks the list; workers go on    *)

ReapBegin ==
    /\ mutex = "free"
    /\ listed # {}
    /\ mutex' = "reaper"
    /\ todo' = listed
    /\ UNCHANGED <<registry, closed, queue, last, work, reading, now>>

\* (Reap_Again: a session that has closed itself is taken off the list too,
\* and only the open ones are counted.)
Reap_Again(s) ==
    /\ s \in todo
    /\ todo' = todo \ {s}
    /\ IF now - last[s] > IdleTimeout
       THEN /\ listed' = listed \ {s}
            /\ sessionCount' = IF closed[s] THEN sessionCount ELSE sessionCount - 1
            /\ closed' = [closed EXCEPT ![s] = TRUE]
       ELSE UNCHANGED <<listed, sessionCount, closed>>
    /\ UNCHANGED <<flow, queue, last, work, reading, mutex, now>>

Reap(s) ==
    /\ s \in todo
    /\ todo' = todo \ {s}
    /\ IF ~closed[s] /\ now - last[s] > IdleTimeout
       THEN /\ listed' = listed \ {s}
            /\ sessionCount' = sessionCount - 1
            /\ closed' = [closed EXCEPT ![s] = TRUE]
       ELSE UNCHANGED <<listed, sessionCount, closed>>
    /\ UNCHANGED <<flow, queue, last, work, reading, mutex, now>>

ReapEnd ==
    /\ mutex = "reaper"
    /\ todo = {}
    /\ mutex' = "free"
    /\ UNCHANGED <<registry, closed, queue, last, work, reading, todo, now>>

Tick ==
    /\ now < MaxTime
    /\ now' = now + 1
    /\ UNCHANGED <<registry, closed, queue, last, work, reading, reaping>>

----------------------------------------------------------------------------
NoFlow == CHOOSE f \in Flows : TRUE

Init ==
    /\ listed = {}
    /\ sessionCount = 0
    /\ flow = [s \in Sids |-> NoFlow]
    /\ closed = [s \in Sids |-> FALSE]
    /\ queue = [s \in Sids |-> <<>>]
    /\ last = [s \in Sids |-> 0]
    /\ worker = [s \in Sids |-> "none"]
    /\ hand = [s \in Sids |-> 0]
    /\ sent = [s \in Sids |-> 0]
    /\ readable = {}
    /\ reader = "read"
    /\ packet = [id |-> 0, flow |-> NoFlow]
    /\ cur = 0
    /\ arrived = 0
    /\ mutex = "free"
    /\ todo = {}
    /\ now = 0

Next ==
    \/ \E f \in Flows : Read(f)
    \/ Find \/ Connect \/ Associate \/ Insert \/ Check \/ Put
    \/ \E s \in Sids : WorkerStep(s) \/ RecvFails(s) \/ Reply(s) \/ Reap(s)
    \/ ReapBegin \/ ReapEnd \/ Tick

\* The worker's thread is scheduled.  Nothing is assumed of the server, of the
\* reader, which waits for the server, or of the clock.
Fairness == \A s \in Sids : WF_vars(WorkerStep(s))

Spec == Init /\ [][Next]_vars /\ Fairness

----------------------------------------------------------------------------
(* Properties                                                              *)

TypeOK ==
    /\ listed \subseteq Sids
    /\ sessionCount \in Nat
    /\ flow \in [Sids -> Flows]
    /\ closed \in [Sids -> BOOLEAN]
    /\ queue \in [Sids -> Seq(Datagrams)]
    /\ \A s \in Sids : Len(queue[s]) <= QueueMax
    /\ last \in [Sids -> 0..MaxTime]
    /\ worker \in [Sids -> Workers]
    /\ hand \in [Sids -> 0..MaxDatagrams]
    /\ sent \in [Sids -> 0..MaxDatagrams]
    /\ readable \subseteq Sids
    /\ reader \in Readers
    /\ packet \in [id: 0..MaxDatagrams, flow: Flows]
    /\ cur \in 0..MaxSid
    /\ arrived \in 0..MaxDatagrams
    /\ mutex \in {"free", "reaper"}
    /\ todo \subseteq Sids
    /\ now \in 0..MaxTime

\* session_count is the length of the list and never exceeds SESSION_MAX,
\* whoever adds, evicts or reaps, and however sessions close themselves.
CountIsExact == sessionCount = Cardinality(listed) /\ sessionCount <= SessionMax

\* A flow has at most one open session in the list, though the reader gives
\* the mutex back between the look for a session and its creation.
OneSessionPerFlow ==
    \A s, t \in listed : ~closed[s] /\ ~closed[t] /\ flow[s] = flow[t] => s = t

\* A session that is no longer in the list is closed, so that its worker ends:
\* nothing else could ever find it to close it.
UnlistedIsClosed ==
    \A s \in Created \ listed : closed[s] \/ (reader = "insert" /\ s = cur)

\* A session sends datagrams of its own flow only, in the order in which they
\* were read, none of them twice, whatever the full queue drops.
SentInOrder ==
    \A s \in Created :
        /\ \A k \in 1..Len(queue[s]) : queue[s][k].flow = flow[s]
        /\ \A k, l \in 1..Len(queue[s]) : k < l => queue[s][k].id < queue[s][l].id
        /\ \A k \in 1..Len(queue[s]) : hand[s] < queue[s][k].id /\ sent[s] < queue[s][k].id
        /\ hand[s] # 0 => sent[s] < hand[s]

\* The datagrams of an open session leave it as long as no reply of the server
\* has drawn its worker into recv: the worker polls for 100 ms at a time.
LeavesUntilReply ==
    \A s \in Sids :
        queue[s] # <<>> ~> queue[s] = <<>> \/ closed[s] \/ worker[s] = "recv"
=============================================================================
