---------------------------------- MODULE Ic ----------------------------------
(***************************************************************************)
(* An ichannel (iop/rpc-channel.blk): queries get a slot and wait for the  *)
(* answer of the peer, with timeouts, cancellations, BYE, disconnections   *)
(* and reconnections; queries of the peer are answered the other way.  The *)
(* peer and the socket are the environment.  A query of the program is     *)
(* used once; callbacks run the actions of the user.                       *)
(***************************************************************************)
EXTENDS Integers, Sequences, FiniteSets

CONSTANTS Msgs,       \* the ic_msg_t of the program's queries
          Remote,     \* the queries of the peer
          NONE,
          MaxSlot,    \* IC_MSG_SLOT_MASK
          MaxConn,    \* bound on the number of connections
          MaxQueue,   \* bound on the queue when the peer asks
          Kinds       \* the ways queries are made: [async, timeout]

\* NONE is no query, and slots are numbers.
IcConstants ==
  /\ NONE \notin Msgs /\ MaxSlot \in Nat
  /\ Kinds \subseteq [async : BOOLEAN, timeout : BOOLEAN]

VARIABLES conn,       \* "off", "handshake" or "on" (elh, is_connected)
          closing,    \* is_closing
          reconn,     \* ic->timer is the reconnection timer
          auto,       \* auto_reconn
          id,         \* ic->id: changes with every disconnection
          msg,        \* per query: [state, kind, slot, canceled, timer, cbs]
          queries,    \* ic->queries: slot -> message
          nextslot,
          msg_list, iov_list,
          queue_len, pending,
          busy,       \* "no", or ic_event runs: "event", or "read" after a message
          out,        \* the event mask of elh has POLLOUT
          peer,       \* queries the peer has received: <<slot, message>>
          inbox,      \* what the peer has sent
          gone,       \* the peer has closed the connection
          work,       \* queries of the peer in the program's hands: <<id, query>>
          wrong       \* an answer was given to another query

channel == <<conn, closing, reconn, auto, id>>
link == <<channel, busy>>
env == <<peer, inbox, gone>>
vars == <<link, msg, queries, nextslot, msg_list, iov_list, queue_len, pending,
          out, env, work, wrong>>

Slots == 1..MaxSlot

Init ==
  /\ conn = "off" /\ closing = FALSE /\ reconn = FALSE /\ auto = TRUE /\ id = 0
  /\ busy = "no" /\ out = FALSE
  /\ msg = [m \in Msgs |-> [state |-> "new", kind |-> NONE, slot |-> 0,
                            canceled |-> FALSE, timer |-> FALSE, cbs |-> 0]]
  /\ queries = [s \in Slots |-> NONE] /\ nextslot = 0
  /\ msg_list = <<>> /\ iov_list = <<>> /\ queue_len = 0 /\ pending = 0
  /\ peer = {} /\ inbox = <<>> /\ gone = FALSE /\ work = {} /\ wrong = FALSE

Queued(m) == [kind |-> "query", of |-> m]
Control(k) == [kind |-> k, of |-> NONE]
Queries == {m \in Msgs : \E s \in Slots : queries[s] = m}

\* The callback of a query, unless it is canceled or async; the end of its timer;
\* and ic_msg_delete.
Called(x) == IF x.canceled \/ x.kind.async THEN x ELSE [x EXCEPT !.cbs = x.cbs + 1]
Canceled(x) == [x EXCEPT !.canceled = TRUE]
Untimed(x) == [x EXCEPT !.timer = FALSE]
Deleted(x) == [Untimed(x) EXCEPT !.state = "freed"]
DeletedIn(S) == [m \in Msgs |-> IF m \in S THEN Deleted(msg[m]) ELSE msg[m]]

\* Mutant of ic_queue: the event mask is left alone.
ic_queue_mut(x) == msg_list' = Append(msg_list, x) /\ out' = out

\* ic_queue: the loop is asked for POLLOUT when the queue was empty.
ic_queue(x) ==
  /\ msg_list' = Append(msg_list, x)
  /\ out' = (out \/ (msg_list = <<>> /\ conn = "on"))

\* Mutant of FreeSlots: the slots in use are not looked at.
FreeSlotsMut == {(nextslot % MaxSlot) + 1}

-----------------------------------------------------------------------------
\* __ic_query_flags: the first free slot after the last one given, if any.
FreeSlots ==
  LET order == IF nextslot = 0 THEN [i \in 1..MaxSlot |-> i]
               ELSE [i \in 1..(MaxSlot - 1) |-> ((nextslot + i - 1) % MaxSlot) + 1]
      free == {i \in DOMAIN order : queries[order[i]] = NONE}
  IN {order[i] : i \in {i \in free : \A j \in free : i <= j}}

Asked(kind, s) == [state |-> "live", kind |-> kind, slot |-> s, canceled |-> FALSE,
                   timer |-> kind.timeout, cbs |-> 0]

\* Nothing of the channel is checked: a query made while it is off waits for the
\* connection, and one made while it closes is aborted with the next event.
__ic_query(m, kind) ==
  /\ msg[m].state = "new"
  /\ IF ~kind.async /\ FreeSlots = {}
     THEN /\ msg' = [msg EXCEPT ![m] = Deleted(Called(Asked(kind, 0)))]
          /\ UNCHANGED <<queries, nextslot, msg_list, queue_len, out>>
     ELSE \E s \in IF kind.async THEN {0} ELSE FreeSlots :
          /\ msg' = [msg EXCEPT ![m] = Asked(kind, s)]
          /\ ic_queue(Queued(m))
          /\ IF kind.async THEN UNCHANGED <<queries, nextslot, queue_len>>
             ELSE /\ queries' = [queries EXCEPT ![s] = m]
                  /\ nextslot' = s
                  /\ queue_len' = queue_len + 1
  /\ UNCHANGED <<link, iov_list, pending, env, work, wrong>>

\* Messages taken off ic->queries before they are deleted (ic_query_take).
Without(S) == [s \in Slots |-> IF queries[s] \in S THEN NONE ELSE queries[s]]
Counted(S) == Cardinality({m \in S : msg[m].slot # 0 /\ ~msg[m].canceled})

ic_msg_cancel(m) ==
  /\ msg[m].state = "live" /\ ~msg[m].canceled
  /\ msg' = [msg EXCEPT ![m] = Canceled(Called(msg[m]))]
  /\ queue_len' = queue_len - 1
  /\ UNCHANGED <<link, queries, nextslot, msg_list, iov_list, pending, env, work,
                 out, wrong>>

\* Mutant of ic_msg_on_timeout: the message is not marked canceled.
ic_msg_on_timeout_mut(m) ==
  /\ msg[m].state = "live" /\ msg[m].timer
  /\ msg' = [msg EXCEPT ![m] = Untimed(Called(msg[m]))]
  /\ queue_len' = queue_len - 1
  /\ UNCHANGED <<link, queries, nextslot, msg_list, iov_list, pending, env, work,
                 out, wrong>>

\* The canceled messages at the head of the queue, h of them, are deleted too.
ic_msg_on_timeout(m) ==
  /\ msg[m].state = "live" /\ msg[m].timer
  /\ \E h \in 0..Len(msg_list) :
       LET new == [msg EXCEPT ![m] = Untimed(Canceled(Called(msg[m])))]
           IsCanceled(x) == x.kind = "query" /\ new[x.of].canceled
           dead == {msg_list[i].of : i \in 1..h}
       IN /\ \A i \in 1..h : IsCanceled(msg_list[i])
          /\ h < Len(msg_list) => ~IsCanceled(msg_list[h + 1])
          /\ msg' = [q \in Msgs |-> IF q \in dead THEN Deleted(new[q]) ELSE new[q]]
          /\ queries' = Without(dead)
          /\ msg_list' = SubSeq(msg_list, h + 1, Len(msg_list))
  /\ queue_len' = queue_len - 1
  /\ UNCHANGED <<link, nextslot, iov_list, pending, env, work, out, wrong>>

\* __ic_reply: a reply to a query that came with an earlier id is dropped.
__ic_reply(w) ==
  /\ w \in work
  /\ work' = work \ {w}
  /\ IF conn # "off" /\ w[1] = id
     THEN /\ pending' = pending - 1
          /\ ic_queue(Control("reply"))
     ELSE UNCHANGED <<pending, msg_list, out>>
  /\ UNCHANGED <<link, msg, queries, nextslot, iov_list, queue_len, env, wrong>>

\* ic_sc_do: the messages of the channel itself.
ic_sc_do(k) == IF closing THEN UNCHANGED <<msg_list, out>> ELSE ic_queue(Control(k))

ic_bye ==
  /\ ~closing \/ auto
  /\ IF conn # "off" THEN ic_sc_do("bye") ELSE UNCHANGED <<msg_list, out>>
  /\ reconn' = (reconn /\ conn # "off")
  /\ closing' = TRUE /\ auto' = FALSE
  /\ UNCHANGED <<conn, id, busy, msg, queries, nextslot, iov_list, queue_len,
                 pending, env, work, wrong>>

-----------------------------------------------------------------------------
ic_connect ==
  /\ conn = "off" /\ id < MaxConn
  /\ conn' = "handshake" /\ reconn' = FALSE
  /\ UNCHANGED <<closing, auto, id, busy, msg, queries, nextslot, msg_list,
                 iov_list, queue_len, pending, env, work, out, wrong>>

ic_mark_connected ==
  /\ conn = "handshake"
  /\ conn' = "on"
  /\ msg_list' = IF msg_list = <<>> /\ ~closing THEN <<Control("nop")>> ELSE msg_list
  /\ out' = TRUE
  /\ UNCHANGED <<closing, reconn, auto, id, busy, msg, queries, nextslot, iov_list,
                 queue_len, pending, env, work, wrong>>

\* All that is queued is deleted, and the queries are aborted.
ic_cancel_all ==
  /\ msg' = [m \in Msgs |->
       IF m \in Queries THEN Deleted(Called(msg[m]))
       ELSE IF msg[m].state = "live" /\ msg[m].slot = 0 THEN Deleted(msg[m])
       ELSE msg[m]]
  /\ queries' = [s \in Slots |-> NONE]
  /\ msg_list' = <<>> /\ iov_list' = <<>>

\* ic_disconnect with a connection; ic_mark_disconnected adds the timer.  The
\* counters are left as they are.
Disconnected(again) ==
  /\ ic_cancel_all
  /\ conn' = "off" /\ closing' = FALSE /\ reconn' = (again /\ auto) /\ id' = id + 1
  /\ busy' = "no" /\ out' = FALSE
  /\ peer' = {} /\ inbox' = <<>> /\ gone' = FALSE
  /\ UNCHANGED <<auto, nextslot, queue_len, pending, work, wrong>>

ic_disconnect == conn # "off" /\ busy = "no" /\ Disconnected(FALSE)

\* The handshake fails, or there was no activity for too long.
LinkFails == conn # "off" /\ busy = "no" /\ Disconnected(TRUE)

ic_reconnect ==
  /\ reconn /\ conn = "off" /\ id < MaxConn
  /\ \/ conn' = "handshake" /\ reconn' = FALSE
     \/ UNCHANGED <<conn, reconn>>               \* ic_connect fails: again later
  /\ UNCHANGED <<closing, auto, id, busy, msg, queries, nextslot, msg_list,
                 iov_list, queue_len, pending, env, work, out, wrong>>

-----------------------------------------------------------------------------
\* ic_event: messages are read one by one, then the queue is written.
EventStarts ==
  /\ conn = "on" /\ busy = "no"
  /\ inbox # <<>> \/ gone \/ out
  /\ busy' = "event"
  /\ UNCHANGED <<conn, closing, reconn, auto, id, msg, queries, nextslot, msg_list,
                 iov_list, queue_len, pending, env, work, out, wrong>>

\* The peer answers what it was asked, so the slot holds a query: the error for one
\* that does not, which closes the connection, is not reached (AnswerMatches).
ic_read_process_answer ==
  /\ busy # "no" /\ inbox # <<>> /\ Head(inbox).kind = "answer"
  /\ LET s == Head(inbox).slot
         m == queries[s]
     IN /\ wrong' = (wrong \/ m # Head(inbox).of)
        /\ msg' = IF m = NONE THEN msg ELSE [msg EXCEPT ![m] = Deleted(Called(msg[m]))]
        /\ queries' = [queries EXCEPT ![s] = NONE]
        /\ queue_len' = queue_len - Counted({m} \ {NONE})
  /\ inbox' = Tail(inbox) /\ busy' = "read"
  /\ UNCHANGED <<channel, nextslot, msg_list, iov_list, pending, peer, gone, out, work>>

\* A query of the peer: refused (IC_MSG_RETRY) when closing.
ic_read_process_query ==
  /\ busy # "no" /\ inbox # <<>> /\ Head(inbox).kind = "query"
  /\ IF closing
     THEN /\ ic_queue(Control("reply"))
          /\ UNCHANGED <<pending, work>>
     ELSE /\ pending' = pending + 1
          /\ work' = work \cup {<<id, Head(inbox).of>>}
          /\ UNCHANGED <<msg_list, out>>
  /\ inbox' = Tail(inbox) /\ busy' = "read"
  /\ UNCHANGED <<channel, msg, queries, nextslot, iov_list, queue_len, peer, gone, wrong>>

ReadBye ==
  /\ busy # "no" /\ inbox # <<>> /\ Head(inbox).kind = "bye"
  /\ closing' = TRUE /\ inbox' = Tail(inbox) /\ busy' = "read"
  /\ UNCHANGED <<conn, reconn, auto, id, msg, queries, nextslot, msg_list,
                 iov_list, queue_len, pending, peer, gone, work, out, wrong>>

EventFails == busy # "no" /\ gone /\ Disconnected(TRUE)

\* The sequence of what s has at the indexes K (the one element of this set): g
\* gives these indexes in their order.
Kept(s, K) ==
  {[i \in DOMAIN f |-> s[f[i]]] :
     f \in {g \in UNION {[1..n -> K] : n \in 0..Len(s)} :
              /\ \A i, j \in DOMAIN g : i < j => g[i] < g[j]
              /\ K = {g[i] : i \in DOMAIN g}}}

\* ic_msg_filter_on_bye: the queries not sent yet are aborted.
FilteredOut == {msg_list[i].of : i \in DOMAIN msg_list} \ {NONE}

ic_msg_filter_on_bye ==
  /\ busy # "no" /\ closing /\ FilteredOut # {}
  /\ msg_list' \in Kept(msg_list, {i \in DOMAIN msg_list : msg_list[i].kind # "query"})
  /\ msg' = [m \in Msgs |->
       IF m \notin FilteredOut THEN msg[m]
       ELSE IF msg[m].slot # 0 THEN Deleted(Called(msg[m])) ELSE Deleted(msg[m])]
  /\ queries' = Without(FilteredOut)
  /\ queue_len' = queue_len - Counted(FilteredOut)
  /\ UNCHANGED <<link, nextslot, iov_list, pending, env, work, out, wrong>>

\* The end of a round of ic_write: the canceled queries dead are deleted, left is
\* what stays in msg_list, and k messages of the vector vec are sent.
WriteVec(ends, dead, left, vec, k) ==
  LET iov == SubSeq(vec, k + 1, Len(vec))
      asked == {vec[i].of : i \in 1..k} \ {NONE}
      over == {m \in asked : msg[m].slot = 0}
      quit == ends /\ closing /\ left = <<>> /\ iov = <<>> /\ queue_len = 0 /\ pending = 0
  IN IF quit THEN Disconnected(TRUE)
     ELSE /\ msg_list' = left /\ iov_list' = iov
          /\ queries' = Without(dead)
          /\ msg' = DeletedIn(dead \cup over)
          /\ peer' = peer \cup {<<msg[m].slot, m>> : m \in asked \ over}
          /\ busy' = IF ends THEN "no" ELSE "event"
          /\ out' = (out /\ (left # <<>> \/ iov # <<>>))
          /\ UNCHANGED <<channel, nextslot, queue_len, pending, inbox, gone, work, wrong>>

\* ic_write: n messages leave msg_list for the vector (those that are canceled are
\* deleted instead).  ic_read calls it after each message; ic_event calls it at its
\* end, and closes what has no more to do.
IsDead(x) == x.kind = "query" /\ msg[x.of].canceled
Written(ends) ==
  \E n \in 0..Len(msg_list) :
    \E taken \in Kept(msg_list, {i \in 1..n : ~IsDead(msg_list[i])}) :
      \E k \in 0..(Len(iov_list) + Len(taken)) :
        WriteVec(ends, {msg_list[i].of : i \in {i \in 1..n : IsDead(msg_list[i])}},
                 SubSeq(msg_list, n + 1, Len(msg_list)), iov_list \o taken, k)

WriteInRead == busy = "read" /\ Written(FALSE)
ic_write == busy # "no" /\ ~(closing /\ FilteredOut # {}) /\ Written(TRUE)

-----------------------------------------------------------------------------
\* The peer answers, asks, says goodbye and closes.
Sends(x) == inbox' = Append(inbox, x)
Connected == conn = "on" /\ ~gone

PeerAnswers(p) ==
  /\ Connected /\ p \in peer
  /\ peer' = peer \ {p}
  /\ Sends([kind |-> "answer", slot |-> p[1], of |-> p[2]])
  /\ UNCHANGED <<link, msg, queries, nextslot, msg_list, iov_list, queue_len,
                 pending, gone, work, out, wrong>>

PeerAsks(r) ==
  /\ Connected /\ inbox = <<>> /\ \A w \in work : w[2] # r
  /\ Len(msg_list) + Len(iov_list) < MaxQueue
  /\ Sends([kind |-> "query", slot |-> 0, of |-> r])
  /\ UNCHANGED <<link, msg, queries, nextslot, msg_list, iov_list, queue_len,
                 pending, peer, gone, work, out, wrong>>

PeerBye ==
  /\ Connected /\ ~closing /\ inbox = <<>>
  /\ Sends([kind |-> "bye", slot |-> 0, of |-> NONE])
  /\ UNCHANGED <<link, msg, queries, nextslot, msg_list, iov_list, queue_len,
                 pending, peer, gone, work, out, wrong>>

PeerCloses ==
  /\ Connected /\ gone' = TRUE
  /\ UNCHANGED <<link, msg, queries, nextslot, msg_list, iov_list, queue_len,
                 pending, peer, inbox, work, out, wrong>>

\* What ic_read does next.
ic_read == ic_read_process_answer \/ ic_read_process_query \/ ReadBye \/ EventFails

Next ==
  \/ \E m \in Msgs : \/ \E k \in Kinds : __ic_query(m, k)
                     \/ ic_msg_cancel(m) \/ ic_msg_on_timeout(m)
  \/ \E w \in work : __ic_reply(w)
  \/ ic_bye \/ ic_connect \/ ic_mark_connected \/ ic_disconnect \/ LinkFails
  \/ ic_reconnect \/ EventStarts \/ ic_read \/ WriteInRead \/ ic_msg_filter_on_bye
  \/ ic_write
  \/ \E p \in peer : PeerAnswers(p)
  \/ \E r \in Remote : PeerAsks(r)
  \/ PeerBye \/ PeerCloses

\* Timers fire, the event loop serves the socket, which takes in the end what is
\* written, the peer answers and so does the program.
Fairness ==
  /\ \A m \in Msgs : WF_vars(ic_msg_on_timeout(m))
  /\ WF_vars(EventStarts)
  /\ SF_vars(ic_read)
  /\ WF_vars(ic_msg_filter_on_bye)
  /\ SF_vars(ic_write /\ msg_list' = <<>> /\ iov_list' = <<>>)
  /\ WF_vars(\E p \in peer : PeerAnswers(p))
  /\ WF_vars(\E w \in work : __ic_reply(w))

Spec == Init /\ [][Next]_vars /\ Fairness

-----------------------------------------------------------------------------
\* The slot of an answer leads to the query it answers, whatever was canceled,
\* timed out or aborted since and whichever slots were reused.
AnswerMatches == ~wrong

\* The callback of a query is called exactly once, whatever ends the query:
\* answer, cancellation, timeout, BYE, disconnection, or no slot left.
CalledOnce ==
  \A m \in Msgs :
    LET x == msg[m]
    IN /\ x.cbs <= 1
       /\ (x.state = "freed" /\ ~x.kind.async) => x.cbs = 1

\* queue_len is the "length of the queue of queries, without accounting canceled
\* queries" (rpc-channel.h).
QueueLen == queue_len = Cardinality({m \in Queries : ~msg[m].canceled})

\* A channel that said or heard BYE closes once what was asked is answered, as
\* long as its counters are exact ("the disconnection will be performed
\* asynchronously"): nothing is left that no event of the socket would move.
ByeCloses ==
  (closing /\ conn = "on")
    ~> (conn = "off" \/ ~QueueLen
        \/ pending # Cardinality({w \in work : w[1] = id}))
=============================================================================
