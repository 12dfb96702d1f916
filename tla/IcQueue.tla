------------------------------- MODULE IcQueue -------------------------------
(***************************************************************************)
(* The queue of messages of an ichannel (iop/rpc-channel.blk): msg_list is *)
(* kept by priority with last_normal_prio_msg, a pointer into the list, as *)
(* the shortcut to insert messages of normal priority.                     *)
(***************************************************************************)
EXTENDS Integers, Sequences

CONSTANTS Ids,       \* the messages that may be queued at a time
          NONE

\* NONE is not a message.
QueueConstants == NONE \notin Ids

VARIABLES msg_list,              \* seq of [id, prio, query]
          last_normal_prio_msg,  \* an id, or NONE
          is_closing             \* ic_msg_filter_on_bye has run

vars == <<msg_list, last_normal_prio_msg, is_closing>>

LOW == 0
NORMAL == 1
HIGH == 2

Init == msg_list = <<>> /\ last_normal_prio_msg = NONE /\ is_closing = FALSE

IdsOf(s) == {s[i].id : i \in DOMAIN s}

\* ic_queue adds a message of that priority after the first k ones: the tail, the
\* head, after the shortcut, or after the messages of high priority at the head.
Place(prio, k) ==
  LET n == Len(msg_list)
  IN IF n = 0 \/ prio <= msg_list[n].prio THEN k = n
     ELSE IF prio > msg_list[1].prio THEN k = 0
     ELSE IF prio = NORMAL /\ last_normal_prio_msg # NONE
          THEN k # 0 /\ msg_list[k].id = last_normal_prio_msg
     ELSE /\ \A i \in 1..k : msg_list[i].prio = HIGH
          /\ k < n => msg_list[k + 1].prio # HIGH

\* htlist_add_after, with k messages before the new one.
Added(k, m) ==
  [i \in 1..(Len(msg_list) + 1) |->
     IF i <= k THEN msg_list[i] ELSE IF i = k + 1 THEN m ELSE msg_list[i - 1]]

\* Nothing is checked: a query is taken on a channel that closes, too.
ic_queue(x, prio, query) ==
  /\ x \notin IdsOf(msg_list)
  /\ \E k \in 0..Len(msg_list) :
       /\ Place(prio, k)
       /\ msg_list' = Added(k, [id |-> x, prio |-> prio, query |-> query])
  /\ last_normal_prio_msg' = IF prio = NORMAL THEN x ELSE last_normal_prio_msg
  /\ UNCHANGED is_closing

\* Mutant of ic_pop_msg: the shortcut outlives the message.
ic_pop_msg_mut ==
  /\ msg_list # <<>>
  /\ msg_list' = Tail(msg_list)
  /\ UNCHANGED <<last_normal_prio_msg, is_closing>>

ic_pop_msg ==
  /\ msg_list # <<>>
  /\ msg_list' = Tail(msg_list)
  /\ last_normal_prio_msg' = IF Head(msg_list).id = last_normal_prio_msg THEN NONE
                             ELSE last_normal_prio_msg
  /\ UNCHANGED is_closing

\* ic_write pops a message that carries one file descriptor too many, and puts it
\* back at the head of the list.
PopAndPutBack ==
  /\ msg_list # <<>>
  /\ last_normal_prio_msg' = IF Head(msg_list).id = last_normal_prio_msg THEN NONE
                             ELSE last_normal_prio_msg
  /\ UNCHANGED <<msg_list, is_closing>>

\* The queries leave the list; the others are put in it again (ic_add_msg_tail),
\* and the shortcut becomes the head of the list as soon as one of them is normal.
ic_msg_filter_on_bye ==
  LET keep == {i \in DOMAIN msg_list : ~msg_list[i].query}
  IN /\ msg_list # <<>>
     /\ \E n \in 0..Len(msg_list) : \E f \in [1..n -> keep] :
          /\ \A i, j \in 1..n : i < j => f[i] < f[j]
          /\ \A k \in keep : \E i \in 1..n : f[i] = k
          /\ msg_list' = [i \in 1..n |-> msg_list[f[i]]]
     /\ last_normal_prio_msg' = IF \E i \in keep : msg_list[i].prio = NORMAL
                                THEN msg_list'[1].id ELSE NONE
     /\ is_closing' = TRUE

\* ic_disconnect: everything queued is deleted.
ic_cancel_all ==
  /\ msg_list' = <<>> /\ last_normal_prio_msg' = NONE /\ is_closing' = FALSE

Next ==
  \/ \E x \in Ids, prio \in LOW..HIGH, query \in BOOLEAN : ic_queue(x, prio, query)
  \/ ic_pop_msg \/ PopAndPutBack \/ ic_msg_filter_on_bye \/ ic_cancel_all

Spec == Init /\ [][Next]_vars

-----------------------------------------------------------------------------
\* "Messages with a high priority level will be at the head, just after the other
\* messages having the same priority level" (rpc-channel.h): messages leave by
\* decreasing priority.
ByPriority == \A i \in 2..Len(msg_list) : msg_list[i].prio <= msg_list[i - 1].prio

\* The shortcut that ic_queue dereferences never outlives its message, which may
\* be freed once popped; and messages leave by decreasing priority until the
\* channel closes.
QueueSound ==
  /\ last_normal_prio_msg \in IdsOf(msg_list) \cup {NONE}
  /\ ~is_closing => ByPriority
=============================================================================
