------------------------------ MODULE IcProofs ------------------------------
(***************************************************************************)
(* Proofs about the queries of an rpc channel (Ic), for any set of         *)
(* queries, number of slots, connections and bound on the queue: an answer *)
(* reaches the query it is for, and each callback runs once.               *)
(***************************************************************************)
EXTENDS Ic, TLAPS

\* What is known of one query: its callback has run if it is canceled or over, and
\* only if it waited for an answer; only such a query has a slot.
MsgRec == [state : {"new", "live", "freed"}, kind : Kinds \cup {NONE}, slot : Nat,
           canceled : BOOLEAN, timer : BOOLEAN, cbs : Nat]

Settled(x) ==
  /\ x.state = "new" => x.cbs = 0
  /\ x.state # "new" => x.kind \in Kinds
  /\ x.state = "live" /\ x.kind.async => x.slot = 0 /\ x.cbs = 0
  /\ x.state = "live" /\ ~x.kind.async =>
       x.slot # 0 /\ x.cbs = IF x.canceled THEN 1 ELSE 0
  /\ x.state = "freed" => x.cbs = IF x.kind.async THEN 0 ELSE 1

MsgInv == \A m \in Msgs : Settled(msg[m])

\* ic->queries and the slots of the live queries say the same.
SlotInv ==
  /\ \A s \in Slots : queries[s] # NONE =>
       queries[s] \in Msgs /\ msg[queries[s]].state = "live" /\ msg[queries[s]].slot = s
  /\ \A m \in Msgs : msg[m].state = "live" /\ msg[m].slot # 0 =>
       msg[m].slot \in Slots /\ queries[msg[m].slot] = m

\* The queries of a list of messages, each of them there once.
Items == {x \in [kind : {"query", "reply", "nop", "bye"}, of : Msgs \cup {NONE}] :
            x.kind = "query" <=> x.of # NONE}
QueriesOf(s) == {s[i].of : i \in DOMAIN s} \ {NONE}
Once(s) ==
  \A i, j \in DOMAIN s : s[i].of = s[j].of /\ s[i].of # NONE => i = j

\* What is queued, or left in the vector, is live and in one place.
ListInv ==
  /\ Once(msg_list) /\ Once(iov_list)
  /\ QueriesOf(msg_list) \cap QueriesOf(iov_list) = {}
  /\ \A m \in QueriesOf(msg_list) \cup QueriesOf(iov_list) : msg[m].state = "live"

\* A query at the peer, or answered, has its slot still, and was queued only once.
Waits(s, m) ==
  /\ s \in Slots /\ m \in Msgs /\ queries[s] = m
  /\ m \notin QueriesOf(msg_list) /\ m \notin QueriesOf(iov_list)
AnswersIn(b) == {i \in DOMAIN b : b[i].kind = "answer"}
PeerInv ==
  /\ \A p \in peer : Waits(p[1], p[2])
  /\ \A i \in AnswersIn(inbox) :
       Waits(inbox[i].slot, inbox[i].of) /\ <<inbox[i].slot, inbox[i].of>> \notin peer
  /\ \A i, j \in AnswersIn(inbox) : inbox[i].of = inbox[j].of => i = j

Sent == [kind : {"answer", "query", "bye"}, slot : Nat, of : Msgs \cup Remote \cup {NONE}]
IcTypeOK ==
  /\ msg \in [Msgs -> MsgRec]
  /\ queries \in [Slots -> Msgs \cup {NONE}]
  /\ nextslot \in 0..MaxSlot
  /\ msg_list \in Seq(Items) /\ iov_list \in Seq(Items)
  /\ inbox \in Seq(Sent)
  /\ peer \in SUBSET (Slots \X Msgs)

IcInv == IcTypeOK /\ MsgInv /\ SlotInv /\ ListInv /\ PeerInv /\ ~wrong

-----------------------------------------------------------------------------
\* What Called, Canceled, Untimed and Deleted (the callback of a query, its flag
\* canceled, el_unregister of its timer and ic_msg_delete) change in a query.
LEMMA Fields ==
  ASSUME NEW x \in MsgRec
  PROVE  /\ Canceled(x) \in MsgRec /\ Untimed(x) \in MsgRec /\ Deleted(x) \in MsgRec
         /\ \A y \in {Canceled(x), Untimed(x), Deleted(x)} :
              y.kind = x.kind /\ y.slot = x.slot /\ y.cbs = x.cbs
         /\ Canceled(x).state = x.state /\ Canceled(x).canceled = TRUE
         /\ Untimed(x).state = x.state /\ Untimed(x).canceled = x.canceled
         /\ Deleted(x).state = "freed"
  <1>1. /\ Canceled(x) \in MsgRec /\ Canceled(x).kind = x.kind
        /\ Canceled(x).slot = x.slot /\ Canceled(x).cbs = x.cbs
        /\ Canceled(x).state = x.state /\ Canceled(x).canceled = TRUE
    BY DEF Canceled, MsgRec
  <1> DEFINE u == Untimed(x)
  <1>2. /\ u \in MsgRec /\ u.kind = x.kind /\ u.slot = x.slot /\ u.cbs = x.cbs
        /\ u.state = x.state /\ u.canceled = x.canceled
    BY DEF Untimed, MsgRec
  <1> HIDE DEF u
  <1>3. LET d == [u EXCEPT !.state = "freed"]
        IN /\ d \in MsgRec /\ d.kind = u.kind /\ d.slot = u.slot /\ d.cbs = u.cbs
           /\ d.state = "freed"
    BY <1>2 DEF MsgRec
  <1>4. Deleted(x) = [u EXCEPT !.state = "freed"]
    BY DEF Deleted, u
  <1>5. QED
    BY <1>1, <1>2, <1>3, <1>4 DEF u

\* The callback runs once in the life of a query that waits for an answer.
LEMMA CalledOn ==
  ASSUME IcConstants, NEW x \in MsgRec, Settled(x), x.state = "live"
  PROVE  /\ Called(x) \in MsgRec
         /\ Called(x).kind = x.kind /\ Called(x).slot = x.slot
         /\ Called(x).state = "live" /\ Called(x).canceled = x.canceled
         /\ Called(x).cbs = IF x.kind.async THEN 0 ELSE 1
  <1>1. x = [state |-> x.state, kind |-> x.kind, slot |-> x.slot,
             canceled |-> x.canceled, timer |-> x.timer, cbs |-> x.cbs]
    BY DEF MsgRec
  <1>2. x.kind \in Kinds /\ x.kind.async \in BOOLEAN /\ x.canceled \in BOOLEAN
    BY DEF Settled, MsgRec, IcConstants
  <1>3. x.cbs = IF x.kind.async THEN 0 ELSE IF x.canceled THEN 1 ELSE 0
    BY <1>2 DEF Settled
  <1>4. CASE x.canceled \/ x.kind.async
    BY <1>2, <1>3, <1>4 DEF Called
  <1>5. CASE ~(x.canceled \/ x.kind.async)
    <2>1. x.cbs = 0
      BY <1>3, <1>5
    <2>2. Called(x) = [state |-> x.state, kind |-> x.kind, slot |-> x.slot,
                       canceled |-> x.canceled, timer |-> x.timer, cbs |-> 1]
      BY <1>1, <1>5, <2>1 DEF Called
    <2>3. QED
      BY <1>2, <1>5, <2>2 DEF MsgRec
  <1>6. QED
    BY <1>4, <1>5

\* A query is deleted after its callback, or because it has none to run: it is
\* canceled, or async.
LEMMA DeletedOK ==
  ASSUME IcConstants, NEW x \in MsgRec, Settled(x), x.state = "live"
  PROVE  /\ Deleted(Called(x)) \in MsgRec /\ Settled(Deleted(Called(x)))
         /\ Deleted(Called(x)).state = "freed"
         /\ (x.canceled \/ x.slot = 0) =>
              /\ Deleted(x) \in MsgRec /\ Settled(Deleted(x)) /\ Deleted(x).state = "freed"
  <1>1. x.kind \in Kinds /\ x.kind.async \in BOOLEAN /\ x.canceled \in BOOLEAN
    BY DEF Settled, MsgRec, IcConstants
  <1>2. Deleted(Called(x)) \in MsgRec /\ Settled(Deleted(Called(x)))
        /\ Deleted(Called(x)).state = "freed"
    <2> DEFINE c == Called(x)
               d == Deleted(c)
    <2>1. /\ c \in MsgRec /\ c.kind = x.kind
          /\ c.cbs = IF x.kind.async THEN 0 ELSE 1
      BY CalledOn
    <2> HIDE DEF c
    <2>2. d \in MsgRec /\ d.kind = c.kind /\ d.cbs = c.cbs /\ d.state = "freed"
      BY <2>1, Fields
    <2> HIDE DEF d
    <2>3. Settled(d)
      BY <1>1, <2>1, <2>2 DEF Settled
    <2>4. QED
      BY <2>2, <2>3 DEF d, c
  <1>3. ASSUME x.canceled \/ x.slot = 0
        PROVE  Deleted(x) \in MsgRec /\ Settled(Deleted(x)) /\ Deleted(x).state = "freed"
    <2> DEFINE d == Deleted(x)
    <2>1. x.cbs = IF x.kind.async THEN 0 ELSE 1
      BY <1>1, <1>3 DEF Settled
    <2>2. d \in MsgRec /\ d.kind = x.kind /\ d.cbs = x.cbs /\ d.state = "freed"
      BY Fields
    <2> HIDE DEF d
    <2>3. Settled(d)
      BY <1>1, <2>1, <2>2 DEF Settled
    <2>4. QED
      BY <2>2, <2>3 DEF d
  <1>4. QED
    BY <1>2, <1>3

\* A query that is canceled or times out stays, with its slot, until its answer
\* or the end of its channel.
LEMMA CanceledOK ==
  ASSUME IcConstants, NEW x \in MsgRec, Settled(x), x.state = "live",
         NEW y, y = Canceled(Called(x)) \/ y = Untimed(Canceled(Called(x)))
  PROVE  /\ y \in MsgRec /\ Settled(y)
         /\ y.state = "live" /\ y.slot = x.slot /\ y.kind = x.kind /\ y.canceled = TRUE
  <1>1. x.kind \in Kinds /\ x.kind.async \in BOOLEAN /\ x.canceled \in BOOLEAN
    BY DEF Settled, MsgRec, IcConstants
  <1> DEFINE c == Called(x)
             d == Canceled(c)
             e == Untimed(d)
  <1>2. /\ c \in MsgRec /\ c.kind = x.kind /\ c.slot = x.slot /\ c.state = "live"
        /\ c.cbs = IF x.kind.async THEN 0 ELSE 1
    BY CalledOn
  <1> HIDE DEF c
  <1>3. /\ d \in MsgRec /\ d.kind = x.kind /\ d.slot = x.slot /\ d.state = "live"
        /\ d.cbs = (IF x.kind.async THEN 0 ELSE 1) /\ d.canceled = TRUE
    BY <1>2, Fields
  <1> HIDE DEF d
  <1>4. /\ e \in MsgRec /\ e.kind = x.kind /\ e.slot = x.slot /\ e.state = "live"
        /\ e.cbs = (IF x.kind.async THEN 0 ELSE 1) /\ e.canceled = TRUE
    BY <1>3, Fields
  <1> HIDE DEF e
  <1>5. y = d \/ y = e
    BY DEF c, d, e
  <1>6. x.kind.async => x.slot = 0
    BY DEF Settled
  <1>7. ~x.kind.async => x.slot # 0
    BY DEF Settled
  <1>8. QED
    BY <1>1, <1>3, <1>4, <1>5, <1>6, <1>7 DEF Settled

-----------------------------------------------------------------------------
\* The query of a message of a list, if it is one.
LEMMA ItemOf ==
  ASSUME NEW s \in Seq(Items), NEW i \in DOMAIN s
  PROVE  /\ s[i] \in Items /\ s[i].of \in Msgs \cup {NONE}
         /\ s[i].kind = "query" <=> s[i].of # NONE
         /\ s[i].of # NONE => s[i].of \in QueriesOf(s)
  <1>1. s[i] \in Items
    OBVIOUS
  <1>2. QED
    BY <1>1 DEF Items, QueriesOf

\* ic_queue adds a message at an end of the list.
LEMMA Appended ==
  ASSUME NEW s \in Seq(Items), Once(s), NEW x \in Items, x.of \notin QueriesOf(s)
  PROVE  /\ Append(s, x) \in Seq(Items) /\ Once(Append(s, x))
         /\ QueriesOf(Append(s, x)) = QueriesOf(s) \cup ({x.of} \ {NONE})
  <1> DEFINE n == Len(s)
             t == Append(s, x)
  <1>1. n \in Nat /\ DOMAIN s = 1..n
    OBVIOUS
  <1>2. t \in Seq(Items) /\ DOMAIN t = 1..(n + 1) /\ t[n + 1] = x
        /\ \A i \in 1..n : t[i] = s[i]
    OBVIOUS
  <1> HIDE DEF n, t
  <1>3. \A i \in 1..(n + 1) : i \in 1..n \/ i = n + 1
    BY <1>1
  <1>4. n + 1 \notin 1..n /\ n + 1 \in 1..(n + 1) /\ \A i \in 1..n : i \in 1..(n + 1)
    BY <1>1
  <1>5. \A i \in 1..n : s[i].of = x.of => x.of = NONE
    BY <1>1 DEF QueriesOf
  <1>6. Once(t)
    <2>1. SUFFICES ASSUME NEW i \in 1..(n + 1), NEW j \in 1..(n + 1),
                          t[i].of = t[j].of, t[i].of # NONE
                   PROVE  i = j
      BY <1>2 DEF Once
    <2>2. QED
      BY <1>1, <1>2, <1>3, <1>5, <2>1 DEF Once
  <1>7. ASSUME NEW m PROVE m \in QueriesOf(t) <=> m \in QueriesOf(s) \cup ({x.of} \ {NONE})
    <2>1. m \in QueriesOf(t) <=> m # NONE /\ \E i \in 1..(n + 1) : t[i].of = m
      BY <1>2 DEF QueriesOf
    <2>2. m \in QueriesOf(s) <=> m # NONE /\ \E i \in 1..n : s[i].of = m
      BY <1>1 DEF QueriesOf
    <2>3. (\E i \in 1..(n + 1) : t[i].of = m) <=> (x.of = m \/ \E i \in 1..n : s[i].of = m)
      BY <1>2, <1>3, <1>4
    <2>4. QED
      BY <2>1, <2>2, <2>3
  <1>8. QED
    BY <1>2, <1>6, <1>7 DEF t

\* What is popped off a list leaves it.
LEMMA Suffix ==
  ASSUME NEW s \in Seq(Items), Once(s), NEW n \in 0..Len(s)
  PROVE  LET t == SubSeq(s, n + 1, Len(s))
         IN /\ t \in Seq(Items) /\ Once(t) /\ QueriesOf(t) \subseteq QueriesOf(s)
            /\ \A i \in 1..n : s[i].of \notin QueriesOf(t)
  <1> DEFINE l == Len(s)
             t == SubSeq(s, n + 1, l)
  <1>1. l \in Nat /\ n \in 0..l /\ DOMAIN s = 1..l /\ \A i \in 1..l : s[i] \in Items
    OBVIOUS
  <1> HIDE DEF l
  <1>2. t \in Seq(Items)
    BY <1>1
  <1>3. Len(t) = l - n /\ \A i \in 1..(l - n) : t[i] = s[n + i]
    <2>1. n + 1 \in 1..(l + 1) /\ l \in (n + 1) - 1..l
      BY <1>1
    <2>2. Len(t) = (IF n + 1 <= l THEN l - (n + 1) + 1 ELSE 0)
          /\ \A i \in 1..(l - (n + 1) + 1) : t[i] = s[(n + 1) + i - 1]
      BY <1>1, <2>1
    <2> HIDE DEF t
    <2>3. l - (n + 1) + 1 = l - n /\ (~(n + 1 <= l) => l - n = 0)
      BY <1>1
    <2>4. \A i \in 1..(l - n) : (n + 1) + i - 1 = n + i
      BY <1>1
    <2>5. QED
      BY <2>2, <2>3, <2>4
  <1> HIDE DEF t
  <1>4. DOMAIN t = 1..(l - n)
    BY <1>2, <1>3
  <1>5. \A i \in 1..(l - n) : n + i \in 1..l /\ n + i \notin 1..n
    BY <1>1
  <1>6. \A i, j \in 1..(l - n) : n + i = n + j => i = j
    BY <1>1
  <1>7. Once(t)
    <2>1. SUFFICES ASSUME NEW i \in 1..(l - n), NEW j \in 1..(l - n),
                          t[i].of = t[j].of, t[i].of # NONE
                   PROVE  i = j
      BY <1>4 DEF Once
    <2>2. n + i \in DOMAIN s /\ n + j \in DOMAIN s
      BY <1>1, <1>5
    <2>3. s[n + i].of = s[n + j].of /\ s[n + i].of # NONE
      BY <1>3, <2>1
    <2>4. n + i = n + j
      BY <2>2, <2>3 DEF Once
    <2>5. QED
      BY <1>6, <2>4
  <1>8. \A m \in QueriesOf(t) : m # NONE /\ \E i \in 1..(l - n) : s[n + i].of = m
    BY <1>3, <1>4 DEF QueriesOf
  <1>9. QueriesOf(t) \subseteq QueriesOf(s)
    BY <1>1, <1>5, <1>8 DEF QueriesOf
  <1>10. ASSUME NEW i \in 1..n, s[i].of \in QueriesOf(t) PROVE FALSE
    <2>1. s[i].of # NONE
      BY <1>8, <1>10
    <2>2. PICK j \in 1..(l - n) : s[n + j].of = s[i].of
      BY <1>8, <1>10
    <2>3. i \in 1..l
      BY <1>1
    <2>4. n + j \in 1..l /\ n + j \notin 1..n
      BY <1>5
    <2>5. i = n + j
      BY <1>1, <2>1, <2>2, <2>3, <2>4 DEF Once
    <2>6. QED
      BY <2>4, <2>5
  <1>11. QED
    BY <1>2, <1>7, <1>9, <1>10 DEF t, l

\* A part of a list, in its order.
LEMMA KeptOK ==
  ASSUME NEW s \in Seq(Items), Once(s), NEW K, K \subseteq DOMAIN s, NEW t \in Kept(s, K)
  PROVE  /\ t \in Seq(Items) /\ Once(t)
         /\ \A m \in QueriesOf(t) : m # NONE /\ \E k \in K : s[k].of = m
  <1>0. PICK n \in 0..Len(s) : \E f \in [1..n -> K] :
          /\ \A i, j \in DOMAIN f : i < j => f[i] < f[j]
          /\ t = [i \in DOMAIN f |-> s[f[i]]]
    BY DEF Kept
  <1>1. PICK f \in [1..n -> K] :
          /\ \A i, j \in DOMAIN f : i < j => f[i] < f[j]
          /\ t = [i \in DOMAIN f |-> s[f[i]]]
    BY <1>0
  <1>2. n \in Nat
    OBVIOUS
  <1>3. DOMAIN f = 1..n /\ \A i \in 1..n : f[i] \in K
    BY <1>1
  <1>4. \A i \in 1..n : t[i] = s[f[i]]
    BY <1>1, <1>3
  <1>5. DOMAIN t = 1..n
    BY <1>1, <1>3
  <1>6. \A i \in 1..n : t[i] \in Items
    BY <1>3, <1>4
  <1>7. t \in Seq(Items)
    <2>1. t = [i \in 1..n |-> t[i]]
      BY <1>1, <1>3
    <2>2. QED
      BY <1>2, <1>6, <2>1
  <1>8. ASSUME NEW i \in 1..n, NEW j \in 1..n, f[i] = f[j] PROVE i = j
    <2>1. f[i] \in Int
      BY <1>3
    <2>2. ~(i < j) /\ ~(j < i)
      BY <1>1, <1>3, <1>8, <2>1
    <2>3. QED
      BY <1>2, <2>2
  <1>9. Once(t)
    BY <1>3, <1>4, <1>5, <1>8 DEF Once
  <1>10. QED
    BY <1>3, <1>4, <1>5, <1>7, <1>9 DEF QueriesOf

\* The vector grows by what is taken off msg_list.
LEMMA Joined ==
  ASSUME NEW a \in Seq(Items), NEW b \in Seq(Items), Once(a), Once(b),
         QueriesOf(a) \cap QueriesOf(b) = {}
  PROVE  /\ a \o b \in Seq(Items) /\ Once(a \o b)
         /\ QueriesOf(a \o b) \subseteq QueriesOf(a) \cup QueriesOf(b)
         /\ Len(a \o b) = Len(a) + Len(b)
  <1> DEFINE n == Len(a)
             l == Len(b)
             t == a \o b
  <1>1. n \in Nat /\ DOMAIN a = 1..n /\ l \in Nat /\ DOMAIN b = 1..l
    OBVIOUS
  <1>2. /\ t \in Seq(Items) /\ Len(t) = n + l
        /\ \A i \in 1..(n + l) : t[i] = IF i <= n THEN a[i] ELSE b[i - n]
    OBVIOUS
  <1> HIDE DEF t, n, l
  <1>3. DOMAIN t = 1..(n + l)
    BY <1>2
  <1>4. \A i \in 1..(n + l) : i <= n => i \in 1..n
    BY <1>1
  <1>5. \A i \in 1..(n + l) : ~(i <= n) => i - n \in 1..l
    BY <1>1
  <1>6. \A i, j \in 1..(n + l) : i - n = j - n => i = j
    BY <1>1
  <1>7. ASSUME NEW i \in 1..(n + l), t[i].of # NONE
        PROVE  IF i <= n THEN t[i].of \in QueriesOf(a) ELSE t[i].of \in QueriesOf(b)
    <2>1. CASE i <= n
      BY <1>1, <1>2, <1>4, <1>7, <2>1 DEF QueriesOf
    <2>2. CASE ~(i <= n)
      BY <1>1, <1>2, <1>5, <1>7, <2>2 DEF QueriesOf
    <2>3. QED
      BY <2>1, <2>2
  <1>8. ASSUME NEW i \in 1..(n + l), NEW j \in 1..(n + l), t[i].of = t[j].of, t[i].of # NONE
        PROVE  i = j
    <2>1. i <= n <=> j <= n
      BY <1>7, <1>8
    <2>2. CASE i <= n
      <3>1. i \in DOMAIN a /\ j \in DOMAIN a
        BY <1>1, <1>4, <2>1, <2>2
      <3>2. a[i].of = a[j].of /\ a[i].of # NONE
        BY <1>2, <1>8, <2>1, <2>2
      <3>3. QED
        BY <3>1, <3>2 DEF Once
    <2>3. CASE ~(i <= n)
      <3>1. i - n \in DOMAIN b /\ j - n \in DOMAIN b
        BY <1>1, <1>5, <2>1, <2>3
      <3>2. b[i - n].of = b[j - n].of /\ b[i - n].of # NONE
        BY <1>2, <1>8, <2>1, <2>3
      <3>3. i - n = j - n
        BY <3>1, <3>2 DEF Once
      <3>4. QED
        BY <1>6, <3>3
    <2>4. QED
      BY <2>2, <2>3
  <1>9. Once(t)
    BY <1>3, <1>8 DEF Once
  <1>10. \A m \in QueriesOf(t) : m \in QueriesOf(a) \cup QueriesOf(b)
    BY <1>3, <1>7 DEF QueriesOf
  <1>11. QED
    BY <1>2, <1>9, <1>10 DEF t, n, l

-----------------------------------------------------------------------------
\* The facts of IcInv that the steps use.
LEMMA Known ==
  ASSUME IcConstants, IcInv
  PROVE  /\ \A m \in Msgs : msg[m] \in MsgRec /\ Settled(msg[m]) /\ m # NONE
         /\ QueriesOf(msg_list) \subseteq Msgs /\ QueriesOf(iov_list) \subseteq Msgs
         /\ \A m \in Msgs : msg[m].state = "live" =>
              /\ msg[m].kind \in Kinds /\ msg[m].kind.async \in BOOLEAN
              /\ msg[m].canceled \in BOOLEAN
              /\ msg[m].slot = 0 <=> msg[m].kind.async
         /\ 0 \notin Slots
  <1>1. \A m \in Msgs : msg[m] \in MsgRec /\ Settled(msg[m]) /\ m # NONE
    BY DEF IcInv, IcTypeOK, MsgInv, IcConstants
  <1>2. msg_list \in Seq(Items) /\ iov_list \in Seq(Items)
    BY DEF IcInv, IcTypeOK
  <1>3. QueriesOf(msg_list) \subseteq Msgs /\ QueriesOf(iov_list) \subseteq Msgs
    BY <1>2, ItemOf DEF QueriesOf
  <1>4. ASSUME NEW m \in Msgs, msg[m].state = "live"
        PROVE  /\ msg[m].kind \in Kinds /\ msg[m].kind.async \in BOOLEAN
               /\ msg[m].canceled \in BOOLEAN
               /\ msg[m].slot = 0 <=> msg[m].kind.async
    <2> DEFINE x == msg[m]
    <2>1. x \in MsgRec /\ Settled(x) /\ x.state = "live"
      BY <1>1, <1>4
    <2> HIDE DEF x
    <2>2. x.kind \in Kinds /\ x.canceled \in BOOLEAN
      BY <2>1 DEF Settled, MsgRec
    <2>3. x.kind.async \in BOOLEAN
      BY <2>2 DEF IcConstants
    <2>4. x.slot = 0 <=> x.kind.async
      BY <2>1, <2>3 DEF Settled
    <2>5. QED
      BY <2>2, <2>3, <2>4 DEF x
  <1>5. 0 \notin Slots
    BY DEF Slots, IcConstants
  <1>6. QED
    BY <1>1, <1>3, <1>4, <1>5

\* A step deletes the queries D, which leave ic->queries, and keeps the slots of
\* the others.
Removes(D) ==
  /\ D \subseteq Msgs
  /\ msg' \in [Msgs -> MsgRec] /\ \A m \in Msgs : Settled(msg'[m])
  /\ \A m \in D : msg'[m].state = "freed"
  /\ \A m \in Msgs \ D : msg'[m].state = msg[m].state /\ msg'[m].slot = msg[m].slot
  /\ queries' \in [Slots -> Msgs \cup {NONE}]
  /\ \A s \in Slots : queries'[s] = IF queries[s] \in D THEN NONE ELSE queries[s]

\* The slots stay exact.
LEMMA SlotsKept ==
  ASSUME IcConstants, IcInv, NEW D, Removes(D)
  PROVE  MsgInv' /\ SlotInv'
  <1>1. MsgInv'
    BY DEF MsgInv, Removes
  <1>2. ASSUME NEW s \in Slots, queries'[s] # NONE
        PROVE  /\ queries'[s] \in Msgs /\ msg'[queries'[s]].state = "live"
               /\ msg'[queries'[s]].slot = s
    <2>1. queries'[s] = queries[s] /\ queries[s] \notin D
      BY <1>2 DEF Removes
    <2>2. /\ queries[s] \in Msgs /\ msg[queries[s]].state = "live"
          /\ msg[queries[s]].slot = s
      BY <1>2, <2>1 DEF IcInv, SlotInv
    <2>3. QED
      BY <2>1, <2>2 DEF Removes
  <1>3. ASSUME NEW m \in Msgs, msg'[m].state = "live", msg'[m].slot # 0
        PROVE  msg'[m].slot \in Slots /\ queries'[msg'[m].slot] = m
    <2>1. m \notin D
      BY <1>3 DEF Removes
    <2>2. msg[m].state = "live" /\ msg[m].slot # 0 /\ msg'[m].slot = msg[m].slot
      BY <1>3, <2>1 DEF Removes
    <2>3. msg[m].slot \in Slots /\ queries[msg[m].slot] = m
      BY <2>2 DEF IcInv, SlotInv
    <2>4. QED
      BY <2>1, <2>2, <2>3 DEF Removes
  <1>4. QED
    BY <1>1, <1>2, <1>3 DEF SlotInv

\* Queries that have not left the channel are deleted: those at the peer stay.
LEMMA RemovedNext ==
  ASSUME IcConstants, IcInv, NEW D, Removes(D),
         D \subseteq QueriesOf(msg_list) \cup QueriesOf(iov_list),
         msg_list' \in Seq(Items), Once(msg_list'), iov_list' = iov_list,
         QueriesOf(msg_list') \subseteq QueriesOf(msg_list),
         D \cap (QueriesOf(msg_list') \cup QueriesOf(iov_list)) = {},
         UNCHANGED <<nextslot, peer, inbox, wrong>>
  PROVE  IcInv'
  <1>1. MsgInv' /\ SlotInv'
    BY SlotsKept
  <1>2. IcTypeOK'
    BY DEF IcInv, IcTypeOK, Removes
  <1>3. ListInv'
    <2>1. /\ Once(iov_list') /\ QueriesOf(msg_list') \cap QueriesOf(iov_list') = {}
      BY DEF IcInv, ListInv
    <2>2. ASSUME NEW m \in QueriesOf(msg_list') \cup QueriesOf(iov_list')
          PROVE  msg'[m].state = "live"
      <3>1. m \in Msgs /\ m \notin D /\ msg[m].state = "live"
        BY Known DEF IcInv, ListInv
      <3>2. QED
        BY <3>1 DEF Removes
    <2>3. QED
      BY <2>1, <2>2 DEF ListInv
  <1>4. PeerInv'
    <2>1. ASSUME NEW s, NEW m, Waits(s, m) PROVE Waits(s, m)'
      <3>1. m \notin D /\ queries'[s] = m
        BY <2>1 DEF Waits, Removes
      <3>2. QED
        BY <2>1, <3>1 DEF Waits
    <2>2. QED
      BY <2>1 DEF PeerInv, IcInv
  <1>5. QED
    BY <1>1, <1>2, <1>3, <1>4 DEF IcInv

\* ic_msg_cancel leaves the query where it is.
LEMMA CancelNext ==
  ASSUME IcConstants, IcInv, NEW m \in Msgs, ic_msg_cancel(m)
  PROVE  IcInv'
  <1> DEFINE y == Canceled(Called(msg[m]))
  <1>1. msg[m] \in MsgRec /\ Settled(msg[m]) /\ msg[m].state = "live"
    BY Known DEF ic_msg_cancel
  <1>2. y \in MsgRec /\ Settled(y) /\ y.state = "live" /\ y.slot = msg[m].slot
    BY <1>1, CanceledOK
  <1>3. msg' = [msg EXCEPT ![m] = y]
    BY DEF ic_msg_cancel
  <1> HIDE DEF y
  <1>4. msg \in [Msgs -> MsgRec] /\ queries \in [Slots -> Msgs \cup {NONE}]
    BY DEF IcInv, IcTypeOK
  <1>5. Removes({})
    BY <1>1, <1>2, <1>3, <1>4, Known DEF Removes, ic_msg_cancel
  <1>6. msg_list \in Seq(Items) /\ Once(msg_list)
    BY DEF IcInv, IcTypeOK, ListInv
  <1>7. /\ msg_list' = msg_list /\ iov_list' = iov_list
        /\ UNCHANGED <<nextslot, peer, inbox, wrong>>
    BY DEF ic_msg_cancel, env
  <1>8. QED
    BY <1>5, <1>6, <1>7, RemovedNext

\* ic_msg_on_timeout deletes the canceled queries at the head of the queue.
LEMMA TimeoutNext ==
  ASSUME IcConstants, IcInv, NEW m \in Msgs, ic_msg_on_timeout(m)
  PROVE  IcInv'
  <1> DEFINE y == Untimed(Canceled(Called(msg[m])))
             new == [msg EXCEPT ![m] = y]
  <1>1. msg[m] \in MsgRec /\ Settled(msg[m]) /\ msg[m].state = "live"
    BY Known DEF ic_msg_on_timeout
  <1>2. /\ y \in MsgRec /\ Settled(y) /\ y.state = "live" /\ y.slot = msg[m].slot
        /\ y.canceled = TRUE
    BY <1>1, CanceledOK
  <1>3. msg_list \in Seq(Items) /\ Once(msg_list)
    BY DEF IcInv, IcTypeOK, ListInv
  <1>4. PICK c \in 0..Len(msg_list) :
          LET dead == {msg_list[i].of : i \in 1..c}
          IN /\ \A i \in 1..c : msg_list[i].kind = "query" /\ new[msg_list[i].of].canceled
             /\ msg' = [q \in Msgs |-> IF q \in dead THEN Deleted(new[q]) ELSE new[q]]
             /\ queries' = Without(dead)
             /\ msg_list' = SubSeq(msg_list, c + 1, Len(msg_list))
    BY Zenon DEF ic_msg_on_timeout
  <1> DEFINE dead == {msg_list[i].of : i \in 1..c}
             left == SubSeq(msg_list, c + 1, Len(msg_list))
  <1>5. /\ msg' = [q \in Msgs |-> IF q \in dead THEN Deleted(new[q]) ELSE new[q]]
        /\ queries' = Without(dead) /\ msg_list' = left
        /\ UNCHANGED <<nextslot, iov_list, peer, inbox, wrong>>
    BY <1>4 DEF ic_msg_on_timeout, env
  <1>6. msg \in [Msgs -> MsgRec] /\ queries \in [Slots -> Msgs \cup {NONE}]
    BY DEF IcInv, IcTypeOK
  <1>7. \A i \in 1..c : msg_list[i].kind = "query" /\ new[msg_list[i].of].canceled
    BY <1>4
  <1> HIDE DEF y
  <1>8. /\ new \in [Msgs -> MsgRec]
        /\ \A q \in Msgs : /\ Settled(new[q]) /\ new[q].state = msg[q].state
                           /\ new[q].slot = msg[q].slot
    BY <1>1, <1>2, <1>6, Known
  <1> HIDE DEF new
  <1>9. ASSUME NEW q \in dead
        PROVE  /\ q \in Msgs /\ q \in QueriesOf(msg_list)
               /\ new[q].state = "live" /\ new[q].canceled
    <2>1. PICK i \in 1..c : q = msg_list[i].of
      BY <1>9
    <2>2. i \in DOMAIN msg_list /\ msg_list[i].kind = "query" /\ new[q].canceled
      BY <1>3, <1>7, <2>1
    <2>3. q \in QueriesOf(msg_list) /\ q \in Msgs
      BY <1>3, <2>1, <2>2, ItemOf, Known
    <2>4. msg[q].state = "live"
      BY <2>3 DEF IcInv, ListInv
    <2>5. QED
      BY <1>8, <2>2, <2>3, <2>4
  <1>10. /\ left \in Seq(Items) /\ Once(left) /\ QueriesOf(left) \subseteq QueriesOf(msg_list)
         /\ \A i \in 1..c : msg_list[i].of \notin QueriesOf(left)
    BY <1>3, Suffix
  <1>11. dead \cap QueriesOf(left) = {}
    BY <1>10
  <1> HIDE DEF left, dead
  <1>12. dead \cap QueriesOf(iov_list) = {}
    BY <1>9 DEF IcInv, ListInv
  <1>13. ASSUME NEW q \in dead
         PROVE  /\ Deleted(new[q]) \in MsgRec /\ Settled(Deleted(new[q]))
                /\ Deleted(new[q]).state = "freed"
    BY <1>8, <1>9, DeletedOK
  <1>14. Removes(dead)
    BY <1>5, <1>6, <1>8, <1>9, <1>13 DEF Removes, Without
  <1>15. QED
    BY <1>5, <1>9, <1>10, <1>11, <1>12, <1>14, RemovedNext

\* ic_msg_filter_on_bye deletes every query that is queued.
LEMMA FilterNext ==
  ASSUME IcConstants, IcInv, ic_msg_filter_on_bye
  PROVE  IcInv'
  <1> DEFINE D == QueriesOf(msg_list)
             K == {i \in DOMAIN msg_list : msg_list[i].kind # "query"}
  <1>1. D = FilteredOut
    BY DEF FilteredOut, QueriesOf
  <1>2. msg_list \in Seq(Items) /\ Once(msg_list)
    BY DEF IcInv, IcTypeOK, ListInv
  <1>3. /\ msg_list' \in Kept(msg_list, K)
        /\ msg' = [m \in Msgs |->
              IF m \notin D THEN msg[m]
              ELSE IF msg[m].slot # 0 THEN Deleted(Called(msg[m])) ELSE Deleted(msg[m])]
        /\ queries' = Without(D)
        /\ UNCHANGED <<nextslot, iov_list, peer, inbox, wrong>>
    BY <1>1 DEF ic_msg_filter_on_bye, env
  <1>4. /\ msg_list' \in Seq(Items) /\ Once(msg_list')
        /\ \A m \in QueriesOf(msg_list') : m # NONE /\ \E k \in K : msg_list[k].of = m
    <2>1. K \subseteq DOMAIN msg_list
      OBVIOUS
    <2> HIDE DEF K
    <2>2. QED
      BY <1>2, <1>3, <2>1, KeptOK
  <1>5. QueriesOf(msg_list') = {}
    BY <1>2, <1>4, ItemOf
  <1>6. \A m \in D : m \in Msgs /\ msg[m].state = "live"
    BY Known DEF IcInv, ListInv
  <1>7. D \cap QueriesOf(iov_list) = {}
    BY DEF IcInv, ListInv
  <1>8. msg \in [Msgs -> MsgRec] /\ queries \in [Slots -> Msgs \cup {NONE}]
    BY DEF IcInv, IcTypeOK
  <1> HIDE DEF D
  <1>9. ASSUME NEW m \in D
        PROVE  msg'[m] \in MsgRec /\ Settled(msg'[m]) /\ msg'[m].state = "freed"
    BY <1>3, <1>6, Known, DeletedOK
  <1>10. Removes(D)
    <2>1. \A m \in Msgs \ D : msg'[m] = msg[m]
      BY <1>3
    <2>2. msg' \in [Msgs -> MsgRec]
      BY <1>3, <1>8, <1>9, <2>1
    <2>3. \A m \in Msgs : Settled(msg'[m])
      BY <1>9, <2>1, Known
    <2>4. QED
      BY <1>3, <1>6, <1>8, <1>9, <2>1, <2>2, <2>3 DEF Removes, Without
  <1>11. QED
    BY <1>3, <1>4, <1>5, <1>7, <1>10, RemovedNext DEF D

\* __ic_query_flags gives a slot that no query has.
LEMMA FreeSlotOK ==
  ASSUME IcConstants, IcInv, NEW s \in FreeSlots
  PROVE  s \in Slots /\ queries[s] = NONE
  <1> DEFINE order == IF nextslot = 0 THEN [i \in 1..MaxSlot |-> i]
                      ELSE [i \in 1..(MaxSlot - 1) |-> ((nextslot + i - 1) % MaxSlot) + 1]
  <1>1. nextslot \in 0..MaxSlot /\ MaxSlot \in Nat
    BY DEF IcInv, IcTypeOK, IcConstants
  <1>2. \A i \in DOMAIN order : order[i] \in Slots
    <2>1. CASE nextslot = 0
      BY <1>1, <2>1 DEF Slots
    <2>2. CASE nextslot # 0
      <3>1. MaxSlot \in Nat \ {0} /\ nextslot \in Nat
        BY <1>1, <2>2
      <3>2. \A k \in Nat : (k % MaxSlot) + 1 \in 1..MaxSlot
        BY <3>1
      <3>3. \A i \in 1..(MaxSlot - 1) : nextslot + i - 1 \in Nat
        BY <3>1
      <3>4. QED
        BY <2>2, <3>1, <3>2, <3>3 DEF Slots
    <2>3. QED
      BY <2>1, <2>2
  <1>3. \E i \in DOMAIN order : s = order[i] /\ queries[order[i]] = NONE
    BY DEF FreeSlots
  <1> HIDE DEF order
  <1>4. QED
    BY <1>2, <1>3

\* A query that gets no slot is over at once.
LEMMA NoSlotNext ==
  ASSUME IcConstants, IcInv, NEW m \in Msgs, msg[m].state = "new", NEW y \in MsgRec,
         Settled(y), y.state = "freed", msg' = [msg EXCEPT ![m] = y],
         UNCHANGED <<queries, nextslot, msg_list, iov_list, peer, inbox, wrong>>
  PROVE  IcInv'
  <1>1. msg \in [Msgs -> MsgRec] /\ queries \in [Slots -> Msgs \cup {NONE}]
    BY DEF IcInv, IcTypeOK
  <1>2. \A s \in Slots : queries[s] # m
    BY Known DEF IcInv, SlotInv
  <1>3. m \notin QueriesOf(msg_list) \cup QueriesOf(iov_list)
    BY DEF IcInv, ListInv
  <1>4. Removes({m})
    BY <1>1, <1>2, Known DEF Removes
  <1>5. MsgInv' /\ SlotInv'
    BY <1>4, SlotsKept
  <1>6. IcTypeOK'
    BY <1>1 DEF IcInv, IcTypeOK
  <1>7. ListInv'
    BY <1>1, <1>3, Known DEF IcInv, ListInv
  <1>8. PeerInv'
    BY DEF IcInv, PeerInv, Waits
  <1>9. QED
    BY <1>5, <1>6, <1>7, <1>8 DEF IcInv

\* A new query is queued, and waits for an answer if it is not async.
LEMMA QueuedNext ==
  ASSUME IcConstants, IcInv, NEW m \in Msgs, msg[m].state = "new",
         NEW kind \in Kinds, NEW s \in IF kind.async THEN {0} ELSE FreeSlots,
         NEW new, new = Asked(kind, s),
         msg' = [msg EXCEPT ![m] = new],
         msg_list' = Append(msg_list, Queued(m)),
         IF kind.async THEN UNCHANGED <<queries, nextslot>>
         ELSE queries' = [queries EXCEPT ![s] = m] /\ nextslot' = s,
         UNCHANGED <<iov_list, peer, inbox, wrong>>
  PROVE  IcInv'
  <1>1. msg \in [Msgs -> MsgRec] /\ queries \in [Slots -> Msgs \cup {NONE}]
    BY DEF IcInv, IcTypeOK
  <1>2. kind.async \in BOOLEAN /\ kind.timeout \in BOOLEAN
    BY DEF IcConstants
  <1>3. /\ kind.async => s = 0
        /\ ~kind.async => s \in Slots /\ queries[s] = NONE
    BY <1>2, FreeSlotOK
  <1>4. s \in 0..MaxSlot /\ (~kind.async => s # 0)
    BY <1>2, <1>3 DEF Slots, IcConstants
  <1>5. new \in MsgRec /\ Settled(new) /\ new.state = "live" /\ new.slot = s
    <2>1. new \in MsgRec
      BY <1>2, <1>4 DEF Asked, MsgRec, IcConstants
    <2>2. /\ new.state = "live" /\ new.kind = kind /\ new.slot = s /\ new.cbs = 0
          /\ new.canceled = FALSE
      BY DEF Asked
    <2>3. Settled(new)
      BY <1>2, <1>3, <1>4, <2>2 DEF Settled
    <2>4. QED
      BY <2>1, <2>2, <2>3
  <1>6. msg'[m] = new /\ \A q \in Msgs \ {m} : msg'[q] = msg[q]
    BY <1>1
  <1>7. \A t \in Slots : queries[t] # m
    BY Known DEF IcInv, SlotInv
  <1>8. m \notin QueriesOf(msg_list) /\ m \notin QueriesOf(iov_list)
    BY DEF IcInv, ListInv
  <1>9. /\ queries' \in [Slots -> Msgs \cup {NONE}]
        /\ \A t \in Slots : queries'[t] = IF t = s THEN m ELSE queries[t]
    BY <1>1, <1>2, <1>3, Known
  <1>10. Queued(m) \in Items /\ Queued(m).of = m
    BY Known DEF Queued, Items
  <1>11. /\ msg_list' \in Seq(Items) /\ Once(msg_list')
         /\ QueriesOf(msg_list') = QueriesOf(msg_list) \cup {m}
    <2>1. msg_list \in Seq(Items) /\ Once(msg_list)
      BY DEF IcInv, IcTypeOK, ListInv
    <2>2. QED
      BY <1>8, <1>10, <2>1, Appended, Known
  <1>12. IcTypeOK'
    <2>1. msg' \in [Msgs -> MsgRec]
      BY <1>1, <1>5
    <2>2. nextslot' \in 0..MaxSlot
      BY <1>2, <1>4 DEF IcInv, IcTypeOK
    <2>3. QED
      BY <1>9, <1>11, <2>1, <2>2 DEF IcInv, IcTypeOK
  <1>13. MsgInv'
    BY <1>5, <1>6, Known DEF MsgInv
  <1>14. SlotInv'
    <2>1. ASSUME NEW t \in Slots, queries'[t] # NONE
          PROVE  /\ queries'[t] \in Msgs /\ msg'[queries'[t]].state = "live"
                 /\ msg'[queries'[t]].slot = t
      <3>1. CASE t = s
        BY <1>5, <1>6, <1>9, <3>1
      <3>2. CASE t # s
        <4>1. queries'[t] = queries[t] /\ queries[t] # m /\ queries[t] # NONE
          BY <1>7, <1>9, <2>1, <3>2
        <4>2. /\ queries[t] \in Msgs /\ msg[queries[t]].state = "live"
              /\ msg[queries[t]].slot = t
          BY <4>1 DEF IcInv, SlotInv
        <4>3. QED
          BY <1>6, <4>1, <4>2
      <3>3. QED
        BY <3>1, <3>2
    <2>2. ASSUME NEW q \in Msgs, msg'[q].state = "live", msg'[q].slot # 0
          PROVE  msg'[q].slot \in Slots /\ queries'[msg'[q].slot] = q
      <3>1. CASE q = m
        BY <1>2, <1>3, <1>5, <1>6, <1>9, <2>2, <3>1
      <3>2. CASE q # m
        <4>1. msg[q].state = "live" /\ msg[q].slot # 0 /\ msg'[q].slot = msg[q].slot
          BY <1>6, <2>2, <3>2
        <4>2. msg[q].slot \in Slots /\ queries[msg[q].slot] = q
          BY <4>1 DEF IcInv, SlotInv
        <4>3. msg[q].slot # s
          BY <1>2, <1>3, <4>1, <4>2, Known
        <4>4. QED
          BY <1>9, <4>1, <4>2, <4>3
      <3>3. QED
        BY <3>1, <3>2
    <2>3. QED
      BY <2>1, <2>2 DEF SlotInv
  <1>15. ListInv'
    <2>1. Once(iov_list') /\ QueriesOf(msg_list') \cap QueriesOf(iov_list') = {}
      BY <1>8, <1>11 DEF IcInv, ListInv
    <2>2. ASSUME NEW q \in QueriesOf(msg_list') \cup QueriesOf(iov_list')
          PROVE  msg'[q].state = "live"
      <3>1. CASE q = m
        BY <1>5, <1>6, <3>1
      <3>2. CASE q # m
        <4>1. q \in Msgs /\ msg[q].state = "live"
          BY <1>11, <2>2, <3>2, Known DEF IcInv, ListInv
        <4>2. QED
          BY <1>6, <3>2, <4>1
      <3>3. QED
        BY <3>1, <3>2
    <2>3. QED
      BY <1>11, <2>1, <2>2 DEF ListInv
  <1>16. PeerInv'
    <2>1. ASSUME NEW t, NEW q, Waits(t, q) PROVE Waits(t, q)'
      <3>1. t \in Slots /\ q \in Msgs /\ queries[t] = q /\ q # m /\ q # NONE
        BY <1>7, <2>1, Known DEF Waits
      <3>2. t # s
        BY <1>2, <1>3, <3>1, Known
      <3>3. queries'[t] = q
        BY <1>9, <3>1, <3>2
      <3>4. QED
        BY <1>11, <2>1, <3>1, <3>3 DEF Waits
    <2>2. QED
      BY <2>1 DEF PeerInv, IcInv
  <1>17. QED
    BY <1>12, <1>13, <1>14, <1>15, <1>16 DEF IcInv

\* __ic_query_flags.
LEMMA QueryNext ==
  ASSUME IcConstants, IcInv, NEW m \in Msgs, NEW kind \in Kinds, __ic_query(m, kind)
  PROVE  IcInv'
  <1>1. msg[m].state = "new" /\ UNCHANGED <<iov_list, peer, inbox, wrong>>
    BY DEF __ic_query, env
  <1>2. CASE ~kind.async /\ FreeSlots = {}
    <2> DEFINE new == Asked(kind, 0)
               c == Called(new)
               y == Deleted(c)
    <2>1. msg' = [msg EXCEPT ![m] = y] /\ UNCHANGED <<queries, nextslot, msg_list>>
      BY <1>2 DEF __ic_query
    <2>2. kind.timeout \in BOOLEAN
      BY DEF IcConstants
    <2>3. new \in MsgRec
      BY <2>2 DEF Asked, MsgRec
    <2>4. new.kind = kind /\ new.cbs = 0 /\ new.canceled = FALSE
      BY DEF Asked
    <2> HIDE DEF new
    <2>5. c \in MsgRec /\ c.kind = kind /\ c.cbs = 1
      <3>1. c = [new EXCEPT !.cbs = new.cbs + 1]
        BY <1>2, <2>4 DEF Called
      <3> HIDE DEF c
      <3>2. QED
        BY <2>3, <2>4, <3>1 DEF MsgRec
    <2> HIDE DEF c
    <2>6. y \in MsgRec /\ y.kind = kind /\ y.cbs = 1 /\ y.state = "freed"
      BY <2>5, Fields
    <2> HIDE DEF y
    <2>7. Settled(y)
      BY <1>2, <2>6 DEF Settled
    <2>8. QED
      BY <1>1, <2>1, <2>6, <2>7, NoSlotNext
  <1>3. CASE ~(~kind.async /\ FreeSlots = {})
    <2>1. PICK s \in IF kind.async THEN {0} ELSE FreeSlots :
            /\ msg' = [msg EXCEPT ![m] = Asked(kind, s)]
            /\ msg_list' = Append(msg_list, Queued(m))
            /\ IF kind.async THEN UNCHANGED <<queries, nextslot>>
               ELSE queries' = [queries EXCEPT ![s] = m] /\ nextslot' = s
      BY <1>3 DEF __ic_query, ic_queue
    <2>2. QED
      BY <1>1, <2>1, QueuedNext
  <1>4. QED
    BY <1>2, <1>3

-----------------------------------------------------------------------------
\* ic_read takes the messages of the peer one by one.
LEMMA TailOf ==
  ASSUME NEW b \in Seq(Sent), b # <<>>
  PROVE  /\ Tail(b) \in Seq(Sent) /\ 1 \in DOMAIN b /\ Head(b) = b[1] /\ b[1] \in Sent
         /\ \A i \in DOMAIN Tail(b) : i + 1 \in DOMAIN b /\ i + 1 # 1 /\ Tail(b)[i] = b[i + 1]
         /\ \A i, j \in DOMAIN Tail(b) : i + 1 = j + 1 => i = j
  <1> DEFINE n == Len(b)
             t == Tail(b)
  <1>1. n \in Nat /\ n # 0 /\ DOMAIN b = 1..n
    OBVIOUS
  <1>2. t \in Seq(Sent) /\ Len(t) = n - 1 /\ (\A i \in 1..(n - 1) : t[i] = b[i + 1])
        /\ Head(b) = b[1]
    OBVIOUS
  <1> HIDE DEF n, t
  <1>3. DOMAIN t = 1..(n - 1)
    BY <1>2
  <1>4. 1 \in DOMAIN b /\ b[1] \in Sent
    BY <1>1
  <1>5. \A i \in DOMAIN t : i + 1 \in DOMAIN b /\ i + 1 # 1 /\ t[i] = b[i + 1]
    BY <1>1, <1>2, <1>3
  <1>6. \A i, j \in DOMAIN t : i + 1 = j + 1 => i = j
    BY <1>1, <1>3
  <1>7. QED
    BY <1>2, <1>4, <1>5, <1>6 DEF t

\* ic_read_process_answer: the answer is for the query that has the slot.
LEMMA AnswerNext ==
  ASSUME IcConstants, IcInv, ic_read_process_answer
  PROVE  IcInv'
  <1> DEFINE s == Head(inbox).slot
             m == queries[s]
             t == Tail(inbox)
  <1>1. /\ inbox # <<>> /\ Head(inbox).kind = "answer"
        /\ wrong' = (wrong \/ m # Head(inbox).of)
        /\ msg' = IF m = NONE THEN msg ELSE [msg EXCEPT ![m] = Deleted(Called(msg[m]))]
        /\ queries' = [queries EXCEPT ![s] = NONE]
        /\ inbox' = t
        /\ UNCHANGED <<nextslot, msg_list, iov_list, peer>>
    BY DEF ic_read_process_answer
  <1>2. /\ t \in Seq(Sent) /\ 1 \in DOMAIN inbox /\ Head(inbox) = inbox[1]
        /\ \A i \in DOMAIN t : i + 1 \in DOMAIN inbox /\ i + 1 # 1 /\ t[i] = inbox[i + 1]
        /\ \A i, j \in DOMAIN t : i + 1 = j + 1 => i = j
    BY <1>1, TailOf DEF IcInv, IcTypeOK
  <1>3. 1 \in AnswersIn(inbox)
    BY <1>1, <1>2 DEF AnswersIn
  <1>4. /\ s \in Slots /\ m \in Msgs /\ m = inbox[1].of
        /\ m \notin QueriesOf(msg_list) /\ m \notin QueriesOf(iov_list)
        /\ <<s, m>> \notin peer
    BY <1>2, <1>3 DEF IcInv, PeerInv, Waits
  <1>5. ~wrong'
    BY <1>1, <1>2, <1>4 DEF IcInv
  <1> HIDE DEF t, s
  <1>6. msg \in [Msgs -> MsgRec] /\ queries \in [Slots -> Msgs \cup {NONE}]
    BY DEF IcInv, IcTypeOK
  <1>7. m # NONE /\ msg[m] \in MsgRec /\ Settled(msg[m]) /\ msg[m].state = "live"
        /\ msg[m].slot = s
    BY <1>4, Known DEF IcInv, SlotInv
  <1>8. \A r \in Slots : queries[r] = m => r = s
    BY <1>7 DEF IcInv, SlotInv
  <1> DEFINE y == Deleted(Called(msg[m]))
  <1>9. y \in MsgRec /\ Settled(y) /\ y.state = "freed"
    BY <1>7, DeletedOK
  <1>10. msg' = [msg EXCEPT ![m] = y]
    BY <1>1, <1>7
  <1> HIDE DEF y
  <1>11. Removes({m})
    <2> DEFINE q == m
    <2>1. q \in Msgs /\ m = q
      BY <1>4
    <2>2. /\ queries' \in [Slots -> Msgs \cup {NONE}]
          /\ \A r \in Slots : queries'[r] = IF queries[r] = q THEN NONE ELSE queries[r]
      BY <1>1, <1>4, <1>6, <1>8
    <2>3. msg' = [msg EXCEPT ![q] = y]
      BY <1>10
    <2> HIDE DEF q, m
    <2>4. Removes({q})
      BY <1>6, <1>9, <2>1, <2>2, <2>3, Known DEF Removes
    <2>5. QED
      BY <2>1, <2>4
  <1>12. MsgInv' /\ SlotInv'
    BY <1>11, SlotsKept
  <1>13. IcTypeOK'
    BY <1>1, <1>2, <1>11 DEF IcInv, IcTypeOK, Removes
  <1>14. ListInv'
    <2>1. \A q \in Msgs : q # m => msg'[q] = msg[q]
      BY <1>6, <1>10
    <2>2. QED
      BY <1>1, <1>4, <2>1, Known DEF IcInv, ListInv
  <1>15. PeerInv'
    <2>1. ASSUME NEW r, NEW q, Waits(r, q), q # m PROVE Waits(r, q)'
      <3>1. r # s
        BY <2>1 DEF Waits
      <3>2. queries'[r] = q
        BY <1>1, <1>6, <2>1, <3>1 DEF Waits
      <3>3. QED
        BY <1>1, <2>1, <3>2 DEF Waits
    <2>2. ASSUME NEW p \in peer' PROVE Waits(p[1], p[2])'
      <3>1. p \in peer /\ p \in Slots \X Msgs /\ Waits(p[1], p[2])
        BY <1>1, <2>2 DEF IcInv, IcTypeOK, PeerInv
      <3>2. p = <<p[1], p[2]>>
        BY <3>1
      <3>3. p[2] # m
        BY <1>4, <1>8, <3>1, <3>2 DEF Waits
      <3>4. QED
        BY <2>1, <3>1, <3>3
    <2>3. ASSUME NEW i \in AnswersIn(t)
          PROVE  /\ i + 1 \in AnswersIn(inbox) /\ t[i] = inbox[i + 1]
                 /\ t[i].of # m
      <3>1. i + 1 \in AnswersIn(inbox) /\ t[i] = inbox[i + 1] /\ i + 1 # 1
        BY <1>2, <2>3 DEF AnswersIn
      <3>2. QED
        BY <1>3, <1>4, <3>1 DEF IcInv, PeerInv
    <2>4. ASSUME NEW i \in AnswersIn(t), NEW r, NEW q, r = t[i].slot, q = t[i].of
          PROVE  Waits(r, q)' /\ <<r, q>> \notin peer'
      <3>1. Waits(r, q) /\ <<r, q>> \notin peer /\ q # m
        BY <2>3, <2>4 DEF IcInv, PeerInv
      <3>2. QED
        BY <1>1, <2>1, <3>1
    <2>5. ASSUME NEW i \in AnswersIn(t), NEW j \in AnswersIn(t), t[i].of = t[j].of
          PROVE  i = j
      <3>1. i \in DOMAIN t /\ j \in DOMAIN t
        BY DEF AnswersIn
      <3>2. i + 1 = j + 1
        BY <2>3, <2>5 DEF IcInv, PeerInv
      <3>3. QED
        BY <1>2, <3>1, <3>2
    <2>6. ASSUME NEW i \in AnswersIn(inbox')
          PROVE  /\ Waits(inbox[i].slot, inbox[i].of)'
                 /\ <<inbox'[i].slot, inbox'[i].of>> \notin peer'
      <3>1. i \in AnswersIn(t) /\ inbox' = t
        BY <1>1
      <3>2. \E r, q : r = inbox'[i].slot /\ q = inbox'[i].of
        OBVIOUS
      <3>3. PICK r, q : r = inbox'[i].slot /\ q = inbox'[i].of
        BY <3>2
      <3>4. Waits(r, q)' /\ <<r, q>> \notin peer'
        BY <2>4, <3>1, <3>3
      <3>5. QED
        BY <3>3, <3>4 DEF Waits
    <2>7. \A i, j \in AnswersIn(inbox') : inbox'[i].of = inbox'[j].of => i = j
      BY <1>1, <2>5
    <2>8. QED
      BY <2>2, <2>6, <2>7 DEF PeerInv
  <1>16. QED
    BY <1>5, <1>12, <1>13, <1>14, <1>15 DEF IcInv

\* A message of the channel itself is queued, or one of the peer is taken that is
\* not an answer: the queries stay where they are.
LEMMA ControlNext ==
  ASSUME IcConstants, IcInv,
         \/ msg_list' = msg_list
         \/ \E k \in {"reply", "nop", "bye"} : msg_list' = Append(msg_list, Control(k)),
         \/ inbox' = inbox
         \/ inbox # <<>> /\ Head(inbox).kind # "answer" /\ inbox' = Tail(inbox),
         UNCHANGED <<msg, queries, nextslot, iov_list, peer, wrong>>
  PROVE  IcInv'
  <1>1. /\ msg_list' \in Seq(Items) /\ Once(msg_list')
        /\ QueriesOf(msg_list') = QueriesOf(msg_list)
    <2>1. msg_list \in Seq(Items) /\ Once(msg_list)
      BY DEF IcInv, IcTypeOK, ListInv
    <2>2. CASE msg_list' = msg_list
      BY <2>1, <2>2
    <2>3. ASSUME NEW k \in {"reply", "nop", "bye"}, msg_list' = Append(msg_list, Control(k))
          PROVE  /\ msg_list' \in Seq(Items) /\ Once(msg_list')
                 /\ QueriesOf(msg_list') = QueriesOf(msg_list)
      <3>1. Control(k) \in Items /\ Control(k).of = NONE
        BY DEF Control, Items
      <3>2. NONE \notin QueriesOf(msg_list)
        BY DEF QueriesOf
      <3>3. QED
        BY <2>1, <2>3, <3>1, <3>2, Appended
    <2>4. QED
      BY <2>2, <2>3
  <1>2. inbox \in Seq(Sent)
    BY DEF IcInv, IcTypeOK
  <1>3. inbox' \in Seq(Sent)
    BY <1>2, TailOf
  <1>4. IcTypeOK' /\ MsgInv' /\ SlotInv'
    BY <1>1, <1>3 DEF IcInv, IcTypeOK, MsgInv, SlotInv
  <1>5. ListInv'
    BY <1>1 DEF IcInv, ListInv
  <1>6. \A r, q : Waits(r, q) => Waits(r, q)'
    BY <1>1 DEF Waits
  <1>7. PeerInv'
    <2>1. CASE inbox' = inbox
      BY <1>6, <2>1 DEF IcInv, PeerInv
    <2>2. CASE inbox # <<>> /\ Head(inbox).kind # "answer" /\ inbox' = Tail(inbox)
      <3>1. \A p \in peer' : Waits(p[1], p[2])'
        BY <1>6 DEF IcInv, PeerInv
      <3>2. ASSUME NEW i \in AnswersIn(inbox')
            PROVE  i + 1 \in AnswersIn(inbox) /\ inbox'[i] = inbox[i + 1]
        BY <1>2, <2>2, TailOf DEF AnswersIn
      <3>3. ASSUME NEW i \in AnswersIn(inbox')
            PROVE  /\ Waits(inbox[i].slot, inbox[i].of)'
                   /\ <<inbox'[i].slot, inbox'[i].of>> \notin peer'
        <4>1. PICK r, q : r = inbox'[i].slot /\ q = inbox'[i].of
          OBVIOUS
        <4>2. Waits(r, q) /\ <<r, q>> \notin peer
          BY <3>2, <4>1 DEF IcInv, PeerInv
        <4>3. Waits(r, q)' /\ <<r, q>> \notin peer'
          BY <1>6, <4>2
        <4>4. QED
          BY <4>1, <4>3 DEF Waits
      <3>4. ASSUME NEW i \in AnswersIn(inbox'), NEW j \in AnswersIn(inbox'),
                   inbox'[i].of = inbox'[j].of
            PROVE  i = j
        <4>1. i \in DOMAIN Tail(inbox) /\ j \in DOMAIN Tail(inbox)
          BY <2>2 DEF AnswersIn
        <4>2. i + 1 = j + 1
          BY <3>2, <3>4 DEF IcInv, PeerInv
        <4>3. QED
          BY <1>2, <2>2, <4>1, <4>2, TailOf
      <3>5. QED
        BY <3>1, <3>3, <3>4 DEF PeerInv
    <2>3. QED
      BY <2>1, <2>2
  <1>8. QED
    BY <1>4, <1>5, <1>7 DEF IcInv

\* The peer sends a message; when it is an answer, the query is no longer at the
\* peer.
LEMMA SendsNext ==
  ASSUME IcConstants, IcInv, NEW x \in Sent, Sends(x), peer' \subseteq peer,
         x.kind = "answer" => <<x.slot, x.of>> \in peer \ peer',
         UNCHANGED <<msg, queries, nextslot, msg_list, iov_list, wrong>>
  PROVE  IcInv'
  <1> DEFINE n == Len(inbox)
  <1>1. inbox \in Seq(Sent) /\ n \in Nat /\ DOMAIN inbox = 1..n
    BY DEF IcInv, IcTypeOK
  <1>2. inbox' \in Seq(Sent) /\ DOMAIN inbox' = 1..(n + 1) /\ inbox'[n + 1] = x
        /\ \A i \in 1..n : inbox'[i] = inbox[i]
    BY <1>1 DEF Sends
  <1> HIDE DEF n
  <1>3. ASSUME NEW i \in AnswersIn(inbox')
        PROVE  \/ i \in AnswersIn(inbox) /\ inbox'[i] = inbox[i]
               \/ i = n + 1 /\ inbox'[i] = x /\ x.kind = "answer"
    <2>1. i \in 1..n \/ i = n + 1
      BY <1>1, <1>2 DEF AnswersIn
    <2>2. QED
      BY <1>1, <1>2, <2>1 DEF AnswersIn
  <1>4. IcTypeOK' /\ MsgInv' /\ SlotInv' /\ ListInv'
    BY <1>2 DEF IcInv, IcTypeOK, MsgInv, SlotInv, ListInv
  <1>5. \A r, q : Waits(r, q) => Waits(r, q)'
    BY DEF Waits
  <1>6. x.kind = "answer" => /\ Waits(x.slot, x.of) /\ <<x.slot, x.of>> \notin peer'
                             /\ <<x.slot, x.of>> \in peer
    <2> DEFINE p == <<x.slot, x.of>>
    <2>1. p[1] = x.slot /\ p[2] = x.of
      OBVIOUS
    <2> HIDE DEF p
    <2>2. p \in peer => Waits(p[1], p[2])
      BY DEF IcInv, PeerInv
    <2>3. QED
      BY <2>1, <2>2 DEF p
  <1>7. ASSUME NEW i \in AnswersIn(inbox')
        PROVE  /\ Waits(inbox[i].slot, inbox[i].of)'
               /\ <<inbox'[i].slot, inbox'[i].of>> \notin peer'
    <2>1. PICK r, q : r = inbox'[i].slot /\ q = inbox'[i].of
      OBVIOUS
    <2>2. Waits(r, q) /\ <<r, q>> \notin peer'
      BY <1>3, <1>6, <2>1 DEF IcInv, PeerInv
    <2>3. Waits(r, q)'
      BY <1>5, <2>2
    <2>4. QED
      BY <2>1, <2>2, <2>3 DEF Waits
  <1>8. ASSUME NEW i \in AnswersIn(inbox), x.kind = "answer" PROVE inbox[i].of # x.of
    <2>1. Waits(inbox[i].slot, inbox[i].of) /\ <<inbox[i].slot, inbox[i].of>> \notin peer
      BY DEF IcInv, PeerInv
    <2>2. SUFFICES ASSUME inbox[i].of = x.of PROVE FALSE
      OBVIOUS
    <2>3. inbox[i].slot # x.slot
      BY <1>6, <1>8, <2>1, <2>2
    <2>4. /\ x.slot \in Slots /\ x.of \in Msgs /\ queries[x.slot] = x.of
          /\ inbox[i].slot \in Slots /\ queries[inbox[i].slot] = x.of
      BY <1>6, <1>8, <2>1, <2>2 DEF Waits
    <2>5. msg[x.of].slot = x.slot /\ msg[x.of].slot = inbox[i].slot
      <3>1. x.of # NONE
        BY <2>4, Known
      <3>2. \A t \in Slots : queries[t] # NONE => msg[queries[t]].slot = t
        BY DEF IcInv, SlotInv
      <3>3. QED
        BY <2>4, <3>1, <3>2
    <2>6. QED
      BY <2>3, <2>5
  <1>9. \A i, j \in AnswersIn(inbox') : inbox'[i].of = inbox'[j].of => i = j
    BY <1>3, <1>8 DEF IcInv, PeerInv
  <1>10. \A p \in peer' : Waits(p[1], p[2])'
    BY <1>5 DEF IcInv, PeerInv
  <1>11. QED
    BY <1>4, <1>7, <1>9, <1>10 DEF IcInv, PeerInv

\* ic_disconnect: ic_cancel_all leaves no query live.
LEMMA DisconnectNext ==
  ASSUME IcConstants, IcInv, NEW again, Disconnected(again)
  PROVE  IcInv'
  <1> DEFINE D == {m \in Msgs : msg[m].state = "live"}
  <1>1. msg \in [Msgs -> MsgRec] /\ queries \in [Slots -> Msgs \cup {NONE}]
    BY DEF IcInv, IcTypeOK
  <1>2. \A m \in Queries : m \in Msgs /\ msg[m].state = "live"
    BY Known DEF Queries, IcInv, SlotInv
  <1>3. \A m \in D : m \in Queries \/ msg[m].slot = 0
    BY DEF Queries, IcInv, SlotInv
  <1>4. msg' = [m \in Msgs |->
                  IF m \in Queries THEN Deleted(Called(msg[m]))
                  ELSE IF msg[m].state = "live" /\ msg[m].slot = 0 THEN Deleted(msg[m])
                  ELSE msg[m]]
    BY DEF Disconnected, ic_cancel_all
  <1>5. /\ queries' = [s \in Slots |-> NONE] /\ msg_list' = <<>> /\ iov_list' = <<>>
        /\ peer' = {} /\ inbox' = <<>> /\ UNCHANGED <<nextslot, wrong>>
    BY DEF Disconnected, ic_cancel_all
  <1>6. ASSUME NEW m \in D
        PROVE  msg'[m] \in MsgRec /\ Settled(msg'[m]) /\ msg'[m].state = "freed"
    BY <1>3, <1>4, Known, DeletedOK
  <1>7. ASSUME NEW m \in Msgs \ D PROVE msg'[m] = msg[m]
    BY <1>2, <1>4
  <1>8. Removes(D)
    <2>1. msg' \in [Msgs -> MsgRec]
      BY <1>1, <1>4, <1>6, <1>7
    <2>2. \A m \in Msgs : Settled(msg'[m])
      BY <1>6, <1>7, Known
    <2>3. \A s \in Slots : queries[s] \in D \/ queries[s] = NONE
      BY DEF IcInv, SlotInv
    <2> HIDE DEF D
    <2>4. D \subseteq Msgs
      BY DEF D
    <2>5. QED
      BY <1>5, <1>6, <1>7, <2>1, <2>2, <2>3, <2>4 DEF Removes
  <1>9. MsgInv' /\ SlotInv'
    BY <1>8, SlotsKept
  <1>10. IcTypeOK'
    BY <1>5, <1>8 DEF IcInv, IcTypeOK, Removes
  <1>11. QueriesOf(msg_list') = {} /\ QueriesOf(iov_list') = {}
    BY <1>5 DEF QueriesOf
  <1>12. ListInv'
    BY <1>5, <1>11 DEF ListInv, Once
  <1>13. PeerInv'
    BY <1>5 DEF PeerInv, AnswersIn
  <1>14. QED
    BY <1>5, <1>9, <1>10, <1>12, <1>13 DEF IcInv

\* ic_write: what is sent leaves the vector, and waits at the peer if it has a slot.
LEMMA WriteNext ==
  ASSUME IcConstants, IcInv, NEW ends, Written(ends)
  PROVE  IcInv'
  <1>1. PICK n \in 0..Len(msg_list) :
          \E taken \in Kept(msg_list, {i \in 1..n : ~IsDead(msg_list[i])}) :
            \E k \in 0..(Len(iov_list) + Len(taken)) :
              WriteVec(ends, {msg_list[i].of : i \in {i \in 1..n : IsDead(msg_list[i])}},
                       SubSeq(msg_list, n + 1, Len(msg_list)), iov_list \o taken, k)
    BY DEF Written
  <1> DEFINE K == {i \in 1..n : ~IsDead(msg_list[i])}
             L == {i \in 1..n : IsDead(msg_list[i])}
             dead == {msg_list[i].of : i \in L}
             left == SubSeq(msg_list, n + 1, Len(msg_list))
  <1>2. PICK taken \in Kept(msg_list, K) :
          \E k \in 0..(Len(iov_list) + Len(taken)) :
            WriteVec(ends, dead, left, iov_list \o taken, k)
    BY <1>1
  <1> DEFINE vec == iov_list \o taken
  <1>3. PICK k \in 0..(Len(iov_list) + Len(taken)) : WriteVec(ends, dead, left, vec, k)
    BY <1>2
  <1> DEFINE iov == SubSeq(vec, k + 1, Len(vec))
             asked == {vec[i].of : i \in 1..k} \ {NONE}
             over == {m \in asked : msg[m].slot = 0}
  <1>4. \/ Disconnected(TRUE)
        \/ /\ msg_list' = left /\ iov_list' = iov
           /\ queries' = Without(dead)
           /\ msg' = DeletedIn(dead \cup over)
           /\ peer' = peer \cup {<<msg[m].slot, m>> : m \in asked \ over}
           /\ UNCHANGED <<nextslot, inbox, wrong>>
    BY <1>3 DEF WriteVec
  <1>5. CASE Disconnected(TRUE)
    BY <1>5, DisconnectNext
  <1>6. CASE /\ msg_list' = left /\ iov_list' = iov
             /\ queries' = Without(dead)
             /\ msg' = DeletedIn(dead \cup over)
             /\ peer' = peer \cup {<<msg[m].slot, m>> : m \in asked \ over}
             /\ UNCHANGED <<nextslot, inbox, wrong>>
    <2>1. /\ msg_list \in Seq(Items) /\ Once(msg_list) /\ iov_list \in Seq(Items)
          /\ Once(iov_list) /\ QueriesOf(msg_list) \cap QueriesOf(iov_list) = {}
      BY DEF IcInv, IcTypeOK, ListInv
    <2>2. 1..n \subseteq DOMAIN msg_list
      BY <2>1
    <2>3. /\ left \in Seq(Items) /\ Once(left) /\ QueriesOf(left) \subseteq QueriesOf(msg_list)
          /\ \A i \in 1..n : msg_list[i].of \notin QueriesOf(left)
      BY <2>1, Suffix
    <2>4. K \subseteq DOMAIN msg_list /\ K \subseteq 1..n /\ K \cap L = {}
      BY <2>2
    <2>5. L \subseteq DOMAIN msg_list /\ L \subseteq 1..n /\ \A i \in L : IsDead(msg_list[i])
      BY <2>2
    <2> HIDE DEF K, L, left
    <2>6. /\ taken \in Seq(Items) /\ Once(taken)
          /\ \A m \in QueriesOf(taken) : m # NONE /\ \E i \in K : msg_list[i].of = m
      BY <1>2, <2>1, <2>4, KeptOK
    <2>7. /\ QueriesOf(taken) \subseteq QueriesOf(msg_list)
          /\ QueriesOf(taken) \cap QueriesOf(left) = {}
      <3>1. ASSUME NEW m \in QueriesOf(taken)
            PROVE  m \in QueriesOf(msg_list) /\ m \notin QueriesOf(left)
        <4>1. PICK i \in K : msg_list[i].of = m
          BY <2>6
        <4>2. m # NONE /\ i \in DOMAIN msg_list /\ i \in 1..n
          BY <2>4, <2>6
        <4>3. QED
          BY <2>1, <2>3, <4>1, <4>2, ItemOf
      <3>2. QED
        BY <3>1
    <2>8. ASSUME NEW m \in dead
          PROVE  /\ m \in Msgs /\ m \in QueriesOf(msg_list) /\ m \notin QueriesOf(left)
                 /\ m \notin QueriesOf(taken) /\ msg[m].state = "live" /\ msg[m].canceled
      <3>1. PICK i \in L : m = msg_list[i].of
        BY <2>8
      <3>2. msg_list[i].kind = "query" /\ msg[m].canceled
        BY <2>5, <3>1 DEF IsDead
      <3>3. m # NONE /\ m \in QueriesOf(msg_list) /\ m \in Msgs
        BY <2>1, <2>5, <3>1, <3>2, ItemOf, Known
      <3>4. m \notin QueriesOf(left)
        BY <2>3, <2>5, <3>1
      <3>5. m \notin QueriesOf(taken)
        <4>1. SUFFICES ASSUME NEW j \in K, msg_list[j].of = m PROVE FALSE
          BY <2>6
        <4>2. i = j
          BY <2>1, <2>4, <2>5, <3>1, <3>3, <4>1 DEF Once
        <4>3. QED
          BY <2>4, <4>2
      <3>6. QED
        BY <3>2, <3>3, <3>4, <3>5 DEF IcInv, ListInv
    <2> HIDE DEF dead
    <2>9. /\ vec \in Seq(Items) /\ Once(vec) /\ Len(vec) = Len(iov_list) + Len(taken)
          /\ QueriesOf(vec) \subseteq QueriesOf(iov_list) \cup QueriesOf(taken)
      <3>1. QueriesOf(iov_list) \cap QueriesOf(taken) = {}
        BY <2>1, <2>7
      <3>2. QED
        BY <2>1, <2>6, <3>1, Joined
    <2> HIDE DEF vec
    <2>10. QueriesOf(vec) \cap QueriesOf(left) = {}
      BY <2>1, <2>3, <2>7, <2>9
    <2>11. dead \cap QueriesOf(vec) = {}
      BY <2>1, <2>8, <2>9
    <2>12. k \in 0..Len(vec)
      BY <1>3, <2>9
    <2>13. /\ iov \in Seq(Items) /\ Once(iov) /\ QueriesOf(iov) \subseteq QueriesOf(vec)
           /\ \A i \in 1..k : vec[i].of \notin QueriesOf(iov)
      BY <2>9, <2>12, Suffix
    <2> HIDE DEF iov
    <2>14. asked \subseteq QueriesOf(vec) /\ asked \cap QueriesOf(iov) = {}
      <3>1. 1..k \subseteq DOMAIN vec
        BY <2>9, <2>12
      <3>2. QED
        BY <2>13, <3>1 DEF QueriesOf
    <2> HIDE DEF asked
    <2>15. \A m \in QueriesOf(vec) : m \in Msgs /\ msg[m].state = "live"
      BY <2>7, <2>9, Known DEF IcInv, ListInv
    <2>16. over \subseteq asked /\ \A m \in over : msg[m].slot = 0
      OBVIOUS
    <2>17. \A m \in asked \ over : m \in asked /\ msg[m].slot # 0
      OBVIOUS
    <2> HIDE DEF over
    <2> DEFINE D == dead \cup over
    <2>18. ASSUME NEW m \in D
           PROVE  /\ m \in Msgs /\ msg[m].state = "live" /\ (msg[m].canceled \/ msg[m].slot = 0)
                  /\ m \in QueriesOf(msg_list) \cup QueriesOf(iov_list)
                  /\ m \notin QueriesOf(left) /\ m \notin QueriesOf(iov)
      <3>1. CASE m \in dead
        BY <2>8, <2>11, <2>13, <3>1
      <3>2. CASE m \in over
        BY <2>7, <2>9, <2>10, <2>14, <2>15, <2>16, <3>2
      <3>3. QED
        BY <3>1, <3>2
    <2>19. msg \in [Msgs -> MsgRec] /\ queries \in [Slots -> Msgs \cup {NONE}]
      BY DEF IcInv, IcTypeOK
    <2>20. Removes(D)
      <3>1. msg' = [m \in Msgs |-> IF m \in D THEN Deleted(msg[m]) ELSE msg[m]]
        BY <1>6 DEF DeletedIn
      <3>2. \A s \in Slots : queries[s] \notin over
        <4>1. ASSUME NEW s \in Slots, queries[s] \in over PROVE FALSE
          <5>1. queries[s] # NONE
            BY <2>14, <2>15, <2>16, <4>1, Known
          <5>2. msg[queries[s]].slot = s
            BY <5>1 DEF IcInv, SlotInv
          <5>3. QED
            BY <2>16, <4>1, <5>2, Known
        <4>2. QED
          BY <4>1
      <3>3. \A s \in Slots : queries[s] \in D <=> queries[s] \in dead
        BY <3>2
      <3>4. /\ queries' \in [Slots -> Msgs \cup {NONE}]
            /\ \A s \in Slots : queries'[s] = IF queries[s] \in D THEN NONE ELSE queries[s]
        BY <1>6, <2>19, <3>3 DEF Without
      <3> HIDE DEF D
      <3>5. ASSUME NEW m \in D
            PROVE  msg'[m] \in MsgRec /\ Settled(msg'[m]) /\ msg'[m].state = "freed"
        BY <2>18, <3>1, Known, DeletedOK
      <3>6. \A m \in Msgs \ D : msg'[m] = msg[m]
        BY <3>1
      <3>7. msg' \in [Msgs -> MsgRec] /\ \A m \in Msgs : Settled(msg'[m])
        BY <2>19, <3>1, <3>5, <3>6, Known
      <3>8. D \subseteq Msgs
        BY <2>18
      <3>9. QED
        BY <3>4, <3>5, <3>6, <3>7, <3>8 DEF Removes
    <2> HIDE DEF D
    <2>21. MsgInv' /\ SlotInv'
      BY <2>20, SlotsKept
    <2>22. ASSUME NEW m \in asked \ over
           PROVE  /\ m \in Msgs /\ m \notin D /\ msg[m].slot \in Slots
                  /\ queries[msg[m].slot] = m /\ m \notin QueriesOf(left)
                  /\ m \notin QueriesOf(iov)
      <3>1. m \in QueriesOf(vec) /\ m \in Msgs /\ msg[m].state = "live" /\ msg[m].slot # 0
        BY <2>14, <2>15, <2>17
      <3>2. m \notin D
        BY <2>11, <3>1 DEF D
      <3>3. msg[m].slot \in Slots /\ queries[msg[m].slot] = m
        BY <3>1 DEF IcInv, SlotInv
      <3>4. QED
        BY <2>10, <2>14, <3>1, <3>2, <3>3
    <2>23. IcTypeOK'
      <3>1. peer' \in SUBSET (Slots \X Msgs)
        <4>1. peer \subseteq Slots \X Msgs
          BY DEF IcInv, IcTypeOK
        <4>2. \A m \in asked \ over : <<msg[m].slot, m>> \in Slots \X Msgs
          BY <2>22
        <4>3. QED
          BY <1>6, <4>1, <4>2
      <3>2. QED
        BY <1>6, <2>3, <2>13, <2>20, <3>1 DEF IcInv, IcTypeOK, Removes
    <2>24. ListInv'
      <3>1. Once(msg_list') /\ Once(iov_list')
            /\ QueriesOf(msg_list') \cap QueriesOf(iov_list') = {}
        BY <1>6, <2>3, <2>10, <2>13
      <3>2. ASSUME NEW m \in QueriesOf(msg_list') \cup QueriesOf(iov_list')
            PROVE  msg'[m].state = "live"
        <4>1. m \in Msgs /\ m \notin D /\ msg[m].state = "live"
          BY <1>6, <2>3, <2>13, <2>15, <2>18, Known DEF IcInv, ListInv
        <4>2. QED
          BY <2>20, <4>1 DEF Removes
      <3>3. QED
        BY <3>1, <3>2 DEF ListInv
    <2>25. PeerInv'
      <3>1. \A m \in QueriesOf(msg_list') \cup QueriesOf(iov_list') :
              m \in QueriesOf(msg_list) \cup QueriesOf(iov_list)
        BY <1>6, <2>3, <2>7, <2>9, <2>13
      <3>2. ASSUME NEW s, NEW m, Waits(s, m) PROVE Waits(s, m)' /\ m \notin asked
        <4>1. m \notin D /\ m \notin asked
          BY <2>7, <2>9, <2>14, <2>18, <3>2 DEF Waits
        <4>2. queries'[s] = m
          BY <2>20, <3>2, <4>1 DEF Removes, Waits
        <4>3. QED
          BY <3>1, <3>2, <4>1, <4>2 DEF Waits
      <3>3. ASSUME NEW m \in asked \ over, NEW s, s = msg[m].slot PROVE Waits(s, m)'
        <4>1. queries'[s] = m
          BY <2>20, <2>22, <3>3 DEF Removes
        <4>2. QED
          BY <1>6, <2>22, <3>3, <4>1 DEF Waits
      <3>4. ASSUME NEW p \in peer' PROVE Waits(p[1], p[2])'
        <4>1. CASE p \in peer
          BY <3>2, <4>1 DEF IcInv, PeerInv
        <4>2. CASE p \notin peer
          <5>1. PICK m \in asked \ over : p = <<msg[m].slot, m>>
            BY <1>6, <4>2
          <5>2. p[1] = msg[m].slot /\ p[2] = m
            BY <5>1
          <5>3. QED
            BY <3>3, <5>2
        <4>3. QED
          BY <4>1, <4>2
      <3>5. ASSUME NEW i \in AnswersIn(inbox')
            PROVE  /\ Waits(inbox[i].slot, inbox[i].of)'
                   /\ <<inbox'[i].slot, inbox'[i].of>> \notin peer'
        <4>1. PICK r, q : r = inbox'[i].slot /\ q = inbox'[i].of
          OBVIOUS
        <4>2. Waits(r, q) /\ <<r, q>> \notin peer
          BY <1>6, <4>1 DEF IcInv, PeerInv
        <4>3. Waits(r, q)' /\ q \notin asked
          BY <3>2, <4>2
        <4>4. <<r, q>> \notin peer'
          BY <1>6, <4>2, <4>3
        <4>5. QED
          BY <4>1, <4>3, <4>4 DEF Waits
      <3>6. QED
        BY <1>6, <3>4, <3>5 DEF IcInv, PeerInv
    <2>26. QED
      BY <1>6, <2>21, <2>23, <2>24, <2>25 DEF IcInv
  <1>7. QED
    BY <1>4, <1>5, <1>6

-----------------------------------------------------------------------------
\* A channel starts with nothing queued.
LEMMA IcInit ==
  ASSUME IcConstants, Init
  PROVE  IcInv
  <1>1. msg = [m \in Msgs |-> [state |-> "new", kind |-> NONE, slot |-> 0,
                               canceled |-> FALSE, timer |-> FALSE, cbs |-> 0]]
    BY DEF Init
  <1>2. \A m \in Msgs : msg[m] \in MsgRec /\ msg[m].state = "new" /\ msg[m].cbs = 0
    BY <1>1 DEF MsgRec
  <1>3. MsgInv
    BY <1>2 DEF MsgInv, Settled
  <1>4. IcTypeOK
    <2>1. msg \in [Msgs -> MsgRec]
      BY <1>1, <1>2
    <2>2. queries \in [Slots -> Msgs \cup {NONE}] /\ nextslot \in 0..MaxSlot
      BY DEF Init, IcConstants
    <2>3. msg_list \in Seq(Items) /\ iov_list \in Seq(Items) /\ inbox \in Seq(Sent)
      BY DEF Init
    <2>4. peer \in SUBSET (Slots \X Msgs)
      BY DEF Init
    <2>5. QED
      BY <2>1, <2>2, <2>3, <2>4 DEF IcTypeOK
  <1>5. SlotInv
    BY <1>2 DEF Init, SlotInv
  <1>6. ListInv
    <2>1. msg_list = <<>> /\ iov_list = <<>>
      BY DEF Init
    <2>2. DOMAIN msg_list = {} /\ DOMAIN iov_list = {}
      BY <2>1
    <2>3. QED
      BY <2>2 DEF ListInv, Once, QueriesOf
  <1>7. PeerInv
    BY DEF Init, PeerInv, AnswersIn
  <1>8. QED
    BY <1>3, <1>4, <1>5, <1>6, <1>7 DEF IcInv, Init

\* Every step keeps the invariant.
LEMMA IcNext ==
  ASSUME IcConstants, IcInv, [Next]_vars
  PROVE  IcInv'
  <1>1. CASE UNCHANGED vars
    BY <1>1, ControlNext DEF vars, env
  <1>2. ASSUME NEW m \in Msgs, NEW k \in Kinds, __ic_query(m, k) PROVE IcInv'
    BY <1>2, QueryNext
  <1>3. ASSUME NEW m \in Msgs, ic_msg_cancel(m) \/ ic_msg_on_timeout(m) PROVE IcInv'
    BY <1>3, CancelNext, TimeoutNext
  <1>4. ASSUME NEW w \in work, __ic_reply(w) PROVE IcInv'
    BY <1>4, ControlNext DEF __ic_reply, ic_queue, env
  <1>5. CASE ic_bye
    BY <1>5, ControlNext DEF ic_bye, ic_sc_do, ic_queue, env
  <1>6. CASE ic_mark_connected
    <2>1. msg_list' = msg_list \/ msg_list' = Append(msg_list, Control("nop"))
      <3>1. Append(<<>>, Control("nop")) = <<Control("nop")>>
        OBVIOUS
      <3>2. QED
        BY <1>6, <3>1 DEF ic_mark_connected
    <2>2. QED
      BY <1>6, <2>1, ControlNext DEF ic_mark_connected, env
  <1>7. CASE ic_connect \/ ic_reconnect \/ EventStarts
    BY <1>7, ControlNext DEF ic_connect, ic_reconnect, EventStarts, env
  <1>8. CASE ic_disconnect \/ LinkFails \/ EventFails
    BY <1>8, DisconnectNext DEF ic_disconnect, LinkFails, EventFails
  <1>9. CASE ic_read_process_answer
    BY <1>9, AnswerNext
  <1>10. CASE ic_read_process_query
    <2>1. /\ inbox # <<>> /\ Head(inbox).kind # "answer" /\ inbox' = Tail(inbox)
          /\ UNCHANGED <<msg, queries, nextslot, iov_list, peer, wrong>>
      BY <1>10 DEF ic_read_process_query
    <2>2. msg_list' = msg_list \/ msg_list' = Append(msg_list, Control("reply"))
      BY <1>10 DEF ic_read_process_query, ic_queue
    <2>3. QED
      BY <2>1, <2>2, ControlNext
  <1>11. CASE ReadBye
    <2>1. /\ inbox # <<>> /\ Head(inbox).kind # "answer" /\ inbox' = Tail(inbox)
          /\ UNCHANGED <<msg, queries, nextslot, msg_list, iov_list, peer, wrong>>
      BY <1>11 DEF ReadBye
    <2>2. QED
      BY <2>1, ControlNext
  <1>12. CASE WriteInRead \/ ic_write
    BY <1>12, WriteNext DEF WriteInRead, ic_write
  <1>13. CASE ic_msg_filter_on_bye
    BY <1>13, FilterNext
  <1>14. ASSUME NEW p \in peer, PeerAnswers(p) PROVE IcInv'
    <2> DEFINE x == [kind |-> "answer", slot |-> p[1], of |-> p[2]]
    <2>1. /\ Sends(x) /\ peer' = peer \ {p}
          /\ UNCHANGED <<msg, queries, nextslot, msg_list, iov_list, wrong>>
      BY <1>14 DEF PeerAnswers
    <2>2. p \in Slots \X Msgs
      BY DEF IcInv, IcTypeOK
    <2>3. p = <<p[1], p[2]>> /\ p[1] \in Slots /\ p[2] \in Msgs
      BY <2>2
    <2>4. x \in Sent /\ x.slot = p[1] /\ x.of = p[2]
      BY <2>3 DEF Sent, Slots
    <2> HIDE DEF x
    <2>5. <<x.slot, x.of>> \in peer \ peer'
      BY <2>1, <2>3, <2>4
    <2>6. QED
      BY <2>1, <2>4, <2>5, SendsNext
  <1>15. ASSUME NEW r \in Remote, PeerAsks(r) PROVE IcInv'
    <2> DEFINE x == [kind |-> "query", slot |-> 0, of |-> r]
    <2>1. /\ Sends(x) /\ peer' = peer
          /\ UNCHANGED <<msg, queries, nextslot, msg_list, iov_list, wrong>>
      BY <1>15 DEF PeerAsks
    <2>2. x \in Sent /\ x.kind # "answer"
      BY DEF Sent
    <2> HIDE DEF x
    <2>3. QED
      BY <2>1, <2>2, SendsNext
  <1>16. CASE PeerBye
    <2> DEFINE x == [kind |-> "bye", slot |-> 0, of |-> NONE]
    <2>1. /\ Sends(x) /\ peer' = peer
          /\ UNCHANGED <<msg, queries, nextslot, msg_list, iov_list, wrong>>
      BY <1>16 DEF PeerBye
    <2>2. x \in Sent /\ x.kind # "answer"
      BY DEF Sent
    <2> HIDE DEF x
    <2>3. QED
      BY <2>1, <2>2, SendsNext
  <1>17. CASE PeerCloses
    BY <1>17, ControlNext DEF PeerCloses
  <1>18. QED
    BY <1>1, <1>2, <1>3, <1>4, <1>5, <1>6, <1>7, <1>8, <1>9, <1>10, <1>11, <1>12,
       <1>13, <1>14, <1>15, <1>16, <1>17 DEF Next, ic_read

\* The invariant of a channel.
THEOREM IcAlways == ASSUME IcConstants PROVE Spec => []IcInv
  <1>1. Init => IcInv
    BY IcInit
  <1>2. IcInv /\ [Next]_vars => IcInv'
    BY IcNext
  <1>3. QED
    BY <1>1, <1>2, PTL DEF Spec

\* The answer that ic_read_process_answer finds by its slot is given to the query
\* it answers, and no other, whatever was canceled, timed out or aborted before.
THEOREM AnswersMatch == ASSUME IcConstants PROVE Spec => []AnswerMatches
  <1>1. IcInv => AnswerMatches
    BY DEF IcInv, AnswerMatches
  <1>2. QED
    BY <1>1, IcAlways, PTL

\* The callback of a query is called once, and never again: when a query that is
\* not async is freed it has been called.
THEOREM CallbackOnce == ASSUME IcConstants PROVE Spec => []CalledOnce
  <1>1. ASSUME IcInv PROVE CalledOnce
    <2>1. SUFFICES ASSUME NEW m \in Msgs, NEW x, x = msg[m]
                   PROVE  /\ x.cbs <= 1
                          /\ (x.state = "freed" /\ ~x.kind.async) => x.cbs = 1
      BY DEF CalledOnce
    <2>2. x \in MsgRec /\ Settled(x)
      BY <1>1, <2>1, Known
    <2>3. x.cbs = 0 \/ x.cbs = 1
      <3>1. x.state \in {"new", "live", "freed"}
        BY <2>2 DEF MsgRec
      <3>2. CASE x.state = "new"
        BY <2>2, <3>2 DEF Settled
      <3>3. CASE x.state # "new"
        <4>1. x.kind.async \in BOOLEAN
          BY <2>2, <3>3 DEF Settled, IcConstants
        <4>2. QED
          BY <2>2, <3>1, <3>3, <4>1 DEF Settled
      <3>4. QED
        BY <3>2, <3>3
    <2>4. (x.state = "freed" /\ ~x.kind.async) => x.cbs = 1
      BY <2>2 DEF Settled
    <2>5. QED
      BY <2>3, <2>4
  <1>2. IcInv => CalledOnce
    BY <1>1
  <1>3. QED
    BY <1>2, IcAlways, PTL

=============================================================================
