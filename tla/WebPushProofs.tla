---------------------------- MODULE WebPushProofs ----------------------------
(* Theorems about WebPush for every number of connections and of updates,     *)
(* and every capacity of the channels.                                        *)
EXTENDS WebPush, SequenceTheorems, TLAPS

Served == {"list", "first", "read", "unsubscribe"}

\* The last list on its way to the page, or the page itself.
LastOf(k) == IF k.send # <<>> THEN k.send[Len(k.send)]
             ELSE IF k.writer = "write" THEN k.frame ELSE k.page

\* The last list offered is the last one on its way, but for the exceptions.
Flow(k) ==
  k.pc \in {"list", "first", "read"} /\ k.writer # "done" => k.excused \/ LastOf(k) = k.offered

\* A channel is closed after the subscription has ended, and the writer lives
\* from the first frame on.
Lives(k) ==
  /\ k.closed => k.pc = "join"
  /\ k.pc \in {"list", "first"} => k.writer = "none"

Past(k) == k.list <= changes /\ k.offered <= changes

\* A broadcast that will bring the newest list is under way.
Pending ==
  \E g \in Updaters : updater[g].pc = "list" \/ (updater[g].pc = "push" /\ updater[g].list = changes)

Fresh(k) ==
  /\ k.pc = "read" => k.offered = changes \/ Pending
  /\ k.pc = "first" => k.offered = changes \/ k.list = changes \/ Pending

Updates ==
  \A g \in Updaters : /\ updater[g].list <= changes
                      /\ updater[g].pc = "push" => updater[g].list \in List

Connections ==
  \A c \in Conns : /\ c \in wsSubs <=> conn[c].pc \in Served
                   /\ Lives(conn[c]) /\ Flow(conn[c]) /\ Past(conn[c]) /\ Fresh(conn[c])
                   /\ conn[c].pc = "first" => conn[c].list \in List
                   /\ conn[c].writer = "write" => conn[c].frame \in List

PushInv == PushTypeOK /\ Updates /\ Connections

-----------------------------------------------------------------------------

LEMMA InitPush == PushInit => PushInv
<1> SUFFICES ASSUME PushInit PROVE PushInv
  OBVIOUS
<1>1. NoConnection \in Conn /\ Len(NoConnection.send) = 0
  BY DEF NoConnection, Conn, List, NoList
<1>2. PushTypeOK
  BY <1>1, SendBufferAssumption, MaxChangesAssumption
  DEF PushInit, PushTypeOK, Updater, List, NoList
<1>3. Updates /\ Connections
  BY DEF PushInit, Updates, Connections, Lives, Flow, Past, Fresh, Served, NoConnection, NoList
<1> QED
  BY <1>2, <1>3 DEF PushInv

\* A list that is offered becomes the last one on its way, or the subscriber is
\* excused.
LEMMA OfferFlows ==
  ASSUME NEW k \in Conn, NEW list \in List, Len(k.send) <= SendBuffer
  PROVE  LET o == Offer(k, list)
         IN /\ o \in Conn /\ Len(o.send) <= SendBuffer
            /\ o.pc = k.pc /\ o.writer = k.writer /\ o.closed = k.closed /\ o.list = k.list
            /\ o.frame = k.frame
            /\ o.offered = IF list > k.offered THEN list ELSE k.offered
            /\ o.excused \/ LastOf(o) = o.offered
<1> DEFINE full == Len(k.send) >= SendBuffer
           o == Offer(k, list)
<1>1. /\ k.send \in Seq(List) /\ k.offered \in List \cup {NoList}
      /\ Append(k.send, list) \in Seq(List) /\ Append(k.send, list) # <<>>
      /\ Len(Append(k.send, list)) = Len(k.send) + 1
      /\ Append(k.send, list)[Len(k.send) + 1] = list
      /\ Len(k.send) \in Nat /\ list \in Nat /\ k.offered \in Nat
  BY DEF Conn, List, NoList
<1>2. /\ o.pc = k.pc /\ o.writer = k.writer /\ o.closed = k.closed /\ o.list = k.list
      /\ o.frame = k.frame
      /\ o.send = IF full THEN k.send ELSE Append(k.send, list)
      /\ o.offered = IF list > k.offered THEN list ELSE k.offered
      /\ o.excused = (full \/ list < k.offered)
  BY DEF Offer, Conn
<1>3. o \in Conn
  <2> DEFINE send == IF full THEN k.send ELSE Append(k.send, list)
             offered == IF list > k.offered THEN list ELSE k.offered
             excused == full \/ list < k.offered
  <2>1. send \in Seq(List) /\ offered \in List \cup {NoList} /\ excused \in BOOLEAN
    BY <1>1
  <2>2. o = [k EXCEPT !.send = send, !.offered = offered, !.excused = excused]
    BY DEF Offer
  <2> HIDE DEF send, offered, excused, o
  <2> QED
    BY <2>1, <2>2 DEF Conn
<1>4. Len(o.send) <= SendBuffer
  BY <1>1, <1>2, SendBufferAssumption
<1>5. o.excused \/ LastOf(o) = o.offered
  <2>1. CASE full \/ list < k.offered
    BY <1>2, <2>1
  <2>2. CASE ~full /\ ~(list < k.offered)
    <3>1. o.offered = list
      BY <1>1, <1>2, <2>2
    <3>2. LastOf(o) = list
      BY <1>1, <1>2, <2>2 DEF LastOf
    <3> QED
      BY <3>1, <3>2
  <2> QED
    BY <2>1, <2>2
<1> QED
  BY <1>2, <1>3, <1>4, <1>5

-----------------------------------------------------------------------------
(* The steps of the goroutines that change the store.                        *)

LEMMA NotifyStep ==
  ASSUME PushInv, NEW g \in Updaters, Notify(g)
  PROVE  PushInv'
<1>1. /\ changes \in List /\ changes' \in List /\ changes <= changes'
      /\ updater' = [updater EXCEPT ![g].pc = "list"]
      /\ UNCHANGED <<conn, wsSubs>>
  BY DEF Notify, PushInv, PushTypeOK, List
<1>2. PushTypeOK'
  BY <1>1 DEF PushInv, PushTypeOK, Updater
<1>3. Pending'
  BY <1>1 DEF Pending, PushInv, PushTypeOK
<1>4. Updates'
  BY <1>1 DEF PushInv, PushTypeOK, Updates, Updater, List, NoList
<1>5. Connections'
  <2> SUFFICES ASSUME NEW c \in Conns
               PROVE  /\ c \in wsSubs' <=> conn'[c].pc \in Served
                      /\ Lives(conn[c])' /\ Flow(conn[c])' /\ Past(conn[c])' /\ Fresh(conn[c])'
                      /\ conn'[c].pc = "first" => conn'[c].list \in List
                      /\ conn'[c].writer = "write" => conn'[c].frame \in List
    BY DEF Connections
  <2>1. Fresh(conn[c])'
    BY <1>3 DEF Fresh
  <2>2. Past(conn[c])'
    BY <1>1 DEF Past, PushInv, PushTypeOK, Connections, Conn, List, NoList
  <2> QED
    BY <1>1, <2>1, <2>2 DEF PushInv, Connections, Lives, Flow, LastOf
<1> QED
  BY <1>2, <1>4, <1>5 DEF PushInv

LEMMA ReadListStep ==
  ASSUME PushInv, NEW g \in Updaters, ReadList(g)
  PROVE  PushInv'
<1>1. /\ changes \in List
      /\ updater' = [updater EXCEPT ![g] = [pc |-> "push", list |-> changes]]
      /\ UNCHANGED <<changes, conn, wsSubs>>
  BY DEF ReadList, PushInv, PushTypeOK
<1>2. PushTypeOK'
  BY <1>1 DEF PushInv, PushTypeOK, Updater
<1>3. Pending'
  BY <1>1 DEF Pending, PushInv, PushTypeOK
<1>4. Updates'
  BY <1>1 DEF PushInv, PushTypeOK, Updates, List
<1>5. Connections'
  BY <1>1, <1>3 DEF PushInv, Connections, Lives, Flow, LastOf, Past, Fresh
<1> QED
  BY <1>2, <1>4, <1>5 DEF PushInv

LEMMA PushStep ==
  ASSUME PushInv, NEW g \in Updaters, Push(g)
  PROVE  PushInv'
<1> DEFINE list == updater[g].list
<1>1. /\ list \in List /\ list <= changes /\ changes \in List
      /\ updater' = [updater EXCEPT ![g] = [pc |-> "idle", list |-> NoList]]
      /\ conn' = [c \in Conns |-> IF c \in wsSubs THEN Offer(conn[c], list) ELSE conn[c]]
      /\ UNCHANGED <<changes, wsSubs>>
  BY DEF Push, PushInv, PushTypeOK, Updates
<1>2. \A c \in Conns : conn[c] \in Conn /\ Len(conn[c].send) <= SendBuffer
  BY DEF PushInv, PushTypeOK
<1>3. \A c \in Conns :
        LET o == Offer(conn[c], list)
        IN /\ o \in Conn /\ Len(o.send) <= SendBuffer
           /\ o.pc = conn[c].pc /\ o.writer = conn[c].writer /\ o.closed = conn[c].closed
           /\ o.list = conn[c].list /\ o.frame = conn[c].frame
           /\ o.offered = IF list > conn[c].offered THEN list ELSE conn[c].offered
           /\ o.excused \/ LastOf(o) = o.offered
  BY <1>1, <1>2, OfferFlows
<1>4. PushTypeOK'
  BY <1>1, <1>2, <1>3 DEF PushInv, PushTypeOK, Updater
<1>5. Updates'
  BY <1>1 DEF PushInv, PushTypeOK, Updates, List, NoList
<1>6. Pending /\ ~(list = changes) => Pending'
  BY <1>1 DEF Pending, Push
<1>7. ASSUME NEW c \in Conns
      PROVE  /\ c \in wsSubs' <=> conn'[c].pc \in Served
             /\ Lives(conn[c])' /\ Flow(conn[c])' /\ Past(conn[c])'
             /\ conn'[c].pc = "first" => conn'[c].list \in List
             /\ conn'[c].writer = "write" => conn'[c].frame \in List
  <2> USE DEF PushInv, Connections
  <2>1. CASE c \in wsSubs
    <3>1. conn'[c] = Offer(conn[c], list)
      BY <1>1, <2>1
    <3>2. Past(conn[c])'
      BY <1>1, <1>2, <1>3, <3>1 DEF Past, Conn, List, NoList
    <3> QED
      BY <1>1, <1>3, <3>1, <3>2 DEF Lives, Flow, LastOf
  <2>2. CASE c \notin wsSubs
    <3>1. conn'[c] = conn[c]
      BY <1>1, <2>2
    <3> QED
      BY <1>1, <3>1 DEF Past, Lives, Flow, LastOf
  <2> QED
    BY <2>1, <2>2
<1>8. ASSUME NEW c \in Conns
      PROVE  Fresh(conn[c])'
  <2>1. CASE conn'[c].pc \in {"read", "first"}
    <3>1. c \in wsSubs /\ conn'[c] = Offer(conn[c], list)
      BY <1>1, <1>7, <2>1 DEF Served
    <3>2. conn[c].offered <= changes /\ conn[c].offered \in Nat /\ list \in Nat /\ changes \in Nat
      BY <1>1, <1>2 DEF PushInv, Connections, Past, Conn, List, NoList
    <3>3. /\ list = changes => conn'[c].offered = changes
          /\ conn[c].offered = changes => conn'[c].offered = changes
          /\ conn'[c].pc = conn[c].pc /\ conn'[c].list = conn[c].list
      BY <1>1, <1>3, <3>1, <3>2
    <3>4. Fresh(conn[c])
      BY DEF PushInv, Connections
    <3> QED
      BY <1>1, <1>6, <3>3, <3>4 DEF Fresh
  <2>2. CASE conn'[c].pc \notin {"read", "first"}
    BY <2>2 DEF Fresh
  <2> QED
    BY <2>1, <2>2
<1>9. Connections'
  BY <1>7, <1>8 DEF Connections
<1> QED
  BY <1>4, <1>5, <1>9 DEF PushInv

-----------------------------------------------------------------------------
(* The steps of one connection.                                              *)

Proper(q, served) ==
  /\ q \in Conn /\ Len(q.send) <= SendBuffer
  /\ served <=> q.pc \in Served
  /\ Lives(q) /\ Flow(q) /\ Past(q) /\ Fresh(q)
  /\ q.pc = "first" => q.list \in List
  /\ q.writer = "write" => q.frame \in List

\* A step that leaves its own connection proper leaves them all proper.
LEMMA ConnStep ==
  ASSUME PushInv, NEW c \in Conns, NEW q, UNCHANGED <<changes, updater>>,
         conn' = [conn EXCEPT ![c] = q], Proper(q, c \in wsSubs'),
         wsSubs' \in {wsSubs, wsSubs \cup {c}, wsSubs \ {c}}
  PROVE  PushInv'
<1>1. /\ conn' \in [Conns -> Conn]
      /\ \A i \in Conns : conn'[i] = IF i = c THEN q ELSE conn[i]
      /\ \A i \in Conns \ {c} : i \in wsSubs' <=> i \in wsSubs
      /\ wsSubs' \subseteq Conns
  BY DEF PushInv, PushTypeOK, Proper
<1>2. PushTypeOK'
  BY <1>1 DEF PushInv, PushTypeOK, Proper
<1>3. Updates'
  BY DEF PushInv, Updates
<1>4. \A k : /\ Fresh(k) => (k.pc = "read" => k.offered = changes' \/ Pending')
             /\ Fresh(k) => (k.pc = "first" => k.offered = changes' \/ k.list = changes' \/ Pending')
  BY DEF Fresh, Pending
<1>5. ASSUME NEW i \in Conns
      PROVE  /\ i \in wsSubs' <=> conn'[i].pc \in Served
             /\ Lives(conn[i])' /\ Flow(conn[i])' /\ Past(conn[i])' /\ Fresh(conn[i])'
             /\ conn'[i].pc = "first" => conn'[i].list \in List
             /\ conn'[i].writer = "write" => conn'[i].frame \in List
  <2>1. CASE i = c
    BY <1>1, <1>4, <2>1 DEF Proper, Lives, Flow, LastOf, Past, Fresh
  <2>2. CASE i # c
    BY <1>1, <1>4, <2>2 DEF PushInv, Connections, Lives, Flow, LastOf, Past, Fresh
  <2> QED
    BY <2>1, <2>2
<1>6. Connections'
  BY <1>5 DEF Connections
<1> QED
  BY <1>2, <1>3, <1>6 DEF PushInv

\* What the invariant says of one connection.
LEMMA ConnFacts ==
  ASSUME PushInv, NEW c \in Conns
  PROVE  /\ Proper(conn[c], c \in wsSubs)
         /\ conn \in [Conns -> Conn] /\ changes \in List /\ changes \in Nat
         /\ conn[c].offered \in Nat /\ conn[c].list \in Nat
BY DEF PushInv, PushTypeOK, Connections, Proper, Conn, List, NoList

LEMMA SubscribeStep ==
  ASSUME PushInv, NEW c \in Conns, Subscribe(c)
  PROVE  PushInv'
<1> DEFINE q == [NoConnection EXCEPT !.pc = "list", !.open = TRUE]
<1>1. changes \in Nat
  BY ConnFacts
<1>2. q \in Conn /\ Len(q.send) = 0
  <2>1. NoConnection \in Conn /\ Len(NoConnection.send) = 0
    BY DEF NoConnection, Conn, List, NoList
  <2> QED
    BY <2>1 DEF Conn
<1>3. Lives(q) /\ Flow(q) /\ Past(q) /\ Fresh(q) /\ q.pc = "list" /\ q.writer = "none"
  BY <1>1 DEF NoConnection, NoList, Lives, Flow, LastOf, Past, Fresh
<1>4. Proper(q, c \in wsSubs')
  BY <1>2, <1>3, SendBufferAssumption DEF Proper, Served, Subscribe
<1> QED
  BY <1>4, ConnStep DEF Subscribe

LEMMA ReadFirstStep ==
  ASSUME PushInv, NEW c \in Conns, ReadFirstList(c)
  PROVE  PushInv'
<1> DEFINE q == [conn[c] EXCEPT !.pc = "first", !.list = changes]
<1>1. Proper(conn[c], c \in wsSubs) /\ changes \in List /\ changes \in Nat /\ conn[c].pc = "list"
  BY ConnFacts DEF ReadFirstList
<1>2. q \in Conn /\ q.pc = "first" /\ q.list = changes
  BY <1>1 DEF Proper, Conn
<1>3. Proper(q, c \in wsSubs')
  BY <1>1, <1>2 DEF Proper, Conn, Served, Lives, Flow, LastOf, Past, Fresh, ReadFirstList
<1>4. conn' = [conn EXCEPT ![c] = q]
  BY DEF ReadFirstList
<1> QED
  BY <1>3, <1>4, ConnStep DEF ReadFirstList

\* The first frame brings the newest list, unless a broadcast has done so or
\* will do so.
LEMMA SendFirstStep ==
  ASSUME PushInv, NEW c \in Conns, SendFirst(c)
  PROVE  PushInv'
<1> DEFINE k == conn[c]
           o == Offer(k, k.list)
           q == [o EXCEPT !.pc = "read", !.list = NoList, !.writer = "wait"]
<1>1. /\ Proper(k, c \in wsSubs) /\ changes \in List /\ changes \in Nat
      /\ k.pc = "first" /\ k.writer = "none" /\ k.list \in List
      /\ k.list <= changes /\ k.offered <= changes /\ k.offered \in Nat /\ k.list \in Nat
      /\ k.offered = changes \/ k.list = changes \/ Pending
  BY ConnFacts DEF SendFirst, Proper, Lives, Past, Fresh
<1>2. /\ o \in Conn /\ Len(o.send) <= SendBuffer
      /\ o.writer = "none" /\ o.closed = k.closed /\ o.pc = "first"
      /\ o.offered = IF k.list > k.offered THEN k.list ELSE k.offered
      /\ o.excused \/ LastOf(o) = o.offered
  BY <1>1, OfferFlows DEF Proper
<1> HIDE DEF o
<1>3. /\ q \in Conn /\ q.pc = "read" /\ q.writer = "wait" /\ q.closed = o.closed
      /\ q.send = o.send /\ q.offered = o.offered /\ q.excused = o.excused
      /\ q.list = NoList /\ q.page = o.page
  BY <1>2 DEF Conn
<1>4. LastOf(q) = LastOf(o)
  BY <1>2, <1>3 DEF LastOf
<1>5. q.offered <= changes /\ (q.offered = changes \/ Pending)
  BY <1>1, <1>2, <1>3
<1>6. Lives(q) /\ Flow(q) /\ Past(q) /\ Fresh(q)
  BY <1>1, <1>2, <1>3, <1>4, <1>5 DEF Proper, Lives, Flow, Past, Fresh, NoList
<1>7. Proper(q, c \in wsSubs')
  BY <1>1, <1>2, <1>3, <1>6 DEF Proper, Served, SendFirst
<1>8. conn' = [conn EXCEPT ![c] = q]
  BY DEF SendFirst, o
<1> HIDE DEF q
<1> QED
  BY <1>7, <1>8, ConnStep DEF SendFirst

\* The handler goes on, the writer and the channel stay.
LEMMA HandlerStep ==
  ASSUME PushInv, NEW c \in Conns, ReadFails(c) \/ Unsubscribe(c) \/ CloseSend(c) \/ Join(c)
  PROVE  PushInv'
<1>1. Proper(conn[c], c \in wsSubs) /\ conn \in [Conns -> Conn] /\ changes \in Nat
  BY ConnFacts
<1>2. CASE ReadFails(c)
  <2> DEFINE q == [conn[c] EXCEPT !.pc = "unsubscribe"]
  <2>1. Proper(q, c \in wsSubs')
    BY <1>1, <1>2 DEF ReadFails, Proper, Conn, Served, Lives, Flow, Past, Fresh
  <2>2. conn' = [conn EXCEPT ![c] = q]
    BY <1>2 DEF ReadFails
  <2> QED
    BY <1>2, <2>1, <2>2, ConnStep DEF ReadFails
<1>3. CASE Unsubscribe(c)
  <2> DEFINE q == [conn[c] EXCEPT !.pc = "close"]
  <2>1. Proper(q, c \in wsSubs')
    BY <1>1, <1>3 DEF Unsubscribe, Proper, Conn, Served, Lives, Flow, Past, Fresh
  <2>2. conn' = [conn EXCEPT ![c] = q]
    BY <1>3 DEF Unsubscribe
  <2> QED
    BY <1>3, <2>1, <2>2, ConnStep DEF Unsubscribe
<1>4. CASE CloseSend(c)
  <2> DEFINE q == [conn[c] EXCEPT !.pc = "join", !.closed = TRUE]
  <2>1. Proper(q, c \in wsSubs')
    BY <1>1, <1>4 DEF CloseSend, Proper, Conn, Served, Lives, Flow, Past, Fresh
  <2>2. conn' = [conn EXCEPT ![c] = q]
    BY <1>4 DEF CloseSend
  <2> QED
    BY <1>4, <2>1, <2>2, ConnStep DEF CloseSend
<1>5. CASE Join(c)
  <2>1. NoConnection \in Conn /\ Len(NoConnection.send) = 0
    BY DEF NoConnection, Conn, List, NoList
  <2>2. c \notin wsSubs
    BY <1>1, <1>5 DEF Join, Proper, Served
  <2>3. Lives(NoConnection) /\ Flow(NoConnection) /\ Past(NoConnection) /\ Fresh(NoConnection)
    BY <1>1 DEF NoConnection, NoList, Lives, Flow, Past, Fresh
  <2>4. NoConnection.pc = "idle" /\ NoConnection.writer = "none"
    BY DEF NoConnection
  <2>5. Proper(NoConnection, c \in wsSubs')
    BY <1>5, <2>1, <2>2, <2>3, <2>4, SendBufferAssumption DEF Join, Proper, Served
  <2> QED
    BY <1>5, <2>5, ConnStep DEF Join
<1> QED
  BY <1>2, <1>3, <1>4, <1>5

\* The writer takes over a list and writes it: what is last on its way stays so.
LEMMA ReceiveStep ==
  ASSUME PushInv, NEW c \in Conns, Receive(c)
  PROVE  PushInv'
<1> DEFINE k == conn[c]
           q == [k EXCEPT !.writer = "write", !.frame = Head(k.send), !.send = Tail(k.send)]
<1>1. Proper(k, c \in wsSubs) /\ k.writer = "wait" /\ k.send # <<>> /\ k.send \in Seq(List)
  BY ConnFacts DEF Receive, Proper, Conn
<1>2. /\ Head(k.send) \in List /\ Tail(k.send) \in Seq(List)
      /\ Len(Tail(k.send)) = Len(k.send) - 1 /\ Len(k.send) \in Nat
      /\ Tail(k.send) = <<>> => Head(k.send) = k.send[Len(k.send)]
      /\ Tail(k.send) # <<>> => Tail(k.send)[Len(Tail(k.send))] = k.send[Len(k.send)]
  <2> DEFINE s == k.send
  <2>1. s \in Seq(List) /\ s # <<>>
    BY <1>1
  <2> HIDE DEF s
  <2>1a. /\ Head(s) \in List /\ Tail(s) \in Seq(List) /\ Len(s) \in Nat
        /\ Len(Tail(s)) = Len(s) - 1
        /\ \A i \in 1 .. Len(Tail(s)) : Tail(s)[i] = s[i + 1]
    BY ONLY <2>1, HeadTailProperties, LenProperties
  <2>1b. Head(s) = s[1]
    BY ONLY <2>1
  <2>1c. Tail(s) = <<>> <=> Len(Tail(s)) = 0
    BY ONLY <2>1a, EmptySeq
  <2>2. /\ Head(s) \in List /\ Tail(s) \in Seq(List) /\ Len(s) \in Nat /\ Head(s) = s[1]
        /\ Len(Tail(s)) = Len(s) - 1 /\ (Tail(s) = <<>> <=> Len(Tail(s)) = 0)
        /\ \A i \in 1 .. Len(Tail(s)) : Tail(s)[i] = s[i + 1]
    BY <2>1a, <2>1b, <2>1c
  <2>3. Tail(s) # <<>> => Tail(s)[Len(Tail(s))] = s[Len(s)]
    <3>1. Tail(s) # <<>> => Len(s) - 1 \in 1 .. Len(s) - 1 /\ (Len(s) - 1) + 1 = Len(s)
      BY <2>2
    <3> QED
      BY <2>2, <3>1
  <2>4. Tail(s) = <<>> => Head(s) = s[Len(s)]
    BY <2>2
  <2> QED
    BY <2>2, <2>3, <2>4 DEF s
<1>3. /\ q \in Conn /\ q.pc = k.pc /\ q.closed = k.closed /\ q.list = k.list
      /\ q.offered = k.offered /\ q.excused = k.excused
      /\ q.writer = "write" /\ q.frame = Head(k.send) /\ q.send = Tail(k.send)
  BY <1>1, <1>2 DEF Proper, Conn
<1>4. LastOf(q) = LastOf(k)
  BY <1>1, <1>2, <1>3 DEF LastOf
<1>5. Len(q.send) <= SendBuffer
  BY <1>1, <1>2, <1>3, SendBufferAssumption DEF Proper
<1>6. Proper(q, c \in wsSubs')
  BY <1>1, <1>2, <1>3, <1>4, <1>5 DEF Proper, Lives, Flow, Past, Fresh, Receive
<1>7. conn' = [conn EXCEPT ![c] = q]
  BY DEF Receive
<1> HIDE DEF q
<1> QED
  BY <1>6, <1>7, ConnStep DEF Receive

LEMMA WriterStep ==
  ASSUME PushInv, NEW c \in Conns,
         WriteMessage(c) \/ WriteFails(c) \/ ReceiveClosed(c) \/ Hangup(c)
  PROVE  PushInv'
<1> DEFINE k == conn[c]
<1>1. Proper(k, c \in wsSubs)
  BY ConnFacts
<1>2. CASE WriteMessage(c)
  <2> DEFINE q == [k EXCEPT !.writer = "wait", !.page = k.frame, !.frame = NoList]
  <2>1. /\ q \in Conn /\ q.pc = k.pc /\ q.closed = k.closed /\ q.list = k.list
        /\ q.offered = k.offered /\ q.excused = k.excused /\ q.send = k.send
        /\ q.writer = "wait" /\ q.page = k.frame /\ k.writer = "write"
    BY <1>1, <1>2 DEF WriteMessage, Proper, Conn
  <2>2. LastOf(q) = LastOf(k)
    BY <2>1 DEF LastOf
  <2>3. Proper(q, c \in wsSubs')
    BY <1>1, <1>2, <2>1, <2>2 DEF WriteMessage, Proper, Lives, Flow, Past, Fresh
  <2>4. conn' = [conn EXCEPT ![c] = q]
    BY <1>2 DEF WriteMessage
  <2> HIDE DEF q
  <2> QED
    BY <1>2, <2>3, <2>4, ConnStep DEF WriteMessage
<1>3. CASE WriteFails(c)
  <2> DEFINE q == [k EXCEPT !.writer = "done", !.frame = NoList, !.open = FALSE]
  <2>1. /\ q \in Conn /\ q.pc = k.pc /\ q.closed = k.closed /\ q.list = k.list
        /\ q.offered = k.offered /\ q.send = k.send /\ q.writer = "done" /\ k.writer # "none"
    BY <1>1, <1>3 DEF WriteFails, Proper, Conn
  <2>2. Proper(q, c \in wsSubs')
    BY <1>1, <1>3, <2>1 DEF WriteFails, Proper, Lives, Flow, Past, Fresh
  <2>3. conn' = [conn EXCEPT ![c] = q]
    BY <1>3 DEF WriteFails
  <2> HIDE DEF q
  <2> QED
    BY <1>3, <2>2, <2>3, ConnStep DEF WriteFails
<1>4. CASE ReceiveClosed(c)
  <2> DEFINE q == [k EXCEPT !.writer = "done", !.open = FALSE]
  <2>1. /\ q \in Conn /\ q.pc = k.pc /\ q.closed = k.closed /\ q.list = k.list
        /\ q.offered = k.offered /\ q.send = k.send /\ q.writer = "done" /\ k.writer # "none"
    BY <1>1, <1>4 DEF ReceiveClosed, Proper, Conn
  <2>2. Proper(q, c \in wsSubs')
    BY <1>1, <1>4, <2>1 DEF ReceiveClosed, Proper, Lives, Flow, Past, Fresh
  <2>3. conn' = [conn EXCEPT ![c] = q]
    BY <1>4 DEF ReceiveClosed
  <2> HIDE DEF q
  <2> QED
    BY <1>4, <2>2, <2>3, ConnStep DEF ReceiveClosed
<1>5. CASE Hangup(c)
  <2> DEFINE q == [k EXCEPT !.open = FALSE]
  <2>1. /\ q \in Conn /\ q.pc = k.pc /\ q.closed = k.closed /\ q.list = k.list
        /\ q.offered = k.offered /\ q.excused = k.excused /\ q.send = k.send
        /\ q.writer = k.writer /\ q.frame = k.frame /\ q.page = k.page
    BY <1>1, <1>5 DEF Hangup, Proper, Conn
  <2>2. Proper(q, c \in wsSubs')
    BY <1>1, <1>5, <2>1 DEF Hangup, Proper, Lives, Flow, LastOf, Past, Fresh
  <2>3. conn' = [conn EXCEPT ![c] = q]
    BY <1>5 DEF Hangup
  <2> HIDE DEF q
  <2> QED
    BY <1>5, <2>2, <2>3, ConnStep DEF Hangup
<1> QED
  BY <1>2, <1>3, <1>4, <1>5

-----------------------------------------------------------------------------

LEMMA PushInvStep ==
  ASSUME PushInv, [PushNext]_pushVars
  PROVE  PushInv'
<1>1. CASE UNCHANGED pushVars
  BY <1>1 DEF pushVars, PushInv, PushTypeOK, Updates, Connections, Lives, Flow, LastOf, Past,
              Fresh, Pending
<1>2. ASSUME NEW g \in Updaters, Notify(g) \/ ReadList(g) \/ Push(g) PROVE PushInv'
  BY <1>2, NotifyStep, ReadListStep, PushStep
<1>3. ASSUME NEW c \in Conns,
             \/ Subscribe(c) \/ Hangup(c)
             \/ ReadFirstList(c) \/ SendFirst(c) \/ ReadFails(c)
             \/ Unsubscribe(c) \/ CloseSend(c) \/ Join(c)
             \/ Receive(c) \/ WriteMessage(c) \/ WriteFails(c) \/ ReceiveClosed(c)
      PROVE  PushInv'
  BY <1>3, SubscribeStep, ReadFirstStep, SendFirstStep, HandlerStep, ReceiveStep, WriterStep
<1> QED
  BY <1>1, <1>2, <1>3 DEF PushNext

LEMMA PushInvariant == PushSpec => []PushInv
<1>1. PushInv /\ [PushNext]_pushVars => PushInv'
  BY PushInvStep
<1> QED
  BY InitPush, <1>1, PTL DEF PushSpec

LEMMA ClosedIsLeft == PushInv => NoSendOnClosed
BY DEF PushInv, PushTypeOK, Connections, Lives, Served, NoSendOnClosed

\* Every state has its type; no channel outgrows its buffer (server.go:234).
THEOREM PushTypeCorrect == PushSpec => []PushTypeOK
<1>1. PushInv => PushTypeOK
  BY DEF PushInv
<1> QED
  BY PushInvariant, <1>1, PTL

\* No broadcast sends on a closed channel (server.go:283-288).
THEOREM ClosedChannelsAreLeftAlone == PushSpec => []NoSendOnClosed
BY PushInvariant, ClosedIsLeft, PTL

LEMMA RestingPages == PushInv => PageIsNewest
<1> SUFFICES ASSUME PushInv, NEW c \in Conns, AtRest(c)
             PROVE  conn[c].page = changes \/ conn[c].excused
  BY DEF PageIsNewest
<1>1. ~Pending
  BY DEF AtRest, Pending
<1>2. conn[c].offered = changes
  BY <1>1 DEF AtRest, PushInv, Connections, Fresh
<1>3. conn[c].excused \/ LastOf(conn[c]) = conn[c].offered
  BY DEF AtRest, PushInv, Connections, Flow
<1> QED
  BY <1>2, <1>3 DEF AtRest, LastOf

\* A page at rest shows the newest list, but for the two exceptions
\* (server.go:205-221, 240-246).
THEOREM PagesAreNewest == PushSpec => []PageIsNewest
BY PushInvariant, RestingPages, PTL
=============================================================================
