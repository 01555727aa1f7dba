------------------------------- MODULE WebPush -------------------------------
(* The live image list of internal/web/server.go: goroutines that change the  *)
(* store call broadcast, which offers the whole list to every subscriber      *)
(* without waiting; each WebSocket connection has a handler, a bounded        *)
(* channel and a goroutine that writes.  A list is the number of changes it   *)
(* contains.                                                                  *)
EXTENDS Naturals, Sequences

CONSTANTS Conns,       \* connections served at once
          Updaters,    \* goroutines that change the store
          SendBuffer,  \* capacity of wsClient.send: 16
          MaxChanges   \* bound: changes of the store

ASSUME SendBufferAssumption == SendBuffer \in Nat \ {0}
ASSUME MaxChangesAssumption == MaxChanges \in Nat \ {0}

VARIABLES
  changes,  \* changes of the store so far
  updater,  \* goroutine -> where it is in broadcast, and the list it has read
  conn,     \* connection -> its handler, its channel, its writer, its page
  wsSubs    \* Server.wsSubs

pushVars == <<changes, updater, conn, wsSubs>>

List == 1 .. MaxChanges
NoList == 0

Updater == [pc : {"idle", "list", "push"}, list : List \cup {NoList}]

\* pc: where handleWS is; writer: its goroutine, with frame in hand when writing.
\* Ghosts: offered is the newest list offered, excused says that the last one
\* was dropped, or older than one before it.
Conn == [pc : {"idle", "list", "first", "read", "unsubscribe", "close", "join"},
         list : List \cup {NoList}, send : Seq(List), closed : BOOLEAN,
         writer : {"none", "wait", "write", "done"}, frame : List \cup {NoList},
         open : BOOLEAN, page : List \cup {NoList},
         offered : List \cup {NoList}, excused : BOOLEAN]

NoConnection == [pc |-> "idle", list |-> NoList, send |-> <<>>, closed |-> FALSE,
                 writer |-> "none", frame |-> NoList, open |-> FALSE, page |-> NoList,
                 offered |-> NoList, excused |-> FALSE]

\* The state of the subscribers and of their channels has its type, and no
\* channel holds more than its capacity (server.go:234, the buffer of send).
PushTypeOK ==
  /\ changes \in List
  /\ updater \in [Updaters -> Updater]
  /\ conn \in [Conns -> Conn]
  /\ \A c \in Conns : Len(conn[c].send) <= SendBuffer
  /\ wsSubs \subseteq Conns

PushInit ==
  /\ changes = 1
  /\ updater = [g \in Updaters |-> [pc |-> "idle", list |-> NoList]]
  /\ conn = [c \in Conns |-> NoConnection]
  /\ wsSubs = {}

-----------------------------------------------------------------------------
(* broadcast.                                                                *)

\* Faulty variant of Notify: the list is read before the change is made.
NotifyEarly(g) ==
  /\ updater[g].pc = "idle"
  /\ changes' \in {changes, changes + 1} \cap List
  /\ updater' = [updater EXCEPT ![g] = [pc |-> "push", list |-> changes]]
  /\ UNCHANGED <<conn, wsSubs>>

\* Store.notify, after a change of the store, or a handler that pauses or
\* resumes the queue, which changes nothing in the list.
Notify(g) ==
  /\ updater[g].pc = "idle"
  /\ changes' \in {changes, changes + 1} \cap List
  /\ updater' = [updater EXCEPT ![g].pc = "list"]
  /\ UNCHANGED <<conn, wsSubs>>

\* The list is read before wsMu is taken.
ReadList(g) ==
  /\ updater[g].pc = "list"
  /\ updater' = [updater EXCEPT ![g] = [pc |-> "push", list |-> changes]]
  /\ UNCHANGED <<changes, conn, wsSubs>>

\* Faulty variant of Offer: a list is sent although the channel is full.
OfferAlways(k, list) ==
  [k EXCEPT !.send = Append(@, list), !.offered = IF list > @ THEN list ELSE @,
            !.excused = list < k.offered]

\* A subscriber is sent a list, or misses it when its channel is full.
Offer(k, list) ==
  LET full == Len(k.send) >= SendBuffer
  IN [k EXCEPT !.send = IF full THEN @ ELSE Append(@, list),
               !.offered = IF list > @ THEN list ELSE @,
               !.excused = full \/ list < k.offered]

\* Under wsMu, so in one step for all subscribers.
Push(g) ==
  /\ updater[g].pc = "push"
  /\ conn' = [c \in Conns |-> IF c \in wsSubs THEN Offer(conn[c], updater[g].list) ELSE conn[c]]
  /\ updater' = [updater EXCEPT ![g] = [pc |-> "idle", list |-> NoList]]
  /\ UNCHANGED <<changes, wsSubs>>

Broadcast(g) == ReadList(g) \/ Push(g)

-----------------------------------------------------------------------------
(* handleWS.                                                                 *)

\* The upgrade has succeeded: the client is registered before anything is sent.
Subscribe(c) ==
  /\ conn[c].pc = "idle"
  /\ conn' = [conn EXCEPT ![c] = [NoConnection EXCEPT !.pc = "list", !.open = TRUE]]
  /\ wsSubs' = wsSubs \cup {c}
  /\ UNCHANGED <<changes, updater>>

ReadFirstList(c) ==
  /\ conn[c].pc = "list"
  /\ conn' = [conn EXCEPT ![c].pc = "first", ![c].list = changes]
  /\ UNCHANGED <<changes, updater, wsSubs>>

\* A plain send: it waits for room, although nobody reads the channel yet.  The
\* writer is started after it.
SendFirst(c) ==
  /\ conn[c].pc = "first"
  /\ Len(conn[c].send) < SendBuffer
  /\ conn' = [conn EXCEPT ![c] = [Offer(@, @.list) EXCEPT !.pc = "read", !.list = NoList, !.writer = "wait"]]
  /\ UNCHANGED <<changes, updater, wsSubs>>

\* The read loop ends when the peer has gone or sends no pong in time.
ReadFails(c) ==
  /\ conn[c].pc = "read"
  /\ conn' = [conn EXCEPT ![c].pc = "unsubscribe"]
  /\ UNCHANGED <<changes, updater, wsSubs>>

\* Faulty variant of Unsubscribe: the channel is closed, the subscription stays.
UnsubscribeLate(c) ==
  /\ conn[c].pc = "unsubscribe"
  /\ conn' = [conn EXCEPT ![c].pc = "close", ![c].closed = TRUE]
  /\ UNCHANGED <<changes, updater, wsSubs>>

Unsubscribe(c) ==
  /\ conn[c].pc = "unsubscribe"
  /\ conn' = [conn EXCEPT ![c].pc = "close"]
  /\ wsSubs' = wsSubs \ {c}
  /\ UNCHANGED <<changes, updater>>

\* Faulty variant of CloseSend: the channel is never closed.
ForgetSend(c) ==
  /\ conn[c].pc = "close"
  /\ conn' = [conn EXCEPT ![c].pc = "join"]
  /\ UNCHANGED <<changes, updater, wsSubs>>

CloseSend(c) ==
  /\ conn[c].pc = "close"
  /\ conn' = [conn EXCEPT ![c].pc = "join", ![c].closed = TRUE]
  /\ UNCHANGED <<changes, updater, wsSubs>>

\* <-writeDone: the handler returns, and its place can be used again.
Join(c) ==
  /\ conn[c].pc = "join"
  /\ conn[c].writer = "done"
  /\ conn' = [conn EXCEPT ![c] = NoConnection]
  /\ UNCHANGED <<changes, updater, wsSubs>>

HandleWS(c) ==
  \/ ReadFirstList(c)
  \/ SendFirst(c)
  \/ ReadFails(c) /\ ~conn[c].open
  \/ Unsubscribe(c)
  \/ CloseSend(c)
  \/ Join(c)

-----------------------------------------------------------------------------
(* The write goroutine.                                                      *)

Receive(c) ==
  /\ conn[c].writer = "wait"
  /\ conn[c].send # <<>>
  /\ conn' = [conn EXCEPT ![c].writer = "write", ![c].frame = Head(conn[c].send),
                          ![c].send = Tail(@)]
  /\ UNCHANGED <<changes, updater, wsSubs>>

WriteMessage(c) ==
  /\ conn[c].writer = "write"
  /\ conn[c].open
  /\ conn' = [conn EXCEPT ![c].writer = "wait", ![c].page = conn[c].frame, ![c].frame = NoList]
  /\ UNCHANGED <<changes, updater, wsSubs>>

\* A frame or a ping cannot be written, or not within ten seconds.
WriteFails(c) ==
  /\ conn[c].writer \in {"wait", "write"}
  /\ conn' = [conn EXCEPT ![c].writer = "done", ![c].frame = NoList, ![c].open = FALSE]
  /\ UNCHANGED <<changes, updater, wsSubs>>

\* What is left in a closed channel is still received first.
ReceiveClosed(c) ==
  /\ conn[c].writer = "wait"
  /\ conn[c].send = <<>>
  /\ conn[c].closed
  /\ conn' = [conn EXCEPT ![c].writer = "done", ![c].open = FALSE]
  /\ UNCHANGED <<changes, updater, wsSubs>>

Write(c) ==
  \/ Receive(c)
  \/ WriteMessage(c)
  \/ WriteFails(c) /\ conn[c].writer = "write"
  \/ ReceiveClosed(c)

\* The browser goes away.
Hangup(c) ==
  /\ conn[c].open
  /\ conn' = [conn EXCEPT ![c].open = FALSE]
  /\ UNCHANGED <<changes, updater, wsSubs>>

-----------------------------------------------------------------------------

PushNext ==
  \/ \E g \in Updaters : Notify(g) \/ ReadList(g) \/ Push(g)
  \/ \E c \in Conns : \/ Subscribe(c) \/ Hangup(c)
                      \/ ReadFirstList(c) \/ SendFirst(c) \/ ReadFails(c)
                      \/ Unsubscribe(c) \/ CloseSend(c) \/ Join(c)
                      \/ Receive(c) \/ WriteMessage(c) \/ WriteFails(c) \/ ReceiveClosed(c)

PushSpec == /\ PushInit /\ [][PushNext]_pushVars
            /\ \A g \in Updaters : WF_pushVars(Broadcast(g))
            /\ \A c \in Conns : WF_pushVars(HandleWS(c)) /\ WF_pushVars(Write(c))

-----------------------------------------------------------------------------
(* Properties.                                                               *)

\* broadcast never sends on a closed channel, which would end the process: the
\* handler leaves wsSubs under the lock before it closes its channel
\* (server.go:289-292), whatever broadcast is under way.
NoSendOnClosed ==
  /\ \A c \in wsSubs : ~conn[c].closed
  /\ \A c \in Conns : conn[c].pc = "first" => ~conn[c].closed

AtRest(c) ==
  /\ conn[c].pc = "read"
  /\ conn[c].writer = "wait"
  /\ conn[c].send = <<>>
  /\ \A g \in Updaters : updater[g].pc = "idle"

\* Once everything that was sent is written, a page shows the newest list, also
\* when it was opened in the middle of a broadcast; the only exceptions are that
\* the last frame offered to it found the channel full, or was read before one
\* that it was sent earlier (server.go:206-221, 240-246).
PageIsNewest == \A c \in Conns : AtRest(c) => conn[c].page = changes \/ conn[c].excused

\* The handler waits in the send of the first frame.
Stuck(c) == conn[c].pc = "first" /\ Len(conn[c].send) >= SendBuffer

\* When a browser has gone, its handler and its writer end and the subscription
\* with them, however many broadcasts are under way (server.go:276-293), unless
\* the handler waits for room for its first frame.
GoneIsCleaned ==
  \A c \in Conns : (conn[c].pc # "idle" /\ ~conn[c].open) ~> (conn[c].pc = "idle" \/ Stuck(c))

\* A new subscriber is sent the list immediately (the comment at server.go:239).
FirstFrameIsSent == \A c \in Conns : conn[c].pc = "first" ~> conn[c].pc # "first"
=============================================================================
