------------------------------ MODULE PtpSession ------------------------------
(* The PTP/IP client of internal/canon (client.go, session.go, transport.go): *)
(* callers behind one mutex, the handshake of command and event channel, the  *)
(* reconnect loop, transactions with and without a data phase, packets that   *)
(* arrive after their transaction was given up, and the goroutine that drains *)
(* the event channel.  Packets carry the question they answer as their data.  *)
EXTENDS Naturals, Sequences

CONSTANTS Callers, Objects, Sockets,
          MaxAttempts,   \* maxAttempts of ensureConnected
          TxIDs,         \* number of transaction IDs: 2^32
          MaxAbandoned,  \* bound: transactions given up before a connection breaks
          NoConn, Nobody, Nothing

ASSUME AttemptsAssumption == MaxAttempts \in Nat \ {0}
ASSUME AbandonedAssumption == MaxAbandoned \in Nat
ASSUME TxIDsAssumption == TxIDs \in Nat /\ TxIDs > MaxAbandoned + 1
ASSUME SocketsAssumption == Sockets \subseteq Nat /\ NoConn \notin Sockets
ASSUME NobodyAssumption == Nobody \notin Callers

VARIABLES
  calling,    \* the callers inside an operation, waiting for c.mu or holding it
  cancelled,  \* the callers whose context is done
  holder,     \* who holds c.mu
  op,         \* the locals of the operation under way
  listenMode, \* Client.listenMode
  cmdConn,    \* Client.cmdConn
  evtConn,    \* Client.evtConn
  txID,       \* Client.txID
  open,       \* the sockets not closed on this side
  drainers,   \* the event channels that a drainEvents goroutine reads
  wire,       \* what the camera has sent, or will send, on the command channel
  alive,      \* the camera has not dropped the connection
  abandoned,  \* transactions given up on this connection
  steady      \* from now on the camera answers everything, in time

client == <<calling, cancelled, holder, listenMode>>
conns == <<cmdConn, evtConn, open>>
camera == <<wire, alive, abandoned, steady>>
vars == <<client, op, conns, txID, drainers, camera>>

Kinds == {"list", "folders", "download", "delete"}

\* The stages of connect, then those of the operations.
SessionStages == {"openSession", "remoteMode", "eventMode"}
LenientStages == {"storageIDs", "discover"}
StrictStages == {"enumerate", "object"}
Stages == SessionStages \cup LenientStages \cup StrictStages

Questions == SessionStages \cup {"storageIDs"} \cup Objects

\* dial to initEvent: connect; next: between two transactions; data and
\* response: in recvData and recvResponse; failed: a transaction has failed.
PC == {"idle", "dial", "initCommand", "dialEvent", "initEvent", "settle", "backoff",
       "next", "data", "response", "failed"}

\* todo: what this stage still has to ask; ask: what it is asking.
Op == [pc : PC, kind : Kinds \cup {"none"}, stage : Stages, todo : SUBSET Questions,
       ask : Questions \cup {Nothing}, buf : Seq(Questions), attempt : 0 .. MaxAttempts,
       cmd : Sockets \cup {NoConn}, evt : Sockets \cup {NoConn}]

Packet ==
  [kind : {"start", "data", "end"}, tx : 0 .. TxIDs - 1, about : Questions, ok : {TRUE}]
    \cup [kind : {"response", "ping"}, tx : 0 .. TxIDs - 1, about : {Nothing}, ok : BOOLEAN]

Idle == [pc |-> "idle", kind |-> "none", stage |-> "storageIDs", todo |-> {}, ask |-> Nothing,
         buf |-> <<>>, attempt |-> 0, cmd |-> NoConn, evt |-> NoConn]

TypeOK ==
  /\ calling \subseteq Callers
  /\ cancelled \subseteq Callers
  /\ holder \in Callers \cup {Nobody}
  /\ op \in Op
  /\ cmdConn \in Sockets \cup {NoConn}
  /\ evtConn \in Sockets \cup {NoConn}
  /\ txID \in 0 .. TxIDs - 1
  /\ open \subseteq Sockets
  /\ drainers \subseteq Sockets
  /\ wire \in Seq(Packet)
  /\ abandoned \in 0 .. MaxAbandoned
  /\ listenMode \in BOOLEAN
  /\ alive \in BOOLEAN
  /\ steady \in BOOLEAN

Init ==
  /\ calling = {}
  /\ cancelled = {}
  /\ holder = Nobody
  /\ op = Idle
  /\ listenMode \in BOOLEAN
  /\ cmdConn = NoConn
  /\ evtConn = NoConn
  /\ txID = 0
  /\ open = {}
  /\ drainers = {}
  /\ wire = <<>>
  /\ alive = FALSE
  /\ abandoned = 0
  /\ steady = FALSE

-----------------------------------------------------------------------------
(* The public operations: mutex, ensureConnected, work, return.              *)

\* Which operation it is matters only once it has the mutex.
Call(c) ==
  /\ c \notin calling
  /\ calling' = calling \cup {c}
  /\ cancelled' = cancelled \ {c}
  /\ UNCHANGED <<holder, listenMode, op, conns, txID, drainers, camera>>

Cancel(c) ==
  /\ c \in calling \ cancelled
  /\ cancelled' = cancelled \cup {c}
  /\ UNCHANGED <<calling, holder, listenMode, op, conns, txID, drainers, camera>>

Return ==
  /\ calling' = calling \ {holder}
  /\ cancelled' = cancelled \ {holder}
  /\ holder' = Nobody
  /\ op' = Idle
  /\ UNCHANGED listenMode

\* Where an operation of this kind goes once it is connected.
Begin(kind, o) ==
  IF kind \in {"list", "folders"}
  THEN [Idle EXCEPT !.pc = "next", !.kind = kind, !.stage = "storageIDs", !.todo = {"storageIDs"}]
  ELSE [Idle EXCEPT !.pc = "next", !.kind = kind, !.stage = "object", !.todo = {o}]

\* Lock is not aware of the context; ensureConnected looks at it only when
\* there is no connection.
Lock(c) ==
  /\ holder = Nobody
  /\ c \in calling
  /\ holder' = c
  /\ \E kind \in Kinds :
       IF cmdConn # NoConn
       THEN \E o \in Objects : op' = Begin(kind, o)
       ELSE op' = [Idle EXCEPT !.pc = "dial", !.kind = kind, !.attempt = 1]
  /\ UNCHANGED <<calling, cancelled, listenMode, conns, txID, drainers, camera>>

CloseConns ==
  /\ cmdConn' = NoConn
  /\ evtConn' = NoConn
  /\ open' = open \ {cmdConn, evtConn}
  /\ wire' = <<>>
  /\ alive' = FALSE
  /\ UNCHANGED <<abandoned, steady>>

-----------------------------------------------------------------------------
(* ensureConnected and connect: dialling, or accepting in listen mode.       *)

\* The lowest socket that is neither open nor still in the hands of a goroutine.
Fresh ==
  LET free == Sockets \ (open \cup drainers)
  IN  {s \in free : \A t \in free : s <= t}

Connected(s) ==
  IF op.pc = "dial" THEN [op EXCEPT !.pc = "initCommand", !.cmd = s]
  ELSE [op EXCEPT !.pc = "initEvent", !.evt = s]

Connect ==
  /\ op.pc \in {"dial", "dialEvent"}
  /\ holder \notin cancelled
  /\ \E s \in Fresh :
       /\ open' = open \cup {s}
       /\ op' = Connected(s)
  /\ UNCHANGED <<client, cmdConn, evtConn, txID, drainers, camera>>

Disconnected == [op EXCEPT !.pc = "backoff", !.cmd = NoConn, !.evt = NoConn]

NoConnection ==
  /\ op.pc \in {"dial", "dialEvent"}
  /\ open' = open \ {op.cmd}
  /\ op' = Disconnected
  /\ UNCHANGED <<client, cmdConn, evtConn, txID, drainers, camera>>

\* Dialling fails, or the context ends it.
ConnectFails ==
  /\ holder \in cancelled \/ (~listenMode /\ ~steady)
  /\ NoConnection

\* The listener may fail, but nothing limits how long accepting waits.
AcceptFails ==
  /\ listenMode /\ ~steady
  /\ NoConnection

InitCommandAck ==
  /\ op.pc = "initCommand"
  /\ op' = [op EXCEPT !.pc = "dialEvent"]
  /\ UNCHANGED <<client, conns, txID, drainers, camera>>

\* The fields are set, and the first transaction opens the session.
InitEventAck ==
  /\ op.pc = "initEvent"
  /\ cmdConn' = op.cmd
  /\ evtConn' = op.evt
  /\ txID' = 0
  /\ op' = [op EXCEPT !.pc = "next", !.cmd = NoConn, !.evt = NoConn,
                      !.stage = "openSession", !.todo = {"openSession"}]
  /\ wire' = <<>>
  /\ alive' = TRUE
  /\ abandoned' = 0
  /\ UNCHANGED <<client, open, drainers, steady>>

\* Faulty variant of InitFails: the command channel stays open.
InitFailsKeepingCommand ==
  /\ op.pc \in {"initCommand", "initEvent"}
  /\ ~steady
  /\ open' = open \ (IF op.pc = "initEvent" THEN {op.evt} ELSE {op.cmd})
  /\ op' = Disconnected
  /\ UNCHANGED <<client, cmdConn, evtConn, txID, drainers, camera>>

\* No answer, a refusal or another packet; a handshake does not watch the context.
InitFails ==
  /\ op.pc \in {"initCommand", "initEvent"}
  /\ ~steady
  /\ open' = open \ {op.cmd, op.evt}
  /\ op' = Disconnected
  /\ UNCHANGED <<client, cmdConn, evtConn, txID, drainers, camera>>

Settled ==
  /\ op.pc = "settle"
  /\ drainers' = drainers \cup {evtConn}
  /\ \E o \in Objects : op' = Begin(op.kind, o)
  /\ UNCHANGED <<client, conns, txID, camera>>

SettleCancelled ==
  /\ op.pc = "settle"
  /\ holder \in cancelled
  /\ CloseConns
  /\ op' = Disconnected
  /\ UNCHANGED <<client, txID, drainers>>

\* Faulty variant of Retry: one attempt too many.
RetryOnceMore ==
  /\ op.pc = "backoff"
  /\ op.attempt <= MaxAttempts
  /\ op' = [op EXCEPT !.pc = "dial", !.attempt = @ + 1]
  /\ UNCHANGED <<client, conns, txID, drainers, camera>>

Retry ==
  /\ op.pc = "backoff"
  /\ op.attempt < MaxAttempts
  /\ op' = [op EXCEPT !.pc = "dial", !.attempt = @ + 1]
  /\ UNCHANGED <<client, conns, txID, drainers, camera>>

\* Faulty variant of NotConnected: attempts are counted, but never run out.
NotConnectedIfCancelled ==
  /\ op.pc = "backoff"
  /\ IF holder \in cancelled THEN Return
     ELSE /\ op.attempt = MaxAttempts
          /\ op' = [op EXCEPT !.pc = "dial", !.attempt = 1]
          /\ UNCHANGED client
  /\ UNCHANGED <<conns, txID, drainers, camera>>

NotConnected ==
  /\ op.pc = "backoff"
  /\ op.attempt = MaxAttempts \/ holder \in cancelled
  /\ Return
  /\ UNCHANGED <<conns, txID, drainers, camera>>

-----------------------------------------------------------------------------
(* Transactions.                                                             *)

WantsData(stage, kind) ==
  stage \in LenientStages \cup {"enumerate"} \/ (stage = "object" /\ kind = "download")

Response(tx, ok) == [kind |-> "response", tx |-> tx, about |-> Nothing, ok |-> ok]
Ping == [kind |-> "ping", tx |-> 0, about |-> Nothing, ok |-> TRUE]

DataPhase(q, tx) ==
  LET packet(kind) == [kind |-> kind, tx |-> tx, about |-> q, ok |-> TRUE]
  IN  <<packet("start"), packet("data"), packet("end")>>

\* What the camera may ever send in answer, in time or late; an error has no
\* data phase.
Replies(q, tx, data) ==
  LET full == (IF data THEN DataPhase(q, tx) ELSE <<>>) \o <<Response(tx, TRUE)>>
  IN  IF steady THEN {full} ELSE {full, <<Response(tx, FALSE)>>, <<>>}

nextTxID == (txID + 1) % TxIDs

\* sendCmdRequest.  A request that cannot be written, or is written to a
\* connection that the camera has dropped, has no reply.
Request(q) ==
  /\ op.pc = "next"
  /\ q \in op.todo
  /\ txID' = nextTxID
  /\ op' = [op EXCEPT !.pc = IF WantsData(op.stage, op.kind) THEN "data" ELSE "response",
                      !.todo = @ \ {q}, !.ask = q, !.buf = <<>>]
  /\ \E reply \in IF alive THEN Replies(q, nextTxID, WantsData(op.stage, op.kind)) ELSE {<<>>} :
       wire' = wire \o reply
  /\ UNCHANGED <<client, conns, drainers, alive, abandoned, steady>>

\* Both loops look at the context before each packet.
Receives(pc) == op.pc = pc /\ wire # <<>> /\ holder \notin cancelled

Stays == UNCHANGED <<client, conns, txID, drainers, alive, abandoned, steady>>

\* Faulty variant of RecvDataPacket: the data of any transaction is taken.
RecvAnyDataPacket ==
  /\ Receives("data")
  /\ Head(wire).kind \in {"data", "end"}
  /\ wire' = Tail(wire)
  /\ op' = [op EXCEPT !.buf = Append(@, Head(wire).about),
                      !.pc = IF Head(wire).kind = "end" THEN "response" ELSE @]
  /\ Stays

\* DataPacket and EndDataPacket; those of another transaction are skipped.
RecvDataPacket ==
  /\ Receives("data")
  /\ Head(wire).kind \in {"data", "end"}
  /\ wire' = Tail(wire)
  /\ op' = IF Head(wire).tx # txID THEN op
           ELSE [op EXCEPT !.buf = Append(@, Head(wire).about),
                           !.pc = IF Head(wire).kind = "end" THEN "response" ELSE @]
  /\ Stays

RecvStartDataPacket ==
  /\ Receives("data")
  /\ Head(wire).kind = "start"
  /\ wire' = Tail(wire)
  /\ op' = IF Head(wire).tx # txID THEN op ELSE [op EXCEPT !.buf = <<>>]
  /\ Stays

\* recvData ends with an error on a response, of whichever transaction it is.
RecvResponseInData ==
  /\ Receives("data")
  /\ Head(wire).kind = "response"
  /\ wire' = Tail(wire)
  /\ op' = [op EXCEPT !.pc = "failed"]
  /\ Stays

\* Faulty variant of RecvResponse: the response of any transaction is taken.
RecvAnyResponse ==
  /\ Receives("response")
  /\ Head(wire).kind = "response"
  /\ wire' = Tail(wire)
  /\ op' = [op EXCEPT !.pc = IF Head(wire).ok THEN "next" ELSE "failed"]
  /\ Stays

\* recvResponse skips the responses of other transactions.
RecvResponse ==
  /\ Receives("response")
  /\ Head(wire).kind = "response"
  /\ wire' = Tail(wire)
  /\ op' = IF Head(wire).tx # txID THEN op
           ELSE [op EXCEPT !.pc = IF Head(wire).ok THEN "next" ELSE "failed"]
  /\ Stays

\* A ping is answered, and data is nothing to wait for in recvResponse.
RecvOther ==
  /\ \/ Receives("data") /\ Head(wire).kind = "ping"
     \/ Receives("response") /\ Head(wire).kind # "response"
  /\ wire' = Tail(wire)
  /\ UNCHANGED op
  /\ Stays

\* A read fails, as it passes its deadline or the connection is broken, or the
\* context is done.  Packets that are only late stay in the wire.
RecvFails ==
  /\ op.pc \in {"data", "response"}
  /\ ~steady \/ wire = <<>> \/ holder \in cancelled
  /\ op' = [op EXCEPT !.pc = "failed"]
  /\ \/ /\ abandoned < MaxAbandoned
        /\ abandoned' = abandoned + 1
        /\ UNCHANGED <<wire, alive>>
     \/ /\ wire' = <<>>
        /\ alive' = FALSE
        /\ UNCHANGED abandoned
  /\ UNCHANGED <<client, conns, txID, drainers, steady>>

-----------------------------------------------------------------------------
(* What the operations do between transactions.                              *)

StageDone == op.pc = "next" /\ op.todo = {}

Enter(stage, todo) == op' = [op EXCEPT !.pc = "next", !.stage = stage, !.todo = todo]

\* openSession, then canonEOSInit, then the camera is left to settle.
NextSessionStage ==
  /\ StageDone
  /\ \/ op.stage = "openSession" /\ Enter("remoteMode", {"remoteMode"})
     \/ op.stage = "remoteMode" /\ Enter("eventMode", {"eventMode"})
     \/ op.stage = "eventMode" /\ op' = [op EXCEPT !.pc = "settle"]
  /\ UNCHANGED <<client, conns, txID, drainers, camera>>

\* getStorageIDs is done, with or without success: discoverDCIMFolders is next.
DiscoverFolders ==
  /\ StageDone
  /\ op.stage = "storageIDs"
  /\ Enter("discover", Objects)
  /\ UNCHANGED <<client, conns, txID, drainers, camera>>

\* How many questions discovery and enumeration have depends on the tree.
Enumerate ==
  /\ op.pc = "next"
  /\ op.kind = "list"
  /\ op.stage = "discover"
  /\ \E todo \in (SUBSET Objects) \ {{}} : Enter("enumerate", todo)
  /\ UNCHANGED <<client, conns, txID, drainers, camera>>

Finish ==
  /\ \/ StageDone /\ op.stage \in StrictStages
     \/ op.pc = "next" /\ op.kind = "folders" /\ op.stage = "discover"
  /\ Return
  /\ UNCHANGED <<conns, txID, drainers, camera>>

ConnectFailed ==
  /\ op.pc = "failed"
  /\ op.stage \in SessionStages
  /\ CloseConns
  /\ op' = Disconnected
  /\ UNCHANGED <<client, txID, drainers>>

\* getStorageIDs and discovery go on after a failure, on the same connection.
Skip ==
  /\ op.pc = "failed"
  /\ op.stage \in LenientStages
  /\ op' = [op EXCEPT !.pc = "next"]
  /\ UNCHANGED <<client, conns, txID, drainers, camera>>

\* Faulty variant of Fail: the connection is kept.
FailConnected ==
  /\ op.pc = "failed"
  /\ op.stage \in StrictStages
  /\ Return
  /\ UNCHANGED <<conns, camera, txID, drainers>>

\* ListImages, DownloadImage, GetThumb and DeleteObject close the connection.
Fail ==
  /\ op.pc = "failed"
  /\ op.stage \in StrictStages
  /\ CloseConns
  /\ Return
  /\ UNCHANGED <<txID, drainers>>

-----------------------------------------------------------------------------
(* The event channel, and the camera.                                        *)

\* A read on the event channel fails: it is closed, the camera has dropped it,
\* or nothing has come for 30 seconds.  recvPacket wraps the error, so that the
\* type assertion on net.Error does not see a timeout, and all of them end the
\* goroutine.
DrainEvents(s) ==
  /\ s \in drainers
  /\ drainers' = drainers \ {s}
  /\ UNCHANGED <<client, op, conns, txID, camera>>

\* At most one ping is on its way.
SendPing ==
  /\ alive
  /\ \A i \in DOMAIN wire : wire[i].kind # "ping"
  /\ wire' = Append(wire, Ping)
  /\ UNCHANGED <<client, op, conns, txID, drainers, alive, abandoned, steady>>

Drop ==
  /\ alive
  /\ ~steady
  /\ alive' = FALSE
  /\ wire' = <<>>
  /\ UNCHANGED <<client, op, conns, txID, drainers, abandoned, steady>>

BecomeSteady ==
  /\ ~steady
  /\ steady' = TRUE
  /\ UNCHANGED <<client, op, conns, txID, drainers, wire, alive, abandoned>>

-----------------------------------------------------------------------------
Handshake ==
  \/ ConnectFails \/ InitCommandAck \/ InitEventAck \/ InitFails
  \/ Settled \/ SettleCancelled \/ Retry \/ NotConnected

Transact ==
  \/ \E q \in Questions : Request(q)
  \/ RecvDataPacket \/ RecvStartDataPacket \/ RecvResponseInData
  \/ RecvResponse \/ RecvOther \/ RecvFails

Operate ==
  \/ NextSessionStage \/ DiscoverFolders \/ Enumerate \/ Finish
  \/ ConnectFailed \/ Skip \/ Fail

Next ==
  \/ \E c \in Callers : Call(c) \/ Cancel(c) \/ Lock(c)
  \/ Connect \/ AcceptFails \/ Handshake \/ Transact \/ Operate
  \/ \E s \in Sockets : DrainEvents(s)
  \/ SendPing \/ Drop \/ BecomeSteady

Spec == Init /\ [][Next]_vars

\* The goroutine that holds the mutex goes on, and its reads have deadlines.
\* In listen mode a connection comes for sure only from a steady camera.  A
\* mutex is fair to those who wait.  Goroutines see their sockets closed.
Fairness ==
  /\ WF_vars(Handshake \/ Transact \/ Operate)
  /\ WF_vars(Connect /\ (steady \/ ~listenMode))
  /\ \A c \in Callers : SF_vars(Lock(c))
  /\ \A s \in Sockets : WF_vars(DrainEvents(s) /\ s \notin open)

FairSpec == Spec /\ Fairness

-----------------------------------------------------------------------------
(* Properties.                                                               *)

\* A data phase yields the data of its own question, all of it and nothing
\* else, although replies to questions given up before arrive in between.
OwnData ==
  op.pc = "response" /\ WantsData(op.stage, op.kind) => op.buf = <<op.ask, op.ask>>

\* A listing, download or deletion that succeeds leaves no packet behind that a
\* later operation could mistake for its own.
SuccessInSync ==
  op.pc = "next" /\ op.stage \in StrictStages /\ op.todo = {} =>
    \A i \in DOMAIN wire : wire[i].kind = "ping"

\* However a handshake or an operation ends, no socket is lost: open are the
\* channels of the client and those that connect has in hand; a client has both
\* channels or none.
SocketsOwned ==
  /\ open = ({cmdConn, evtConn} \cup {op.cmd, op.evt}) \ {NoConn}
  /\ cmdConn = NoConn <=> evtConn = NoConn

PingsStop == <>[][~SendPing]_vars

\* Every call returns, with many callers, lost answers and attempts that fail;
\* in listen mode, if the camera comes in the end.
EveryCallReturns ==
  PingsStop /\ <>(steady \/ ~listenMode) =>
    \A c \in Callers : c \in calling ~> c \notin calling

\* When the camera has become steady, and no caller gives up any more, failures
\* cease, as long as something is listed now and then.
Recovers ==
  PingsStop /\ <>steady /\ <>[][\A c \in Callers : ~Cancel(c)]_vars /\ []<>(op.kind = "list")
    => <>[](op.pc # "failed")

\* session.go says of drainEvents: exiting only on real connection errors.
DrainedWhileOpen ==
  [][\A s \in drainers \ drainers' : s \notin open \/ ~alive]_vars

\* discoverDCIMFolders skips an object whose question failed, "safely": what
\* fails is that question, and not one that was skipped before.
SkipIsSafe ==
  [][op.pc = "data" /\ op'.pc = "failed" /\ wire # <<>> /\ wire' = Tail(wire)
       => Head(wire).tx = txID]_vars
=============================================================================
