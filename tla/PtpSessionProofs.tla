--------------------------- MODULE PtpSessionProofs ---------------------------
(* Type correctness of PtpSession, that it never loses a socket, and that its *)
(* transactions stay in step with the replies on the command channel.         *)
EXTENDS PtpSession, TLAPS

\* Which sockets the client and connect hold in each phase: nothing is in hand
\* outside connect, connect starts without a connection, and a transaction is
\* made on one only.
PhaseOK ==
  /\ holder = Nobody <=> op.pc = "idle"
  /\ op.pc \in {"initCommand", "dialEvent", "initEvent"} <=> op.cmd # NoConn
  /\ op.pc = "initEvent" <=> op.evt # NoConn
  /\ op.pc \in {"dial", "initCommand", "dialEvent", "initEvent", "backoff"} => cmdConn = NoConn
  /\ op.pc \in {"settle", "next", "data", "response", "failed"} => cmdConn # NoConn

Inv == TypeOK /\ PhaseOK /\ SocketsOwned

\* Replies are packets.
LEMMA ReplyPackets ==
  ASSUME NEW q \in Questions, NEW tx \in 0 .. TxIDs - 1, NEW data \in BOOLEAN,
         NEW reply \in Replies(q, tx, data)
  PROVE  reply \in Seq(Packet)
<1>1. Response(tx, TRUE) \in Packet /\ Response(tx, FALSE) \in Packet
  BY DEF Response, Packet
<1>2. DataPhase(q, tx) \in Seq(Packet)
  <2> DEFINE packet(kind) == [kind |-> kind, tx |-> tx, about |-> q, ok |-> TRUE]
  <2>1. packet("start") \in Packet /\ packet("data") \in Packet /\ packet("end") \in Packet
    BY DEF Packet
  <2>2. DataPhase(q, tx) = <<packet("start"), packet("data"), packet("end")>>
    BY DEF DataPhase
  <2> HIDE DEF packet
  <2> QED BY <2>1, <2>2
<1> DEFINE tail == <<Response(tx, TRUE)>>
<1>3. tail \in Seq(Packet) /\ <<Response(tx, FALSE)>> \in Seq(Packet) /\ <<>> \in Seq(Packet)
  <2>1. <<>> \in Seq(Packet) /\ \A p \in Packet : <<p>> \in Seq(Packet)
    OBVIOUS
  <2> QED BY <1>1, <2>1
<1>4. (IF data THEN DataPhase(q, tx) ELSE <<>>) \o tail \in Seq(Packet)
  <2> HIDE DEF tail
  <2> QED BY <1>2, <1>3
<1> QED BY <1>3, <1>4 DEF Replies

\* Lemma: the next transaction ID is one.
LEMMA NextTxIDType ==
  ASSUME txID \in 0 .. TxIDs - 1
  PROVE  nextTxID \in 0 .. TxIDs - 1
BY TxIDsAssumption, AbandonedAssumption DEF nextTxID

\* Lemma: what is left of the wire is still a wire, and its head is a packet.
LEMMA WireParts ==
  ASSUME wire \in Seq(Packet), wire # <<>>
  PROVE  /\ Head(wire) \in Packet
         /\ Tail(wire) \in Seq(Packet)
OBVIOUS

\* Lemma: the locals between two operations.
LEMMA IdleTypes ==
  Idle \in Op /\ Idle.pc = "idle" /\ Idle.cmd = NoConn /\ Idle.evt = NoConn
<1>1. <<>> \in Seq(Questions)
  OBVIOUS
<1>2. "storageIDs" \in Stages /\ "idle" \in PC /\ 0 \in 0 .. MaxAttempts
  BY AttemptsAssumption DEF Stages, LenientStages, PC
<1> QED BY <1>1, <1>2 DEF Idle, Op

\* Lemma: the locals an operation starts with.
LEMMA BeginTypes ==
  ASSUME NEW kind \in Kinds \cup {"none"}, NEW o \in Objects
  PROVE  /\ Begin(kind, o) \in Op
         /\ Begin(kind, o).pc = "next"
         /\ Begin(kind, o).cmd = NoConn
         /\ Begin(kind, o).evt = NoConn
<1>1. "next" \in PC /\ "object" \in Stages /\ "storageIDs" \in Stages
  BY DEF PC, Stages, LenientStages, StrictStages
<1>2. {"storageIDs"} \in SUBSET Questions /\ {o} \in SUBSET Questions
  BY DEF Questions
<1> QED BY <1>1, <1>2, IdleTypes DEF Begin, Op

\* Lemma: initially nothing is open.
LEMMA InitInv == Init => Inv
<1> SUFFICES ASSUME Init PROVE Inv
  OBVIOUS
<1>1. TypeOK
  <2>1. 0 \in 0 .. TxIDs - 1 /\ 0 \in 0 .. MaxAbandoned
    BY TxIDsAssumption, AbandonedAssumption
  <2>2. <<>> \in Seq(Packet)
    OBVIOUS
  <2> QED BY <2>1, <2>2, IdleTypes DEF Init, TypeOK
<1>2. PhaseOK
  BY IdleTypes DEF Init, PhaseOK
<1>3. SocketsOwned
  BY IdleTypes DEF Init, SocketsOwned
<1> QED BY <1>1, <1>2, <1>3 DEF Inv

\* Lemma: calls, cancellations and the mutex.
LEMMA CallInv ==
  ASSUME Inv, NEW c \in Callers,
         Call(c) \/ Cancel(c) \/ Lock(c)
  PROVE  Inv'
<1>1. CASE Cancel(c)
  BY <1>1 DEF Cancel, Inv, TypeOK, PhaseOK, SocketsOwned, conns, camera
<1>2. CASE Call(c)
  BY <1>2 DEF Call, Inv, TypeOK, PhaseOK, SocketsOwned, conns, camera
<1>3. CASE Lock(c)
  <2> USE <1>3
  <2>1. holder' = c /\ c # Nobody /\ op.pc = "idle" /\ op.cmd = NoConn /\ op.evt = NoConn
    BY NobodyAssumption DEF Lock, Inv, PhaseOK
  <2>2. PICK kind \in Kinds :
          IF cmdConn # NoConn
          THEN \E o \in Objects : op' = Begin(kind, o)
          ELSE op' = [Idle EXCEPT !.pc = "dial", !.kind = kind, !.attempt = 1]
    BY DEF Lock
  <2>3. op' \in Op /\ op'.pc \in {"next", "dial"} /\ op'.cmd = NoConn /\ op'.evt = NoConn
        /\ (op'.pc = "dial" <=> cmdConn = NoConn)
    <3>1. CASE cmdConn # NoConn
      BY <3>1, <2>2, BeginTypes
    <3>2. CASE cmdConn = NoConn
      <4>1. op' = [Idle EXCEPT !.pc = "dial", !.kind = kind, !.attempt = 1]
        BY <3>2, <2>2
      <4>2. "dial" \in PC /\ 1 \in 0 .. MaxAttempts
        BY AttemptsAssumption DEF PC
      <4> QED BY <3>2, <2>2, <4>1, <4>2, IdleTypes DEF Op
    <3> QED BY <3>1, <3>2
  <2>4. UNCHANGED <<calling, cancelled, listenMode, conns, txID, drainers, camera>>
    BY DEF Lock
  <2>5. TypeOK'
    BY <2>1, <2>3, <2>4 DEF Inv, TypeOK, conns, camera
  <2>6. PhaseOK'
    BY <2>1, <2>3, <2>4 DEF Inv, PhaseOK, conns
  <2>7. SocketsOwned'
    BY <2>1, <2>3, <2>4 DEF Inv, SocketsOwned, conns
  <2> QED BY <2>5, <2>6, <2>7 DEF Inv
<1> QED BY <1>1, <1>2, <1>3

-----------------------------------------------------------------------------
(* Steps of a transaction touch neither the sockets nor the mutex.           *)

\* Lemma: what a step within a transaction must keep.
LEMMA QuietInv ==
  ASSUME Inv, UNCHANGED <<client, conns, drainers, steady>>,
         op' \in Op, op.pc \in {"next", "data", "response", "failed"},
         op'.pc \in {"next", "data", "response", "failed"},
         op'.cmd = op.cmd, op'.evt = op.evt,
         txID' \in 0 .. TxIDs - 1, wire' \in Seq(Packet),
         alive' \in BOOLEAN, abandoned' \in 0 .. MaxAbandoned
  PROVE  Inv'
<1>1. TypeOK'
  BY DEF Inv, TypeOK, client, conns
<1>2. PhaseOK'
  BY DEF Inv, PhaseOK, client, conns
<1>3. SocketsOwned'
  BY DEF Inv, SocketsOwned, conns
<1> QED BY <1>1, <1>2, <1>3 DEF Inv

\* Lemma: a request is sent.
LEMMA RequestInv ==
  ASSUME Inv, NEW q \in Questions, Request(q)
  PROVE  Inv'
<1> DEFINE pc == IF WantsData(op.stage, op.kind) THEN "data" ELSE "response"
<1>1. op \in Op /\ op.pc = "next" /\ pc \in PC /\ pc \in {"data", "response"}
  BY DEF Inv, TypeOK, Request, PC
<1>2. op' = [op EXCEPT !.pc = pc, !.todo = @ \ {q}, !.ask = q, !.buf = <<>>]
  BY DEF Request
<1>3. <<>> \in Seq(Questions)
  OBVIOUS
<1>4. /\ op' \in Op /\ op'.pc \in {"data", "response"}
      /\ op'.cmd = op.cmd /\ op'.evt = op.evt
  <2> HIDE DEF pc
  <2> QED BY <1>1, <1>2, <1>3 DEF Op
<1>5. txID' = nextTxID /\ nextTxID \in 0 .. TxIDs - 1
  BY NextTxIDType DEF Request, Inv, TypeOK
<1>6. wire' \in Seq(Packet)
  <2>1. PICK reply \in IF alive THEN Replies(q, nextTxID, WantsData(op.stage, op.kind))
                       ELSE {<<>>} : wire' = wire \o reply
    BY DEF Request
  <2>2. WantsData(op.stage, op.kind) \in BOOLEAN
    BY DEF WantsData
  <2>3. reply \in Seq(Packet)
    <3>1. CASE alive
      BY <3>1, <2>1, <2>2, <1>5, ReplyPackets
    <3>2. CASE ~alive
      BY <3>2, <2>1
    <3> QED BY <3>1, <3>2
  <2>4. wire \in Seq(Packet)
    BY DEF Inv, TypeOK
  <2> QED BY <2>1, <2>3, <2>4
<1>7. UNCHANGED <<client, conns, drainers, alive, abandoned, steady>>
  BY DEF Request
<1>8. alive' \in BOOLEAN /\ abandoned' \in 0 .. MaxAbandoned
  BY <1>7 DEF Inv, TypeOK
<1> QED BY <1>1, <1>4, <1>5, <1>6, <1>7, <1>8, QuietInv

\* Lemma: a packet is received.
LEMMA ReceiveInv ==
  ASSUME Inv,
         RecvDataPacket \/ RecvStartDataPacket \/ RecvResponseInData \/ RecvResponse \/ RecvOther
  PROVE  Inv'
<1>1. wire # <<>> /\ wire' = Tail(wire) /\ Stays /\ op.pc \in {"data", "response"}
  BY DEF RecvDataPacket, RecvStartDataPacket, RecvResponseInData, RecvResponse, RecvOther, Receives
<1>2. op \in Op /\ wire \in Seq(Packet)
  BY DEF Inv, TypeOK
<1>3. Head(wire) \in Packet /\ wire' \in Seq(Packet)
  BY <1>1, <1>2, WireParts
<1>4. {"next", "data", "response", "failed"} \subseteq PC
  BY DEF PC
<1>5. /\ op' \in Op /\ op'.pc \in {"next", "data", "response", "failed"}
      /\ op'.cmd = op.cmd /\ op'.evt = op.evt
  <2>1. CASE RecvDataPacket
    <3>1. Head(wire).about \in Questions
      BY <2>1, <1>3 DEF RecvDataPacket, Packet
    <3>2. Append(op.buf, Head(wire).about) \in Seq(Questions)
      BY <3>1, <1>2 DEF Op
    <3> DEFINE pc == IF Head(wire).kind = "end" THEN "response" ELSE op.pc
    <3>3. pc \in PC /\ pc \in {"data", "response"}
      BY <1>1, <1>4
    <3>4. op' = op \/ op' = [op EXCEPT !.buf = Append(op.buf, Head(wire).about), !.pc = pc]
      BY <2>1 DEF RecvDataPacket
    <3> HIDE DEF pc
    <3> QED BY <1>1, <1>2, <3>2, <3>3, <3>4 DEF Op
  <2>2. CASE RecvStartDataPacket
    <3>1. op' = op \/ op' = [op EXCEPT !.buf = <<>>]
      BY <2>2 DEF RecvStartDataPacket
    <3>2. <<>> \in Seq(Questions)
      OBVIOUS
    <3> QED BY <1>1, <1>2, <3>1, <3>2 DEF Op
  <2>3. CASE RecvResponseInData
    BY <2>3, <1>2, <1>4 DEF RecvResponseInData, Op
  <2>4. CASE RecvResponse
    <3> DEFINE pc == IF Head(wire).ok THEN "next" ELSE "failed"
    <3>1. pc \in PC /\ pc \in {"next", "failed"}
      BY <1>4
    <3>2. op' = op \/ op' = [op EXCEPT !.pc = pc]
      BY <2>4 DEF RecvResponse
    <3> HIDE DEF pc
    <3> QED BY <1>1, <1>2, <3>1, <3>2 DEF Op
  <2>5. CASE RecvOther
    BY <2>5, <1>1, <1>2 DEF RecvOther
  <2> QED BY <2>1, <2>2, <2>3, <2>4, <2>5
<1>6. UNCHANGED <<client, conns, txID, drainers, alive, abandoned, steady>>
  BY <1>1 DEF Stays
<1>7. txID' \in 0 .. TxIDs - 1 /\ alive' \in BOOLEAN /\ abandoned' \in 0 .. MaxAbandoned
  BY <1>6 DEF Inv, TypeOK
<1> QED BY <1>1, <1>3, <1>5, <1>6, <1>7, QuietInv

\* Lemma: a read fails.
LEMMA RecvFailsInv ==
  ASSUME Inv, RecvFails
  PROVE  Inv'
<1>1. op \in Op /\ "failed" \in PC
  BY DEF Inv, TypeOK, PC
<1>2. op' \in Op /\ op'.pc = "failed" /\ op'.cmd = op.cmd /\ op'.evt = op.evt
  BY <1>1 DEF RecvFails, Op
<1>3. wire' \in Seq(Packet) /\ alive' \in BOOLEAN
  <2>1. <<>> \in Seq(Packet)
    OBVIOUS
  <2> QED BY <2>1 DEF RecvFails, Inv, TypeOK
<1>4. abandoned' \in 0 .. MaxAbandoned
  <2>1. abandoned \in 0 .. MaxAbandoned
    BY DEF Inv, TypeOK
  <2>2. abandoned' = abandoned \/ (abandoned < MaxAbandoned /\ abandoned' = abandoned + 1)
    BY DEF RecvFails
  <2> QED BY <2>1, <2>2, AbandonedAssumption
<1>5. op.pc \in {"data", "response"} /\ UNCHANGED <<client, conns, txID, drainers, steady>>
  BY DEF RecvFails
<1>6. txID' \in 0 .. TxIDs - 1
  BY <1>5 DEF Inv, TypeOK
<1> QED BY <1>2, <1>3, <1>4, <1>5, <1>6, QuietInv

-----------------------------------------------------------------------------
(* Between transactions: stages, failures and the end of an operation.       *)

\* Lemma: closing the connection leaves what connect has in hand.
LEMMA Closed ==
  ASSUME Inv, CloseConns
  PROVE  /\ cmdConn' = NoConn /\ evtConn' = NoConn
         /\ open' = {op.cmd, op.evt} \ {cmdConn, evtConn, NoConn}
         /\ open' \subseteq Sockets
         /\ wire' \in Seq(Packet) /\ alive' \in BOOLEAN
         /\ abandoned' \in 0 .. MaxAbandoned /\ steady' \in BOOLEAN
<1>1. <<>> \in Seq(Packet)
  OBVIOUS
<1> QED BY <1>1 DEF CloseConns, Inv, TypeOK, SocketsOwned

\* Lemma: a returning operation leaves the client idle.
LEMMA Returned ==
  ASSUME Inv, Return
  PROVE  /\ holder' = Nobody /\ op' = Idle
         /\ calling' \subseteq Callers
         /\ cancelled' \subseteq Callers /\ listenMode' \in BOOLEAN
BY DEF Return, Inv, TypeOK

\* Lemma: between two transactions nothing is in the hands of connect.
LEMMA NothingInHand ==
  ASSUME Inv, op.pc \notin {"initCommand", "dialEvent", "initEvent"}
  PROVE  op.cmd = NoConn /\ op.evt = NoConn
BY DEF Inv, PhaseOK

\* Lemma: every step between transactions.
LEMMA OperateInv ==
  ASSUME Inv, Operate
  PROVE  Inv'
<1>1. op \in Op /\ TypeOK
  BY DEF Inv, TypeOK
<1>2. {"next", "settle", "backoff"} \subseteq PC
  BY DEF PC
<1>3. CASE NextSessionStage \/ DiscoverFolders \/ Enumerate
  <2>1. /\ op.pc = "next"
        /\ UNCHANGED <<client, conns, txID, drainers, camera>>
    BY <1>3 DEF NextSessionStage, DiscoverFolders, Enumerate, StageDone
  <2>2. \/ op' = [op EXCEPT !.pc = "settle"] /\ op.stage = "eventMode"
        \/ \E stage \in Stages, todo \in SUBSET Questions :
              op' = [op EXCEPT !.pc = "next", !.stage = stage, !.todo = todo]
    <3>1. CASE NextSessionStage
      BY <3>1 DEF NextSessionStage, Enter, Stages, SessionStages, LenientStages, StrictStages,
         Questions
    <3>2. CASE DiscoverFolders
      BY <3>2 DEF DiscoverFolders, Enter, Stages, LenientStages, StrictStages, Questions
    <3>3. CASE Enumerate
      BY <3>3 DEF Enumerate, Enter, Stages, LenientStages, StrictStages, Questions
    <3> QED BY <1>3, <3>1, <3>2, <3>3
  <2>3. /\ op' \in Op /\ op'.pc \in {"next", "settle"}
        /\ op'.cmd = op.cmd /\ op'.evt = op.evt
    <3>1. CASE op' = [op EXCEPT !.pc = "settle"]
      BY <1>1, <1>2, <3>1 DEF Op
    <3>2. ASSUME NEW stage \in Stages, NEW todo \in SUBSET Questions,
                 op' = [op EXCEPT !.pc = "next", !.stage = stage, !.todo = todo]
          PROVE  /\ op' \in Op /\ op'.pc = "next"
                 /\ op'.cmd = op.cmd /\ op'.evt = op.evt
      BY <1>1, <1>2, <3>2 DEF Op
    <3> QED BY <2>2, <3>1, <3>2
  <2>4. cmdConn # NoConn
    BY <2>1 DEF Inv, PhaseOK
  <2>5. TypeOK'
    BY <2>1, <2>3, <1>1 DEF TypeOK, client, conns, camera
  <2>6. PhaseOK'
    BY <2>1, <2>3, <2>4 DEF Inv, PhaseOK, client, conns
  <2>7. SocketsOwned'
    BY <2>1, <2>3 DEF Inv, SocketsOwned, conns
  <2> QED BY <2>5, <2>6, <2>7 DEF Inv
<1>4. CASE Finish
  <2>1. /\ op.pc = "next" /\ Return
        /\ UNCHANGED <<conns, txID, drainers, camera>>
    BY <1>4 DEF Finish, StageDone
  <2>2. TypeOK'
    BY <2>1, <1>1, Returned, IdleTypes DEF TypeOK, conns, camera
  <2>3. PhaseOK'
    BY <2>1, Returned, IdleTypes DEF PhaseOK
  <2>4. SocketsOwned'
    BY <2>1, Returned, IdleTypes, NothingInHand DEF Inv, SocketsOwned, conns
  <2> QED BY <2>2, <2>3, <2>4 DEF Inv
<1>5. CASE ConnectFailed
  <2>1. /\ op.pc = "failed" /\ CloseConns /\ op' = Disconnected
        /\ UNCHANGED <<client, txID, drainers>>
    BY <1>5 DEF ConnectFailed
  <2>2. op' \in Op /\ op'.pc = "backoff" /\ op'.cmd = NoConn /\ op'.evt = NoConn
    BY <2>1, <1>1, <1>2 DEF Disconnected, Op
  <2>3. TypeOK'
    BY <2>1, <2>2, <1>1, Closed DEF TypeOK, client
  <2>4. PhaseOK'
    BY <2>1, <2>2, Closed DEF Inv, PhaseOK, client
  <2>5. SocketsOwned'
    BY <2>1, <2>2, Closed, NothingInHand DEF SocketsOwned
  <2> QED BY <2>3, <2>4, <2>5 DEF Inv
<1>6. CASE Skip
  <2>1. /\ op.pc = "failed" /\ op' = [op EXCEPT !.pc = "next"]
        /\ UNCHANGED <<client, conns, txID, drainers, camera>>
    BY <1>6 DEF Skip
  <2>2. op' \in Op /\ op'.pc = "next" /\ op'.cmd = op.cmd /\ op'.evt = op.evt
    BY <2>1, <1>1, <1>2 DEF Op
  <2> QED BY <2>1, <2>2, <1>1, QuietInv DEF TypeOK, camera
<1>7. CASE Fail
  <2>1. op.pc = "failed" /\ CloseConns /\ Return /\ UNCHANGED <<txID, drainers>>
    BY <1>7 DEF Fail
  <2>2. TypeOK'
    BY <2>1, <1>1, Closed, Returned, IdleTypes DEF TypeOK
  <2>3. PhaseOK'
    BY <2>1, Returned, IdleTypes DEF PhaseOK
  <2>4. SocketsOwned'
    BY <2>1, Closed, Returned, IdleTypes, NothingInHand DEF SocketsOwned
  <2> QED BY <2>2, <2>3, <2>4 DEF Inv
<1> QED BY <1>3, <1>4, <1>5, <1>6, <1>7 DEF Operate

-----------------------------------------------------------------------------
(* connect and ensureConnected.                                              *)

\* Lemma: every attempt to connect ends without a socket in hand.
LEMMA DisconnectedTypes ==
  ASSUME op \in Op
  PROVE  /\ Disconnected \in Op /\ Disconnected.pc = "backoff"
         /\ Disconnected.cmd = NoConn /\ Disconnected.evt = NoConn
<1>1. "backoff" \in PC
  BY DEF PC
<1> QED BY <1>1 DEF Disconnected, Op

\* Lemma: a socket is gained.
LEMMA ConnectInv ==
  ASSUME Inv, Connect
  PROVE  Inv'
<1>1. PICK s \in Fresh : open' = open \cup {s} /\ op' = Connected(s)
  BY DEF Connect
<1>2. s \in Sockets /\ s # NoConn
  BY SocketsAssumption DEF Fresh
<1>3. op.pc \in {"dial", "dialEvent"} /\ op \in Op
      /\ UNCHANGED <<client, cmdConn, evtConn, txID, drainers, camera>>
  BY DEF Connect, Inv, TypeOK
<1>4. {"initCommand", "initEvent"} \subseteq PC
  BY DEF PC
<1>5. CASE op.pc = "dial"
  <2>1. op' = [op EXCEPT !.pc = "initCommand", !.cmd = s] /\ op.cmd = NoConn /\ op.evt = NoConn
    BY <1>1, <1>5, NothingInHand DEF Connected
  <2>2. op' \in Op /\ op'.pc = "initCommand" /\ op'.cmd = s /\ op'.evt = NoConn
    BY <1>2, <1>3, <1>4, <2>1 DEF Op
  <2>3. TypeOK'
    BY <1>1, <1>2, <1>3, <2>2 DEF Inv, TypeOK, client, camera
  <2>4. PhaseOK'
    BY <1>2, <1>3, <1>5, <2>2 DEF Inv, PhaseOK, client
  <2>5. SocketsOwned'
    BY <1>1, <1>2, <1>3, <2>1, <2>2 DEF Inv, SocketsOwned
  <2> QED BY <2>3, <2>4, <2>5 DEF Inv
<1>6. CASE op.pc = "dialEvent"
  <2>1. op' = [op EXCEPT !.pc = "initEvent", !.evt = s] /\ op.cmd # NoConn /\ op.evt = NoConn
    BY <1>1, <1>6 DEF Connected, Inv, PhaseOK
  <2>2. op' \in Op /\ op'.pc = "initEvent" /\ op'.cmd = op.cmd /\ op'.evt = s
    BY <1>2, <1>3, <1>4, <2>1 DEF Op
  <2>3. TypeOK'
    BY <1>1, <1>2, <1>3, <2>2 DEF Inv, TypeOK, client, camera
  <2>4. PhaseOK'
    BY <1>2, <1>3, <1>6, <2>1, <2>2 DEF Inv, PhaseOK, client
  <2>5. SocketsOwned'
    BY <1>1, <1>2, <1>3, <2>1, <2>2 DEF Inv, SocketsOwned
  <2> QED BY <2>3, <2>4, <2>5 DEF Inv
<1> QED BY <1>3, <1>5, <1>6

\* Lemma: the other steps of connect and ensureConnected.
LEMMA HandshakeInv ==
  ASSUME Inv, Handshake \/ AcceptFails
  PROVE  Inv'
<1>1. op \in Op /\ TypeOK
  BY DEF Inv, TypeOK
<1>2. {"dialEvent", "next", "dial"} \subseteq PC
  BY DEF PC
<1>3. CASE ConnectFails \/ AcceptFails \/ InitFails
  <2>1. /\ op.pc \in {"dial", "dialEvent", "initCommand", "initEvent"}
        /\ op' = Disconnected
        /\ UNCHANGED <<client, cmdConn, evtConn, txID, drainers, camera>>
        /\ open' = open \ {op.cmd} \/ open' = open \ {op.cmd, op.evt}
        /\ op.pc \in {"dial", "dialEvent"} \/ open' = open \ {op.cmd, op.evt}
    BY <1>3 DEF ConnectFails, AcceptFails, NoConnection, InitFails
  <2>2. cmdConn = NoConn /\ evtConn = NoConn
    BY <2>1 DEF Inv, PhaseOK, SocketsOwned
  <2>3. op.pc \in {"dial", "dialEvent"} => op.evt = NoConn
    BY DEF Inv, PhaseOK
  <2>4. open' = {}
    BY <2>1, <2>2, <2>3 DEF Inv, SocketsOwned
  <2>5. TypeOK'
    BY <2>1, <2>4, <1>1, DisconnectedTypes DEF TypeOK, client, camera
  <2>6. PhaseOK'
    BY <2>1, <2>2, <1>1, DisconnectedTypes DEF Inv, PhaseOK, client
  <2>7. SocketsOwned'
    BY <2>1, <2>2, <2>4, <1>1, DisconnectedTypes DEF SocketsOwned
  <2> QED BY <2>5, <2>6, <2>7 DEF Inv
<1>4. CASE InitCommandAck
  <2>1. /\ op.pc = "initCommand" /\ op' = [op EXCEPT !.pc = "dialEvent"]
        /\ UNCHANGED <<client, conns, txID, drainers, camera>>
    BY <1>4 DEF InitCommandAck
  <2>2. op' \in Op /\ op'.pc = "dialEvent" /\ op'.cmd = op.cmd /\ op'.evt = op.evt
    BY <2>1, <1>1, <1>2 DEF Op
  <2>3. TypeOK'
    BY <2>1, <2>2, <1>1 DEF TypeOK, client, conns, camera
  <2>4. PhaseOK'
    BY <2>1, <2>2 DEF Inv, PhaseOK, client, conns
  <2>5. SocketsOwned'
    BY <2>1, <2>2 DEF Inv, SocketsOwned, conns
  <2> QED BY <2>3, <2>4, <2>5 DEF Inv
<1>5. CASE InitEventAck
  <2>1. /\ op.pc = "initEvent" /\ cmdConn' = op.cmd /\ evtConn' = op.evt /\ txID' = 0
        /\ wire' = <<>> /\ alive' = TRUE /\ abandoned' = 0
        /\ UNCHANGED <<client, open, drainers, steady>>
        /\ op' = [op EXCEPT !.pc = "next", !.cmd = NoConn, !.evt = NoConn,
                            !.stage = "openSession", !.todo = {"openSession"}]
    BY <1>5 DEF InitEventAck
  <2>2. op.cmd \in Sockets /\ op.evt \in Sockets
    BY <2>1, <1>1 DEF Inv, PhaseOK, Op
  <2>3. "openSession" \in Stages /\ {"openSession"} \in SUBSET Questions
    BY DEF Stages, Questions, SessionStages
  <2>4. op' \in Op /\ op'.pc = "next" /\ op'.cmd = NoConn /\ op'.evt = NoConn
    BY <2>1, <2>3, <1>1, <1>2 DEF Op
  <2>5. cmdConn = NoConn /\ evtConn = NoConn
    BY <2>1 DEF Inv, PhaseOK, SocketsOwned
  <2>6. 0 \in 0 .. TxIDs - 1 /\ 0 \in 0 .. MaxAbandoned /\ <<>> \in Seq(Packet)
    BY TxIDsAssumption, AbandonedAssumption
  <2>7. TypeOK'
    BY <2>1, <2>2, <2>4, <2>6, <1>1 DEF TypeOK, client
  <2>8. PhaseOK'
    BY <2>1, <2>4 DEF Inv, PhaseOK, client
  <2>9. SocketsOwned'
    BY <2>1, <2>2, <2>4, <2>5, SocketsAssumption DEF Inv, SocketsOwned
  <2> QED BY <2>7, <2>8, <2>9 DEF Inv
<1>6. CASE Settled
  <2>1. /\ op.pc = "settle" /\ drainers' = drainers \cup {evtConn}
        /\ UNCHANGED <<client, conns, txID, camera>>
    BY <1>6 DEF Settled
  <2>2. PICK o \in Objects : op' = Begin(op.kind, o)
    BY <1>6 DEF Settled
  <2>3. op' \in Op /\ op'.pc = "next" /\ op'.cmd = NoConn /\ op'.evt = NoConn
    BY <2>2, <1>1, BeginTypes DEF Op
  <2>4. evtConn \in Sockets
    BY <2>1, <1>1 DEF Inv, PhaseOK, SocketsOwned, TypeOK
  <2>5. op.cmd = NoConn /\ op.evt = NoConn
    BY <2>1, NothingInHand
  <2>6. TypeOK'
    BY <2>1, <2>3, <2>4, <1>1 DEF TypeOK, client, conns, camera
  <2>7. PhaseOK'
    BY <2>1, <2>3 DEF Inv, PhaseOK, client, conns
  <2>8. SocketsOwned'
    BY <2>1, <2>3, <2>5 DEF Inv, SocketsOwned, conns
  <2> QED BY <2>6, <2>7, <2>8 DEF Inv
<1>7. CASE SettleCancelled
  <2>1. /\ op.pc = "settle" /\ CloseConns /\ op' = Disconnected
        /\ UNCHANGED <<client, txID, drainers>>
    BY <1>7 DEF SettleCancelled
  <2>2. TypeOK'
    BY <2>1, <1>1, Closed, DisconnectedTypes DEF TypeOK, client
  <2>3. PhaseOK'
    BY <2>1, <1>1, Closed, DisconnectedTypes DEF Inv, PhaseOK, client
  <2>4. SocketsOwned'
    BY <2>1, <1>1, Closed, DisconnectedTypes, NothingInHand DEF SocketsOwned
  <2> QED BY <2>2, <2>3, <2>4 DEF Inv
<1>8. CASE Retry
  <2>1. /\ op.pc = "backoff" /\ op.attempt < MaxAttempts
        /\ op' = [op EXCEPT !.pc = "dial", !.attempt = op.attempt + 1]
        /\ UNCHANGED <<client, conns, txID, drainers, camera>>
    BY <1>8 DEF Retry
  <2>2. op.attempt + 1 \in 0 .. MaxAttempts
    BY <2>1, <1>1, AttemptsAssumption DEF Op
  <2>3. op' \in Op /\ op'.pc = "dial" /\ op'.cmd = op.cmd /\ op'.evt = op.evt
    BY <2>1, <2>2, <1>1, <1>2 DEF Op
  <2>4. TypeOK'
    BY <2>1, <2>3, <1>1 DEF TypeOK, client, conns, camera
  <2>5. PhaseOK'
    BY <2>1, <2>3 DEF Inv, PhaseOK, client, conns
  <2>6. SocketsOwned'
    BY <2>1, <2>3 DEF Inv, SocketsOwned, conns
  <2> QED BY <2>4, <2>5, <2>6 DEF Inv
<1>9. CASE NotConnected
  <2>1. op.pc = "backoff" /\ Return /\ UNCHANGED <<conns, txID, drainers, camera>>
    BY <1>9 DEF NotConnected
  <2>2. TypeOK'
    BY <2>1, <1>1, Returned, IdleTypes DEF TypeOK, conns, camera
  <2>3. PhaseOK'
    BY <2>1, Returned, IdleTypes DEF PhaseOK
  <2>4. SocketsOwned'
    BY <2>1, Returned, IdleTypes, NothingInHand DEF Inv, SocketsOwned, conns
  <2> QED BY <2>2, <2>3, <2>4 DEF Inv
<1> QED BY <1>3, <1>4, <1>5, <1>6, <1>7, <1>8, <1>9 DEF Handshake

-----------------------------------------------------------------------------
\* Lemma: pings, a dropped connection, and the goroutine of the event channel.
LEMMA CameraInv ==
  ASSUME Inv, (\E s \in Sockets : DrainEvents(s)) \/ SendPing \/ Drop \/ BecomeSteady
  PROVE  Inv'
<1>1. /\ UNCHANGED <<client, op, conns, txID>>
      /\ drainers' \subseteq drainers
      /\ UNCHANGED abandoned
  BY DEF DrainEvents, SendPing, Drop, BecomeSteady, camera
<1>2. wire' \in Seq(Packet)
  <2>1. wire \in Seq(Packet) /\ <<>> \in Seq(Packet)
    BY DEF Inv, TypeOK
  <2>2. Ping \in Packet
    BY TxIDsAssumption, AbandonedAssumption DEF Ping, Packet
  <2>3. Append(wire, Ping) \in Seq(Packet)
    BY <2>1, <2>2
  <2> QED BY <2>1, <2>3 DEF DrainEvents, SendPing, Drop, BecomeSteady, camera
<1>3. alive' \in BOOLEAN /\ steady' \in BOOLEAN
  BY DEF DrainEvents, SendPing, Drop, BecomeSteady, camera, Inv, TypeOK
<1>4. TypeOK'
  BY <1>1, <1>2, <1>3 DEF Inv, TypeOK, client, conns
<1>5. PhaseOK' /\ SocketsOwned'
  BY <1>1 DEF Inv, PhaseOK, SocketsOwned, client, conns
<1> QED BY <1>4, <1>5 DEF Inv

\* Lemma: every step keeps the invariant.
LEMMA StepInv == Inv /\ [Next]_vars => Inv'
<1> SUFFICES ASSUME Inv, [Next]_vars PROVE Inv'
  OBVIOUS
<1>1. CASE Next
  <2>1. CASE Transact
    BY <2>1, RequestInv, ReceiveInv, RecvFailsInv DEF Transact
  <2> QED BY <1>1, <2>1, CallInv, ConnectInv, HandshakeInv, OperateInv, CameraInv DEF Next
<1>2. CASE UNCHANGED vars
  <2>1. TypeOK'
    BY <1>2 DEF Inv, TypeOK, vars, client, conns, camera
  <2>2. PhaseOK' /\ SocketsOwned'
    BY <1>2 DEF Inv, PhaseOK, SocketsOwned, vars, client, conns
  <2> QED BY <2>1, <2>2 DEF Inv
<1> QED BY <1>1, <1>2

\* The client's state has its type, for any number of callers, sockets and
\* attempts: ensureConnected makes no attempt too many, transaction numbers
\* wrap, and the wire holds packets only.
THEOREM SessionTypes == Spec => []TypeOK
<1>1. Spec => []Inv
  BY InitInv, StepInv, PTL DEF Spec
<1>2. Inv => TypeOK
  BY DEF Inv
<1> QED BY <1>1, <1>2, PTL

\* No socket is ever lost: whatever handshake, cancellation or failure ends an
\* operation, open are exactly the two channels of the client and those that
\* connect has in hand.
THEOREM SocketsAreOwned == Spec => []SocketsOwned
<1>1. Spec => []Inv
  BY InitInv, StepInv, PTL DEF Spec
<1>2. Inv => SocketsOwned
  BY DEF Inv
<1> QED BY <1>1, <1>2, PTL

-----------------------------------------------------------------------------
(* Replies are matched to their questions: the payload of a transaction is    *)
(* its own, and a success leaves the channel in step, although replies may    *)
(* come late and transaction numbers wrap.                                    *)

\* How many transactions ago tx was, when t is the current one.
Age(t, tx) == IF tx <= t THEN t - tx ELSE t + TxIDs - tx

Busy == op.pc \in {"data", "response"}

\* The places of reply packets in the wire, and of those of this transaction.
Packs == {i \in DOMAIN wire : wire[i].kind # "ping"}
Own == {i \in Packs : wire[i].tx = txID}

\* Replies lie in the wire in the order of their transactions, and each ends
\* with its response.
Ordered ==
  \A i, j \in Packs : i < j =>
    /\ Age(txID, wire[j].tx) <= Age(txID, wire[i].tx)
    /\ wire[i].kind = "response" => Age(txID, wire[j].tx) < Age(txID, wire[i].tx)

\* No reply is older than the transactions given up allow.
Recent ==
  \A i \in Packs : /\ Age(txID, wire[i].tx) <= abandoned
                   /\ ~Busy => Age(txID, wire[i].tx) < abandoned

\* What of the current reply is still in the wire fits what buf holds of it.
DataOK ==
  op.pc = "data" =>
    \A i \in Own :
      /\ wire[i].kind # "response" => wire[i].about = op.ask
      /\ wire[i].kind \in {"start", "data"} => op.buf = <<>>
      /\ wire[i].kind = "data" => \A j \in Own : j > i => wire[j].kind \in {"end", "response"}
      /\ wire[i].kind = "end" =>
           op.buf = <<op.ask>> \/ \E j \in Own : j < i /\ wire[j].kind = "data"

Sync == Ordered /\ Recent /\ DataOK /\ OwnData /\ SuccessInSync

-----------------------------------------------------------------------------
(* Ages.                                                                     *)

\* Lemma: transaction numbers wrap.
LEMMA NextTxIDIs ==
  ASSUME txID \in 0 .. TxIDs - 1
  PROVE  nextTxID = IF txID + 1 = TxIDs THEN 0 ELSE txID + 1
BY TxIDsAssumption, AbandonedAssumption DEF nextTxID

\* Lemma: the next request ages what is in the wire by one, without wrapping.
LEMMA AgeNext ==
  ASSUME txID \in 0 .. TxIDs - 1, NEW tx \in 0 .. TxIDs - 1,
         Age(txID, tx) < MaxAbandoned
  PROVE  Age(nextTxID, tx) = Age(txID, tx) + 1 /\ tx # nextTxID
BY NextTxIDIs, TxIDsAssumption, AbandonedAssumption DEF Age

\* Lemma: ages are natural numbers, and zero is the current transaction.
LEMMA AgeType ==
  ASSUME NEW t \in 0 .. TxIDs - 1, NEW tx \in 0 .. TxIDs - 1
  PROVE  Age(t, tx) \in Nat /\ (Age(t, tx) = 0 <=> tx = t)
BY TxIDsAssumption, AbandonedAssumption DEF Age

\* Lemma: packets have a transaction number, which data packets share with
\* their question.
LEMMA PacketParts ==
  ASSUME Inv, NEW i \in DOMAIN wire
  PROVE  /\ wire[i] \in Packet
         /\ wire[i].tx \in 0 .. TxIDs - 1
         /\ wire[i].kind \in {"start", "data", "end", "response", "ping"}
<1>1. wire \in Seq(Packet)
  BY DEF Inv, TypeOK
<1>2. wire[i] \in Packet
  BY <1>1
<1> QED BY <1>2 DEF Packet

\* Lemma: receiving a packet moves the others up by one place.
LEMMA TailPlaces ==
  ASSUME Inv, wire # <<>>, wire' = Tail(wire)
  PROVE  /\ 1 \in DOMAIN wire /\ Head(wire) = wire[1]
         /\ \A i \in DOMAIN wire' : i + 1 \in DOMAIN wire /\ i >= 1 /\ wire'[i] = wire[i + 1]
         /\ \A i \in DOMAIN wire : i # 1 => i - 1 \in DOMAIN wire' /\ wire'[i - 1] = wire[i]
<1>1. wire \in Seq(Packet)
  BY DEF Inv, TypeOK
<1> QED BY <1>1

\* Lemma: the same, for the places of replies.
LEMMA TailPacks ==
  ASSUME Inv, wire # <<>>, wire' = Tail(wire), txID' = txID
  PROVE  /\ \A i \in Packs' : i + 1 \in Packs /\ i \in Nat /\ i >= 1 /\ wire'[i] = wire[i + 1]
         /\ \A i \in Own' : i + 1 \in Own /\ i \in Nat /\ i >= 1 /\ wire'[i] = wire[i + 1]
         /\ \A i \in Own : i # 1 => i - 1 \in Own' /\ wire'[i - 1] = wire[i]
         /\ \A i \in Packs : i \in Nat /\ i >= 1
<1>1. wire \in Seq(Packet) /\ wire' \in Seq(Packet)
  BY DEF Inv, TypeOK
<1> QED BY <1>1, TailPlaces DEF Packs, Own

\* Lemma: receiving a packet keeps the order of the others.
LEMMA TailOrdered ==
  ASSUME Inv, Ordered, wire # <<>>, wire' = Tail(wire), txID' = txID
  PROVE  Ordered'
<1> SUFFICES ASSUME NEW i \in Packs', NEW j \in Packs', i < j
             PROVE  /\ Age(txID, wire'[j].tx) <= Age(txID, wire'[i].tx)
                    /\ wire'[i].kind = "response" =>
                         Age(txID, wire'[j].tx) < Age(txID, wire'[i].tx)
  BY DEF Ordered
<1>1. /\ i + 1 \in Packs /\ i \in Nat /\ wire'[i] = wire[i + 1]
      /\ j + 1 \in Packs /\ j \in Nat /\ wire'[j] = wire[j + 1]
  BY TailPacks
<1>2. i + 1 < j + 1
  BY <1>1
<1> QED BY <1>1, <1>2 DEF Ordered

-----------------------------------------------------------------------------
(* Steps that leave the replies alone, or take all of them away.             *)

\* Lemma: an empty wire is in step.
LEMMA EmptySync ==
  ASSUME wire' = <<>>, OwnData'
  PROVE  Sync'
<1>1. Packs' = {} /\ Own' = {} /\ DOMAIN wire' = {}
  BY DEF Packs, Own
<1>2. Ordered' /\ Recent' /\ DataOK' /\ SuccessInSync'
  BY <1>1 DEF Ordered, Recent, DataOK, SuccessInSync
<1> QED BY <1>2 DEF Sync

\* Lemma: a step that leaves the replies and the locals alone.
LEMMA KeepSync ==
  ASSUME Sync, UNCHANGED <<wire, txID, abandoned, op>>
  PROVE  Sync'
<1>1. Packs' = Packs /\ Own' = Own
  BY DEF Packs, Own
<1>2. Ordered' /\ Recent'
  BY <1>1 DEF Sync, Ordered, Recent, Busy
<1>3. DataOK' /\ OwnData' /\ SuccessInSync'
  BY <1>1 DEF Sync, DataOK, OwnData, SuccessInSync
<1> QED BY <1>2, <1>3 DEF Sync

\* Lemma: a step between transactions.
LEMMA QuietSync ==
  ASSUME Sync, UNCHANGED <<wire, txID, abandoned>>, ~Busy, ~Busy',
         ~(op'.pc = "next" /\ op'.stage \in StrictStages /\ op'.todo = {})
  PROVE  Sync'
<1>1. Packs' = Packs
  BY DEF Packs
<1>2. Ordered' /\ Recent'
  BY <1>1 DEF Sync, Ordered, Recent
<1>3. DataOK' /\ OwnData' /\ SuccessInSync'
  BY DEF DataOK, OwnData, SuccessInSync, Busy
<1> QED BY <1>2, <1>3 DEF Sync

\* Lemma: a ping is no reply.
LEMMA PingSync ==
  ASSUME Inv, Sync, SendPing
  PROVE  Sync'
<1>1. wire \in Seq(Packet) /\ wire' = Append(wire, Ping) /\ Ping.kind = "ping"
      /\ UNCHANGED <<txID, abandoned, op>>
  BY DEF Inv, TypeOK, SendPing, Ping
<1>2. DOMAIN wire' = DOMAIN wire \cup {Len(wire) + 1}
      /\ (\A i \in DOMAIN wire : wire'[i] = wire[i]) /\ wire'[Len(wire) + 1].kind = "ping"
  <2> HIDE DEF Ping
  <2>1. Ping \in Packet
    BY TxIDsAssumption, AbandonedAssumption DEF Ping, Packet
  <2> QED BY <1>1, <2>1
<1>3. Packs' = Packs /\ Own' = Own /\ \A i \in Packs : wire'[i] = wire[i]
  BY <1>1, <1>2 DEF Packs, Own
<1>4. Ordered' /\ Recent'
  BY <1>1, <1>3 DEF Sync, Ordered, Recent, Busy
<1>5. Own \subseteq Packs
  BY DEF Own
<1>6. DataOK'
  <2> SUFFICES ASSUME op.pc = "data", NEW i \in Own
               PROVE  /\ wire'[i].kind # "response" => wire'[i].about = op.ask
                      /\ wire'[i].kind \in {"start", "data"} => op.buf = <<>>
                      /\ wire'[i].kind = "data" =>
                           \A j \in Own : j > i => wire'[j].kind \in {"end", "response"}
                      /\ wire'[i].kind = "end" =>
                           op.buf = <<op.ask>> \/ \E j \in Own : j < i /\ wire'[j].kind = "data"
    BY <1>1, <1>3 DEF DataOK
  <2>1. \A j \in Own : wire'[j] = wire[j]
    BY <1>3, <1>5
  <2> QED BY <2>1 DEF Sync, DataOK
<1>7. OwnData' /\ SuccessInSync'
  BY <1>1, <1>2 DEF Sync, OwnData, SuccessInSync
<1> QED BY <1>4, <1>6, <1>7 DEF Sync

\* Lemma: an operation begins with something to ask.
LEMMA BeginAsks ==
  ASSUME NEW kind \in Kinds \cup {"none"}, NEW o \in Objects
  PROVE  Begin(kind, o).pc = "next" /\ Begin(kind, o).todo # {}
BY DEF Begin, Idle

\* Lemma: giving a transaction up allows what it leaves in the wire.
LEMMA RecvFailsSync ==
  ASSUME Inv, Sync, RecvFails
  PROVE  Sync'
<1>1. op \in Op
  BY DEF Inv, TypeOK
<1>2. op'.pc = "failed" /\ UNCHANGED txID
  BY <1>1 DEF RecvFails, Op
<1>3. OwnData' /\ DataOK' /\ SuccessInSync' /\ ~Busy'
  BY <1>2 DEF OwnData, DataOK, SuccessInSync, Busy
<1>4. CASE abandoned' = abandoned + 1 /\ wire' = wire
  <2>1. Packs' = Packs
    BY <1>4 DEF Packs
  <2>2. Ordered'
    BY <1>2, <1>4, <2>1 DEF Sync, Ordered
  <2>3. ASSUME NEW i \in Packs
        PROVE  Age(txID, wire[i].tx) < abandoned + 1 /\ Age(txID, wire[i].tx) <= abandoned + 1
    <3>1. i \in DOMAIN wire
      BY DEF Packs
    <3>2. Age(txID, wire[i].tx) \in Nat
      BY <3>1, PacketParts, AgeType DEF Inv, TypeOK
    <3>3. abandoned \in Nat
      BY AbandonedAssumption DEF Inv, TypeOK
    <3>4. Age(txID, wire[i].tx) <= abandoned
      BY DEF Sync, Recent
    <3> QED BY <3>2, <3>3, <3>4
  <2>4. Recent'
    BY <1>2, <1>4, <2>1, <2>3 DEF Recent
  <2> QED BY <1>3, <2>2, <2>4 DEF Sync
<1>5. CASE wire' = <<>>
  BY <1>3, <1>5, EmptySync
<1> QED BY <1>4, <1>5 DEF RecvFails

-----------------------------------------------------------------------------
(* A request, and its reply at the end of the wire.                          *)

\* A whole reply to q, or what there is of one.
ReplyTo(q, tx, reply) ==
  /\ reply \in Seq(Packet)
  /\ \A k \in DOMAIN reply :
       /\ reply[k].tx = tx
       /\ reply[k].kind # "ping"
       /\ reply[k].kind = "response" => k = Len(reply)
       /\ reply[k].kind # "response" => reply[k].about = q
       /\ reply[k].kind = "data" => \A j \in DOMAIN reply : j > k => reply[j].kind \in {"end", "response"}
       /\ reply[k].kind = "end" => \E j \in DOMAIN reply : j < k /\ reply[j].kind = "data"

\* Lemma: a tuple grows by one.
LEMMA AppendToThree ==
  ASSUME NEW S, NEW a \in S, NEW b \in S, NEW c \in S, NEW d \in S
  PROVE  <<a, b, c>> \o <<d>> = <<a, b, c, d>>
<1> DEFINE l == <<a, b, c>> \o <<d>>
           r == <<a, b, c, d>>
<1>1. l \in Seq(S) /\ Len(l) = 4 /\ l[1] = a /\ l[2] = b /\ l[3] = c /\ l[4] = d
  OBVIOUS
<1>2. r \in Seq(S) /\ Len(r) = 4 /\ r[1] = a /\ r[2] = b /\ r[3] = c /\ r[4] = d
  OBVIOUS
<1>3. \A i \in 1 .. 4 : l[i] = r[i]
  <2> HIDE DEF l, r
  <2> QED BY <1>1, <1>2
<1> HIDE DEF l, r
<1>4. l = r
  BY <1>1, <1>2, <1>3
<1> QED BY <1>4 DEF l, r

\* Lemma: a tuple of one grows by one.
LEMMA AppendToOne ==
  ASSUME NEW a
  PROVE  Append(<<a>>, a) = <<a, a>>
<1> DEFINE l == Append(<<a>>, a)
           r == <<a, a>>
<1>1. l \in Seq({a}) /\ Len(l) = 2 /\ l[1] = a /\ l[2] = a
  <2>1. <<a>> \in Seq({a})
    OBVIOUS
  <2> QED BY <2>1
<1>2. r \in Seq({a}) /\ Len(r) = 2 /\ r[1] = a /\ r[2] = a
  OBVIOUS
<1>3. \A i \in 1 .. 2 : l[i] = r[i]
  <2> HIDE DEF l, r
  <2> QED BY <1>1, <1>2
<1> HIDE DEF l, r
<1>4. l = r
  BY <1>1, <1>2, <1>3
<1> QED BY <1>4 DEF l, r

\* Lemma: the camera's replies are of this form.
LEMMA RepliesFit ==
  ASSUME NEW q \in Questions, NEW tx \in 0 .. TxIDs - 1, NEW data \in BOOLEAN,
         NEW reply \in Replies(q, tx, data)
  PROVE  ReplyTo(q, tx, reply)
<1> DEFINE packet(kind) == [kind |-> kind, tx |-> tx, about |-> q, ok |-> TRUE]
           full == <<packet("start"), packet("data"), packet("end"), Response(tx, TRUE)>>
<1>1. reply \in Seq(Packet)
  BY ReplyPackets
<1>2. /\ packet("start") \in Packet /\ packet("data") \in Packet /\ packet("end") \in Packet
      /\ Response(tx, TRUE) \in Packet /\ Response(tx, FALSE) \in Packet
  BY DEF Response, Packet
<1>3. reply = full \/ reply = <<Response(tx, TRUE)>> \/ reply = <<Response(tx, FALSE)>>
      \/ reply = <<>>
  <2>1. DataPhase(q, tx) = <<packet("start"), packet("data"), packet("end")>>
    BY DEF DataPhase
  <2>2. DataPhase(q, tx) \o <<Response(tx, TRUE)>> = full
    <3> DEFINE a == packet("start")
               b == packet("data")
               c == packet("end")
               d == Response(tx, TRUE)
    <3>1. a \in Packet /\ b \in Packet /\ c \in Packet /\ d \in Packet
      BY <1>2
    <3> HIDE DEF a, b, c, d
    <3>2. <<a, b, c>> \o <<d>> = <<a, b, c, d>>
      BY ONLY <3>1, AppendToThree
    <3> QED BY <2>1, <3>2 DEF a, b, c, d
  <2>3. <<>> \o <<Response(tx, TRUE)>> = <<Response(tx, TRUE)>>
    BY <1>2
  <2> HIDE DEF full
  <2> QED BY <2>2, <2>3 DEF Replies
<1>4. CASE reply = full
  <2>1. /\ DOMAIN reply = 1 .. 4 /\ Len(reply) = 4
        /\ reply[1] = packet("start") /\ reply[2] = packet("data") /\ reply[3] = packet("end")
        /\ reply[4] = Response(tx, TRUE)
    <3> HIDE DEF packet
    <3> QED BY <1>4
  <2>2. DOMAIN reply = {1, 2, 3, 4}
    BY <2>1
  <2> HIDE DEF full
  <2> QED BY <1>1, <2>1, <2>2 DEF ReplyTo, Response
<1>5. CASE reply = <<Response(tx, TRUE)>> \/ reply = <<Response(tx, FALSE)>>
  <2>1. PICK ok \in BOOLEAN : reply = <<Response(tx, ok)>>
    BY <1>5
  <2>2. DOMAIN reply = {1} /\ Len(reply) = 1 /\ reply[1] = Response(tx, ok)
    BY <2>1
  <2> QED BY <1>1, <2>2 DEF ReplyTo, Response
<1>6. CASE reply = <<>>
  BY <1>1, <1>6 DEF ReplyTo
<1> QED BY <1>3, <1>4, <1>5, <1>6

\* Lemma: what a request adds is the only reply of its transaction.
LEMMA RequestPlaces ==
  ASSUME Inv, Sync, ~Busy, txID' = nextTxID,
         NEW q, NEW reply, ReplyTo(q, nextTxID, reply), wire' = wire \o reply
  PROVE  /\ Len(wire) \in Nat
         /\ \A i \in Packs' : \/ /\ i \in Packs /\ i <= Len(wire) /\ wire'[i] = wire[i]
                                 /\ Age(txID', wire'[i].tx) = Age(txID, wire[i].tx) + 1
                                 /\ Age(txID, wire[i].tx) \in Nat
                              \/ /\ i - Len(wire) \in DOMAIN reply /\ i > Len(wire) /\ i \in Nat
                                 /\ wire'[i] = reply[i - Len(wire)]
                                 /\ Age(txID', wire'[i].tx) = 0
         /\ Own' = {i \in Packs' : i > Len(wire)}
         /\ \A k \in DOMAIN reply : k \in Nat /\ k <= Len(reply) /\ k + Len(wire) \in Own'
<1>1. wire \in Seq(Packet) /\ reply \in Seq(Packet)
  BY DEF Inv, TypeOK, ReplyTo
<1>2. txID \in 0 .. TxIDs - 1 /\ nextTxID \in 0 .. TxIDs - 1
  BY NextTxIDType DEF Inv, TypeOK
<1>3. /\ \A i \in DOMAIN wire' : \/ i \in DOMAIN wire /\ i <= Len(wire) /\ wire'[i] = wire[i]
                                 \/ /\ i - Len(wire) \in DOMAIN reply /\ i > Len(wire)
                                    /\ i \in Nat /\ wire'[i] = reply[i - Len(wire)]
      /\ \A k \in DOMAIN reply : /\ k \in Nat /\ k >= 1 /\ k <= Len(reply)
                                 /\ k + Len(wire) \in DOMAIN wire'
                                 /\ wire'[k + Len(wire)] = reply[k]
      /\ Len(wire) \in Nat
  BY <1>1
<1>4. ASSUME NEW i \in Packs
      PROVE  /\ Age(nextTxID, wire[i].tx) = Age(txID, wire[i].tx) + 1
             /\ Age(txID, wire[i].tx) \in Nat
             /\ wire[i].tx # nextTxID
  <2>1. wire[i].tx \in 0 .. TxIDs - 1
    BY PacketParts DEF Packs
  <2>2. Age(txID, wire[i].tx) < abandoned /\ abandoned \in 0 .. MaxAbandoned
    BY DEF Sync, Recent, Inv, TypeOK
  <2>3. Age(txID, wire[i].tx) \in Nat
    BY <1>2, <2>1, AgeType
  <2>4. Age(txID, wire[i].tx) < MaxAbandoned
    BY <2>2, <2>3, AbandonedAssumption
  <2> QED BY <1>2, <2>1, <2>3, <2>4, AgeNext
<1>5. ASSUME NEW k \in DOMAIN reply
      PROVE  /\ reply[k].tx = nextTxID /\ reply[k].kind # "ping" /\ Age(nextTxID, reply[k].tx) = 0
  BY <1>2, AgeType DEF ReplyTo
<1>6. ASSUME NEW i \in Packs'
      PROVE  \/ /\ i \in Packs /\ i <= Len(wire) /\ wire'[i] = wire[i]
                /\ Age(txID', wire'[i].tx) = Age(txID, wire[i].tx) + 1
                /\ Age(txID, wire[i].tx) \in Nat
                /\ wire'[i].tx # txID'
             \/ /\ i - Len(wire) \in DOMAIN reply /\ i > Len(wire) /\ i \in Nat
                /\ wire'[i] = reply[i - Len(wire)]
                /\ Age(txID', wire'[i].tx) = 0
                /\ wire'[i].tx = txID'
  <2>1. i \in DOMAIN wire' /\ wire'[i].kind # "ping"
    BY DEF Packs
  <2>2. CASE i \in DOMAIN wire /\ i <= Len(wire) /\ wire'[i] = wire[i]
    <3>1. i \in Packs
      BY <2>1, <2>2 DEF Packs
    <3> QED BY <2>2, <3>1, <1>4
  <2>3. CASE i - Len(wire) \in DOMAIN reply /\ i > Len(wire) /\ i \in Nat
             /\ wire'[i] = reply[i - Len(wire)]
    BY <2>3, <1>5
  <2> QED BY <1>3, <2>1, <2>2, <2>3
<1>7. Own' = {i \in Packs' : i > Len(wire)}
  <2>1. \A i \in Packs' : wire'[i].tx = txID' <=> i > Len(wire)
    <3>1. TAKE i \in Packs'
    <3>2. CASE i \in Packs /\ i <= Len(wire) /\ wire'[i].tx # txID'
      <4>1. i \in Nat
        BY <1>1, <3>2 DEF Packs
      <4>2. Len(wire) \in Nat
        BY <1>1
      <4>3. ~(i > Len(wire))
        BY <3>2, <4>1, <4>2
      <4> QED BY <3>2, <4>3
    <3>3. CASE i > Len(wire) /\ wire'[i].tx = txID'
      BY <3>3
    <3> QED BY <1>6, <3>2, <3>3
  <2> QED BY <2>1 DEF Own
<1>8. ASSUME NEW k \in DOMAIN reply
      PROVE  k + Len(wire) \in Own'
  <2>1. k + Len(wire) \in Packs' /\ k + Len(wire) > Len(wire)
    BY <1>3, <1>5 DEF Packs
  <2> QED BY <1>7, <2>1
<1> QED BY <1>3, <1>6, <1>7, <1>8

\* Lemma: a request is sent.
LEMMA RequestSync ==
  ASSUME Inv, Sync, NEW q \in Questions, Request(q)
  PROVE  Sync'
<1>1. op \in Op /\ op.pc = "next" /\ txID' = nextTxID /\ abandoned' = abandoned
  BY DEF Inv, TypeOK, Request
<1>2. /\ op'.pc = IF WantsData(op.stage, op.kind) THEN "data" ELSE "response"
      /\ op'.stage = op.stage /\ op'.kind = op.kind /\ op'.ask = q /\ op'.buf = <<>>
  BY <1>1 DEF Request, Op
<1>3. PICK reply : ReplyTo(q, nextTxID, reply) /\ wire' = wire \o reply
  <2>1. PICK reply \in IF alive THEN Replies(q, nextTxID, WantsData(op.stage, op.kind))
                       ELSE {<<>>} : wire' = wire \o reply
    BY DEF Request
  <2>2. WantsData(op.stage, op.kind) \in BOOLEAN
    BY DEF WantsData
  <2>3. nextTxID \in 0 .. TxIDs - 1
    BY NextTxIDType DEF Inv, TypeOK
  <2>4. ReplyTo(q, nextTxID, <<>>)
    <3>1. <<>> \in Seq(Packet)
      OBVIOUS
    <3> QED BY <3>1 DEF ReplyTo
  <2>5. ReplyTo(q, nextTxID, reply)
    BY <2>1, <2>2, <2>3, <2>4, RepliesFit
  <2> QED BY <2>1, <2>5
<1> DEFINE N == Len(wire)
<1>4. ~Busy
  BY <1>1 DEF Busy
<1>5. /\ N \in Nat
      /\ \A i \in Packs' : \/ /\ i \in Packs /\ i <= N /\ wire'[i] = wire[i]
                              /\ Age(txID', wire'[i].tx) = Age(txID, wire[i].tx) + 1
                              /\ Age(txID, wire[i].tx) \in Nat
                           \/ /\ i - N \in DOMAIN reply /\ i > N /\ i \in Nat
                              /\ wire'[i] = reply[i - N]
                              /\ Age(txID', wire'[i].tx) = 0
      /\ Own' = {i \in Packs' : i > N}
      /\ \A k \in DOMAIN reply : k \in Nat /\ k <= Len(reply) /\ k + N \in Own'
  BY <1>1, <1>3, <1>4, RequestPlaces
<1> HIDE DEF N
<1>6. \A i \in Packs : i \in Nat
  <2>1. wire \in Seq(Packet)
    BY DEF Inv, TypeOK
  <2> QED BY <2>1 DEF Packs
<1>7. ASSUME NEW i \in Packs'
       PROVE  /\ i \in Nat
              /\ i <= N => /\ i \in Packs /\ wire'[i] = wire[i]
                           /\ Age(txID', wire'[i].tx) = Age(txID, wire[i].tx) + 1
                           /\ Age(txID, wire[i].tx) \in Nat
              /\ i > N => /\ i - N \in DOMAIN reply /\ wire'[i] = reply[i - N]
                          /\ Age(txID', wire'[i].tx) = 0
  <2>1. CASE i \in Packs /\ i <= N
    <3>1. i \in Nat /\ N \in Nat /\ ~(i > N)
      BY <2>1, <1>5, <1>6
    <3> QED BY <2>1, <3>1, <1>5
  <2>2. CASE i > N /\ i \in Nat
    <3>1. N \in Nat /\ ~(i <= N)
      BY <2>2, <1>5
    <3> QED BY <2>2, <3>1, <1>5
  <2> QED BY <2>1, <2>2, <1>5
<1>8. Ordered'
  <2> SUFFICES ASSUME NEW i \in Packs', NEW j \in Packs', i < j
               PROVE  /\ Age(txID', wire'[j].tx) <= Age(txID', wire'[i].tx)
                      /\ wire'[i].kind = "response" =>
                           Age(txID', wire'[j].tx) < Age(txID', wire'[i].tx)
    BY DEF Ordered
  <2>1. CASE i <= N /\ j <= N
    <3>1. /\ wire'[i] = wire[i] /\ wire'[j] = wire[j]
          /\ Age(txID', wire'[i].tx) = Age(txID, wire[i].tx) + 1
          /\ Age(txID', wire'[j].tx) = Age(txID, wire[j].tx) + 1
          /\ Age(txID, wire[i].tx) \in Nat /\ Age(txID, wire[j].tx) \in Nat
          /\ i \in Packs /\ j \in Packs
      BY <2>1, <1>7
    <3>2. /\ Age(txID, wire[j].tx) <= Age(txID, wire[i].tx)
          /\ wire[i].kind = "response" => Age(txID, wire[j].tx) < Age(txID, wire[i].tx)
      BY <3>1 DEF Sync, Ordered
    <3> QED BY <3>1, <3>2
  <2>2. CASE i <= N /\ j > N
    <3>1. /\ Age(txID', wire'[i].tx) = Age(txID, wire[i].tx) + 1 /\ Age(txID, wire[i].tx) \in Nat
          /\ Age(txID', wire'[j].tx) = 0
      BY <2>2, <1>7
    <3> QED BY <3>1
  <2>3. CASE i > N /\ j > N
    <3>1. /\ i - N \in DOMAIN reply /\ wire'[i] = reply[i - N] /\ Age(txID', wire'[i].tx) = 0
          /\ j - N \in DOMAIN reply /\ wire'[j] = reply[j - N] /\ Age(txID', wire'[j].tx) = 0
      BY <2>3, <1>7
    <3>2. i - N # Len(reply)
      <4>1. j - N <= Len(reply) /\ Len(reply) \in Nat
        BY <3>1, <1>3, <1>5 DEF ReplyTo
      <4>2. i \in Nat /\ j \in Nat /\ N \in Nat
        BY <1>5, <1>7
      <4> QED BY <4>1, <4>2
    <3>3. wire'[i].kind # "response"
      BY <3>1, <3>2, <1>3 DEF ReplyTo
    <3> QED BY <3>1, <3>3
  <2>4. CASE i > N /\ j <= N
    <3>1. i \in Nat /\ j \in Nat /\ N \in Nat
      BY <1>5, <1>7
    <3> QED BY <2>4, <3>1
  <2>5. i \in Nat /\ j \in Nat /\ N \in Nat
    BY <1>5, <1>7
  <2> QED BY <2>1, <2>2, <2>3, <2>4, <2>5
<1>9. Recent'
  <2>1. Busy'
    BY <1>2 DEF Busy
  <2>2. ASSUME NEW i \in Packs'
        PROVE  Age(txID', wire'[i].tx) <= abandoned
    <3>1. abandoned \in Nat
      BY AbandonedAssumption DEF Inv, TypeOK
    <3>2. \A k \in Packs : Age(txID, wire[k].tx) < abandoned
      BY <1>4 DEF Sync, Recent
    <3> QED BY <1>5, <3>1, <3>2
  <2> QED BY <1>1, <2>1, <2>2 DEF Recent
<1>10. DataOK'
  <2> SUFFICES ASSUME NEW i \in Own'
               PROVE  /\ wire'[i].kind # "response" => wire'[i].about = q
                      /\ wire'[i].kind = "data" =>
                           \A j \in Own' : j > i => wire'[j].kind \in {"end", "response"}
                      /\ wire'[i].kind = "end" => \E j \in Own' : j < i /\ wire'[j].kind = "data"
    BY <1>2 DEF DataOK
  <2>1. ASSUME NEW j \in Own'
        PROVE  j > N /\ j \in Nat /\ j - N \in DOMAIN reply /\ wire'[j] = reply[j - N]
    <3>1. j \in Packs' /\ j > N
      BY <1>5
    <3> QED BY <3>1, <1>7
  <2>2. wire'[i].kind # "response" => wire'[i].about = q
    <3>1. i - N \in DOMAIN reply /\ wire'[i] = reply[i - N]
      BY <2>1
    <3> QED BY <3>1, <1>3 DEF ReplyTo
  <2>3. ASSUME wire'[i].kind = "data", NEW j \in Own', j > i
        PROVE  wire'[j].kind \in {"end", "response"}
    <3>1. /\ i - N \in DOMAIN reply /\ wire'[i] = reply[i - N]
          /\ j - N \in DOMAIN reply /\ wire'[j] = reply[j - N]
          /\ j - N > i - N
      BY <2>1, <2>3, <1>5
    <3> QED BY <3>1, <2>3, <1>3 DEF ReplyTo
  <2>4. ASSUME wire'[i].kind = "end"
        PROVE  \E j \in Own' : j < i /\ wire'[j].kind = "data"
    <3>1. i \in Nat /\ i - N \in DOMAIN reply /\ wire'[i] = reply[i - N]
      BY <2>1
    <3>2. PICK k \in DOMAIN reply : k < i - N /\ reply[k].kind = "data"
      BY <3>1, <2>4, <1>3 DEF ReplyTo
    <3>3. k + N \in Own' /\ k \in Nat
      BY <1>5
    <3>4. k + N < i /\ (k + N) - N = k
      BY <3>1, <3>2, <3>3, <1>5
    <3>5. wire'[k + N] = reply[k]
      BY <2>1, <3>3, <3>4
    <3> QED BY <3>2, <3>3, <3>4, <3>5
  <2> QED BY <2>2, <2>3, <2>4
<1>11. OwnData' /\ SuccessInSync'
  BY <1>2 DEF OwnData, SuccessInSync
<1> QED BY <1>8, <1>9, <1>10, <1>11 DEF Sync

-----------------------------------------------------------------------------
(* Receiving.                                                                *)

\* Lemma: a packet that changes nothing is received: a ping, a packet of
\* another transaction, or the start of the data.
LEMMA SkipSync ==
  ASSUME Inv, Sync, Busy, wire # <<>>, wire' = Tail(wire),
         UNCHANGED <<txID, abandoned, op>>,
         op.pc = "data" /\ 1 \in Own => wire[1].kind = "start"
  PROVE  Sync'
<1>1. Ordered'
  BY TailOrdered DEF Sync
<1>2. Recent'
  BY TailPacks DEF Sync, Recent, Busy
<1>3. DataOK'
  <2> SUFFICES ASSUME op.pc = "data", NEW i \in Own'
               PROVE  /\ wire'[i].kind # "response" => wire'[i].about = op.ask
                      /\ wire'[i].kind \in {"start", "data"} => op.buf = <<>>
                      /\ wire'[i].kind = "data" =>
                           \A j \in Own' : j > i => wire'[j].kind \in {"end", "response"}
                      /\ wire'[i].kind = "end" =>
                           op.buf = <<op.ask>> \/ \E j \in Own' : j < i /\ wire'[j].kind = "data"
    BY DEF DataOK
  <2>1. i + 1 \in Own /\ i \in Nat /\ wire'[i] = wire[i + 1]
    BY TailPacks
  <2>2. /\ wire'[i].kind # "response" => wire'[i].about = op.ask
        /\ wire'[i].kind \in {"start", "data"} => op.buf = <<>>
    BY <2>1 DEF Sync, DataOK
  <2>3. ASSUME wire'[i].kind = "data", NEW j \in Own', j > i
        PROVE  wire'[j].kind \in {"end", "response"}
    <3>1. j + 1 \in Own /\ j \in Nat /\ wire'[j] = wire[j + 1]
      BY TailPacks
    <3>2. j + 1 > i + 1
      BY <2>1, <2>3, <3>1
    <3> QED BY <2>1, <2>3, <3>1, <3>2 DEF Sync, DataOK
  <2>4. ASSUME wire'[i].kind = "end", op.buf # <<op.ask>>
        PROVE  \E j \in Own' : j < i /\ wire'[j].kind = "data"
    <3>1. PICK k \in Own : k < i + 1 /\ wire[k].kind = "data"
      <4>1. /\ i + 1 \in Own /\ wire[i + 1].kind = "end" /\ op.buf # <<op.ask>>
            /\ op.pc = "data"
        BY <2>1, <2>4
      <4>2. DataOK
        BY DEF Sync
      <4> QED
        BY ONLY <4>1, <4>2 DEF DataOK
    <3>2. k # 1
      BY <3>1
    <3>3. k - 1 \in Own' /\ wire'[k - 1] = wire[k] /\ k \in Nat
      <4>1. k \in Packs
        BY DEF Own
      <4> QED BY <3>2, <4>1, TailPacks
    <3>4. k - 1 < i
      BY <2>1, <3>1, <3>3
    <3> QED BY <3>1, <3>3, <3>4
  <2> QED BY <2>2, <2>3, <2>4
<1>4. OwnData' /\ SuccessInSync'
  BY DEF Sync, OwnData, SuccessInSync, Busy
<1> QED BY <1>1, <1>2, <1>3, <1>4 DEF Sync

\* Lemma: the data of the transaction is received.
LEMMA OwnDataSync ==
  ASSUME Inv, Sync, wire # <<>>, wire' = Tail(wire), UNCHANGED <<txID, abandoned>>,
         op.pc = "data", 1 \in Own, wire[1].kind = "data",
         op' = [op EXCEPT !.buf = Append(@, wire[1].about)]
  PROVE  Sync'
<1>1. op \in Op
  BY DEF Inv, TypeOK
<1>2. op.buf = <<>> /\ wire[1].about = op.ask
      /\ \A j \in Own : j > 1 => wire[j].kind \in {"end", "response"}
  BY DEF Sync, DataOK
<1>3. op'.buf = <<op.ask>> /\ op'.pc = "data" /\ op'.ask = op.ask
  BY <1>1, <1>2 DEF Op
<1>4. Ordered'
  BY TailOrdered DEF Sync
<1>5. Recent'
  BY <1>3, TailPacks DEF Sync, Recent, Busy
<1>6. DataOK'
  <2>1. ASSUME NEW i \in Own'
        PROVE  /\ wire'[i].kind \in {"end", "response"}
               /\ wire'[i].kind # "response" => wire'[i].about = op.ask
    <3>1. i + 1 \in Own /\ i \in Nat /\ i >= 1 /\ wire'[i] = wire[i + 1]
      BY TailPacks
    <3>2. i + 1 > 1
      BY <3>1
    <3>3. wire[i + 1].kind # "response" => wire[i + 1].about = op.ask
      BY <3>1 DEF Sync, DataOK
    <3> QED BY <1>2, <3>1, <3>2, <3>3
  <2> QED BY <1>3, <2>1 DEF DataOK
<1>7. OwnData' /\ SuccessInSync'
  BY <1>3 DEF OwnData, SuccessInSync
<1> QED BY <1>4, <1>5, <1>6, <1>7 DEF Sync

\* Lemma: the end of the data is received, and the payload is complete.
LEMMA OwnEndSync ==
  ASSUME Inv, Sync, wire # <<>>, wire' = Tail(wire), UNCHANGED <<txID, abandoned>>,
         op.pc = "data", 1 \in Own, wire[1].kind = "end",
         op' = [op EXCEPT !.buf = Append(@, wire[1].about), !.pc = "response"]
  PROVE  Sync'
<1>1. op \in Op
  BY DEF Inv, TypeOK
<1>2. op.buf = <<op.ask>> /\ wire[1].about = op.ask
  <2>1. \A j \in Own : ~(j < 1)
    BY TailPacks DEF Own
  <2> QED BY <2>1 DEF Sync, DataOK
<1>3. op'.buf = <<op.ask, op.ask>> /\ op'.pc = "response" /\ op'.ask = op.ask
  <2>1. op'.buf = Append(<<op.ask>>, op.ask)
    BY <1>1, <1>2 DEF Op
  <2>2. Append(<<op.ask>>, op.ask) = <<op.ask, op.ask>>
    BY AppendToOne
  <2>3. op'.pc = "response" /\ op'.ask = op.ask
    BY <1>1 DEF Op
  <2> QED BY <2>1, <2>2, <2>3
<1>4. Ordered'
  BY TailOrdered DEF Sync
<1>5. Recent'
  BY <1>3, TailPacks DEF Sync, Recent, Busy
<1>6. DataOK' /\ OwnData' /\ SuccessInSync'
  BY <1>3 DEF DataOK, OwnData, SuccessInSync
<1> QED BY <1>4, <1>5, <1>6 DEF Sync

\* Lemma: a response ends a transaction; only its own can end it with success,
\* and then nothing but pings is behind it.
LEMMA ResponseSync ==
  ASSUME Inv, Sync, wire # <<>>, wire' = Tail(wire), UNCHANGED <<txID, abandoned>>,
         wire[1].kind = "response",
         op'.pc = "failed" \/ (op'.pc = "next" /\ wire[1].tx = txID)
  PROVE  Sync'
<1>1. 1 \in Packs /\ 1 \in DOMAIN wire
  BY TailPlaces DEF Packs
<1>2. abandoned \in Nat /\ txID \in 0 .. TxIDs - 1
  BY AbandonedAssumption DEF Inv, TypeOK
<1>3. Age(txID, wire[1].tx) \in Nat /\ Age(txID, wire[1].tx) <= abandoned
  BY <1>1, <1>2, PacketParts, AgeType DEF Sync, Recent
<1>4. ASSUME NEW i \in Packs'
      PROVE  /\ Age(txID, wire'[i].tx) \in Nat
             /\ Age(txID, wire'[i].tx) < Age(txID, wire[1].tx)
  <2>1. i + 1 \in Packs /\ i \in Nat /\ i >= 1 /\ wire'[i] = wire[i + 1]
    BY TailPacks
  <2>2. 1 < i + 1
    BY <2>1
  <2>3. Age(txID, wire[i + 1].tx) \in Nat
    BY <1>2, <2>1, PacketParts, AgeType DEF Packs
  <2>4. Age(txID, wire[i + 1].tx) < Age(txID, wire[1].tx)
    BY <1>1, <2>1, <2>2 DEF Sync, Ordered
  <2> QED BY <2>1, <2>3, <2>4
<1>5. Recent'
  <2>1. ASSUME NEW i \in Packs'
        PROVE  Age(txID, wire'[i].tx) <= abandoned /\ Age(txID, wire'[i].tx) < abandoned
    <3>1. /\ Age(txID, wire'[i].tx) \in Nat
          /\ Age(txID, wire'[i].tx) < Age(txID, wire[1].tx)
      BY <1>4
    <3>2. \A a, b, c \in Nat : a < b /\ b <= c => a <= c /\ a < c
      OBVIOUS
    <3> QED BY <3>1, <3>2, <1>2, <1>3
  <2> QED BY <2>1 DEF Recent
<1>6. SuccessInSync'
  <2>1. CASE op'.pc = "failed"
    BY <2>1 DEF SuccessInSync
  <2>2. CASE wire[1].tx = txID
    <3>1. Age(txID, wire[1].tx) = 0
      BY <1>2, <2>2, AgeType
    <3>2. Packs' = {}
      <4>1. ASSUME NEW i \in Packs' PROVE FALSE
        <5>1. /\ Age(txID, wire'[i].tx) \in Nat
              /\ Age(txID, wire'[i].tx) < Age(txID, wire[1].tx)
          BY <1>4
        <5>2. \A a \in Nat : ~(a < 0)
          OBVIOUS
        <5> QED BY <3>1, <5>1, <5>2
      <4> QED BY <4>1
    <3> QED BY <3>2 DEF SuccessInSync, Packs
  <2> QED BY <2>1, <2>2
<1>7. Ordered'
  BY TailOrdered DEF Sync
<1>8. DataOK' /\ OwnData'
  BY DEF DataOK, OwnData
<1> QED BY <1>5, <1>6, <1>7, <1>8 DEF Sync

\* Lemma: a packet is received.
LEMMA ReceiveSync ==
  ASSUME Inv, Sync,
         RecvDataPacket \/ RecvStartDataPacket \/ RecvResponseInData \/ RecvResponse \/ RecvOther
  PROVE  Sync'
<1>1. wire # <<>> /\ wire' = Tail(wire) /\ UNCHANGED <<txID, abandoned>>
      /\ op.pc \in {"data", "response"}
  BY DEF RecvDataPacket, RecvStartDataPacket, RecvResponseInData, RecvResponse, RecvOther,
     Receives, Stays
<1>2. Head(wire) = wire[1] /\ 1 \in DOMAIN wire
  BY <1>1, TailPlaces
<1>3. op \in Op /\ Busy
  BY <1>1 DEF Inv, TypeOK, Busy
<1>4. 1 \in Own <=> wire[1].kind # "ping" /\ wire[1].tx = txID
  BY <1>2 DEF Own, Packs
<1>5. CASE RecvDataPacket
  <2>1. CASE wire[1].tx # txID
    <3>1. op' = op
      BY <1>2, <1>5, <2>1 DEF RecvDataPacket
    <3> QED BY <1>1, <1>3, <1>4, <2>1, <3>1, SkipSync
  <2>2. CASE wire[1].tx = txID
    <3>1. /\ op.pc = "data" /\ wire[1].kind \in {"data", "end"}
          /\ op' = [op EXCEPT !.buf = Append(op.buf, wire[1].about),
                              !.pc = IF wire[1].kind = "end" THEN "response" ELSE op.pc]
      BY <1>2, <1>5, <2>2 DEF RecvDataPacket, Receives
    <3>2. 1 \in Own
      BY <1>4, <2>2, <3>1
    <3>3. CASE wire[1].kind = "data"
      <4>1. op' = [op EXCEPT !.buf = Append(op.buf, wire[1].about)]
        BY <1>3, <3>1, <3>3 DEF Op
      <4> QED BY <1>1, <3>1, <3>2, <3>3, <4>1, OwnDataSync
    <3>4. CASE wire[1].kind = "end"
      <4>1. op' = [op EXCEPT !.buf = Append(op.buf, wire[1].about), !.pc = "response"]
        BY <3>1, <3>4
      <4> QED BY <1>1, <3>1, <3>2, <3>4, <4>1, OwnEndSync
    <3> QED BY <3>1, <3>3, <3>4
  <2> QED BY <2>1, <2>2
<1>6. CASE RecvStartDataPacket
  <2>1. op.pc = "data" /\ wire[1].kind = "start"
    BY <1>2, <1>6 DEF RecvStartDataPacket, Receives
  <2>2. op' = op
    <3>1. CASE wire[1].tx # txID
      BY <1>2, <1>6, <3>1 DEF RecvStartDataPacket
    <3>2. CASE wire[1].tx = txID
      <4>1. op.buf = <<>>
        BY <1>4, <2>1, <3>2 DEF Sync, DataOK
      <4>2. op' = [op EXCEPT !.buf = <<>>]
        BY <1>2, <1>6, <3>2 DEF RecvStartDataPacket
      <4> QED BY <1>3, <4>1, <4>2 DEF Op
    <3> QED BY <3>1, <3>2
  <2> QED BY <1>1, <1>3, <2>1, <2>2, SkipSync
<1>7. CASE RecvResponseInData
  <2>1. wire[1].kind = "response" /\ op'.pc = "failed"
    BY <1>2, <1>3, <1>7 DEF RecvResponseInData, Op
  <2> QED BY <1>1, <2>1, ResponseSync
<1>8. CASE RecvResponse
  <2>1. op.pc = "response" /\ wire[1].kind = "response"
    BY <1>2, <1>8 DEF RecvResponse, Receives
  <2>2. CASE wire[1].tx # txID
    <3>1. op' = op
      BY <1>2, <1>8, <2>2 DEF RecvResponse
    <3> QED BY <1>1, <1>3, <2>1, <3>1, SkipSync
  <2>3. CASE wire[1].tx = txID
    <3>1. op' = [op EXCEPT !.pc = IF wire[1].ok THEN "next" ELSE "failed"]
      BY <1>2, <1>8, <2>3 DEF RecvResponse
    <3>2. op'.pc = "failed" \/ op'.pc = "next"
      BY <1>3, <3>1 DEF Op
    <3> QED BY <1>1, <2>1, <2>3, <3>2, ResponseSync
  <2> QED BY <2>2, <2>3
<1>9. CASE RecvOther
  <2>1. op' = op /\ (op.pc = "data" => wire[1].kind = "ping")
    BY <1>2, <1>9 DEF RecvOther, Receives
  <2> QED BY <1>1, <1>3, <1>4, <2>1, SkipSync
<1> QED BY <1>5, <1>6, <1>7, <1>8, <1>9

-----------------------------------------------------------------------------
(* The other steps, and the theorems.                                        *)

\* Lemma: calls, cancellations and the mutex.
LEMMA CallSync ==
  ASSUME Inv, Sync, NEW c \in Callers,
         Call(c) \/ Cancel(c) \/ Lock(c)
  PROVE  Sync'
<1>1. CASE Call(c) \/ Cancel(c)
  <2>1. UNCHANGED <<wire, txID, abandoned, op>>
    BY <1>1 DEF Cancel, Call, camera
  <2> QED BY <2>1, KeepSync
<1>2. CASE Lock(c)
  <2>1. UNCHANGED <<wire, txID, abandoned>> /\ op.pc = "idle"
    BY <1>2, NobodyAssumption DEF Lock, camera, Inv, PhaseOK
  <2>2. op'.pc = "dial" \/ (op'.pc = "next" /\ op'.todo # {})
    <3>1. CASE cmdConn # NoConn
      <4>1. PICK kind \in Kinds, o \in Objects : op' = Begin(kind, o)
        BY <1>2, <3>1 DEF Lock
      <4> QED BY <4>1, BeginAsks
    <3>2. CASE cmdConn = NoConn
      BY <1>2, <3>2 DEF Lock, Idle
    <3> QED BY <3>1, <3>2
  <2>3. ~Busy /\ ~Busy'
    BY <2>1, <2>2 DEF Busy
  <2> QED BY <2>1, <2>2, <2>3, QuietSync
<1> QED BY <1>1, <1>2

\* Lemma: connect, up to a new connection, which is empty.
LEMMA HandshakeSync ==
  ASSUME Inv, Sync, Connect \/ Handshake \/ AcceptFails
  PROVE  Sync'
<1>1. op \in Op
  BY DEF Inv, TypeOK
<1>2. CASE InitEventAck \/ SettleCancelled
  <2>1. wire' = <<>>
    BY <1>2 DEF InitEventAck, SettleCancelled, CloseConns
  <2>2. op'.pc \in {"next", "backoff"}
    BY <1>1, <1>2 DEF InitEventAck, SettleCancelled, Disconnected, Op
  <2>3. OwnData'
    BY <2>2 DEF OwnData
  <2> QED BY <2>1, <2>3, EmptySync
<1>3. CASE Settled
  <2>1. PICK o \in Objects : op' = Begin(op.kind, o)
    BY <1>3 DEF Settled
  <2>2. op'.pc = "next" /\ op'.todo # {}
    BY <1>1, <2>1, BeginAsks DEF Op
  <2>3. UNCHANGED <<wire, txID, abandoned>> /\ op.pc = "settle"
    BY <1>3 DEF Settled, camera
  <2>4. ~Busy /\ ~Busy'
    BY <2>2, <2>3 DEF Busy
  <2> QED BY <2>2, <2>3, <2>4, QuietSync
<1>4. CASE Connect \/ ConnectFails \/ AcceptFails \/ InitCommandAck \/ InitFails \/ Retry
           \/ NotConnected
  <2>1. /\ UNCHANGED <<wire, txID, abandoned>>
        /\ op.pc \in {"dial", "dialEvent", "initCommand", "initEvent", "backoff"}
    BY <1>4 DEF Connect, ConnectFails, AcceptFails, NoConnection, InitCommandAck, InitFails,
       Retry, NotConnected, camera
  <2>2. op'.pc \notin {"next", "data", "response"}
    <3>1. CASE Connect
      <4>1. PICK s \in Fresh : op' = Connected(s)
        BY <3>1 DEF Connect
      <4> QED BY <1>1, <4>1 DEF Connected, Op
    <3>2. CASE ConnectFails \/ AcceptFails \/ InitFails
      BY <1>1, <3>2 DEF ConnectFails, AcceptFails, NoConnection, InitFails, Disconnected, Op
    <3>3. CASE InitCommandAck \/ Retry
      BY <1>1, <3>3 DEF InitCommandAck, Retry, Op
    <3>4. CASE NotConnected
      BY <3>4 DEF NotConnected, Return, Idle
    <3> QED BY <1>4, <3>1, <3>2, <3>3, <3>4
  <2>3. ~Busy /\ ~Busy'
    BY <2>1, <2>2 DEF Busy
  <2> QED BY <2>1, <2>2, <2>3, QuietSync
<1> QED BY <1>2, <1>3, <1>4 DEF Handshake

\* Lemma: between transactions; a failed operation leaves no connection, and
\* those that go on have failed in a stage that may.
LEMMA OperateSync ==
  ASSUME Inv, Sync, Operate
  PROVE  Sync'
<1>1. op \in Op
  BY DEF Inv, TypeOK
<1>2. CASE ConnectFailed \/ Fail
  <2>1. wire' = <<>>
    BY <1>2 DEF ConnectFailed, Fail, CloseConns
  <2>2. op'.pc \in {"backoff", "idle"}
    <3>1. CASE ConnectFailed
      BY <1>1, <3>1 DEF ConnectFailed, Disconnected, Op
    <3>2. CASE Fail
      BY <3>2 DEF Fail, Return, Idle
    <3> QED BY <1>2, <3>1, <3>2
  <2>3. OwnData'
    BY <2>2 DEF OwnData
  <2> QED BY <2>1, <2>3, EmptySync
<1>3. CASE NextSessionStage \/ DiscoverFolders \/ Enumerate \/ Finish \/ Skip
  <2>1. UNCHANGED <<wire, txID, abandoned>> /\ op.pc \in {"next", "failed"}
    BY <1>3 DEF NextSessionStage, DiscoverFolders, Enumerate, Finish, Skip, StageDone, camera
  <2>2. \/ op'.pc \in {"settle", "idle"}
        \/ op'.pc = "next" /\ (op'.stage \notin StrictStages \/ op'.todo # {})
    <3>1. CASE NextSessionStage
      <4>1. \/ op' = [op EXCEPT !.pc = "settle"]
            \/ \E q \in Questions :
                  op' = [op EXCEPT !.pc = "next", !.stage = q, !.todo = {q}]
                  /\ q \in SessionStages
        BY <3>1 DEF NextSessionStage, Enter, Questions, SessionStages
      <4>2. op'.pc = "settle" \/ (op'.pc = "next" /\ op'.todo # {})
        <5>1. CASE op' = [op EXCEPT !.pc = "settle"]
          BY <1>1, <5>1 DEF Op
        <5>2. ASSUME NEW q \in Questions,
                     op' = [op EXCEPT !.pc = "next", !.stage = q, !.todo = {q}]
              PROVE  op'.pc = "next" /\ op'.todo # {}
          BY <1>1, <5>2 DEF Op
        <5> QED BY <4>1, <5>1, <5>2
      <4> QED BY <4>2
    <3>2. CASE DiscoverFolders
      BY <1>1, <3>2 DEF DiscoverFolders, Enter, StrictStages, Op
    <3>3. CASE Enumerate
      <4>1. PICK todo \in (SUBSET Objects) \ {{}} :
              op' = [op EXCEPT !.pc = "next", !.stage = "enumerate", !.todo = todo]
        BY <3>3 DEF Enumerate, Enter
      <4>2. op'.pc = "next" /\ op'.todo # {}
        BY <1>1, <4>1 DEF Op
      <4> QED BY <4>2
    <3>4. CASE Finish
      BY <3>4 DEF Finish, Return, Idle
    <3>5. CASE Skip
      BY <1>1, <3>5 DEF Skip, LenientStages, StrictStages, Op
    <3> QED BY <1>3, <3>1, <3>2, <3>3, <3>4, <3>5
  <2>3. ~Busy /\ ~Busy'
    BY <2>1, <2>2 DEF Busy
  <2> QED BY <2>1, <2>2, <2>3, QuietSync
<1> QED BY <1>2, <1>3 DEF Operate

\* Lemma: the camera, and the goroutine of the event channel.
LEMMA CameraSync ==
  ASSUME Inv, Sync, (\E s \in Sockets : DrainEvents(s)) \/ SendPing \/ Drop \/ BecomeSteady
  PROVE  Sync'
<1>1. CASE (\E s \in Sockets : DrainEvents(s)) \/ BecomeSteady
  <2>1. UNCHANGED <<wire, txID, abandoned, op>>
    BY <1>1 DEF DrainEvents, BecomeSteady, camera
  <2> QED BY <2>1, KeepSync
<1>2. CASE SendPing
  BY <1>2, PingSync
<1>3. CASE Drop
  <2>1. wire' = <<>> /\ OwnData'
    BY <1>3 DEF Drop, Sync, OwnData
  <2> QED BY <2>1, EmptySync
<1> QED BY <1>1, <1>2, <1>3

\* Lemma: initially there is nothing to match.
LEMMA InitSync == Init => Sync
<1> SUFFICES ASSUME Init PROVE Sync
  OBVIOUS
<1>1. wire = <<>> /\ op.pc = "idle"
  BY IdleTypes DEF Init
<1>2. DOMAIN wire = {} /\ Packs = {}
  BY <1>1 DEF Packs
<1> QED BY <1>1, <1>2 DEF Sync, Ordered, Recent, DataOK, OwnData, SuccessInSync

\* Lemma: every step keeps the replies in order.
LEMMA StepSync == Inv /\ Sync /\ [Next]_vars => Sync'
<1> SUFFICES ASSUME Inv, Sync, [Next]_vars PROVE Sync'
  OBVIOUS
<1>1. CASE Next
  <2>1. CASE Transact
    BY <2>1, RequestSync, ReceiveSync, RecvFailsSync DEF Transact
  <2> QED BY <1>1, <2>1, CallSync, HandshakeSync, OperateSync, CameraSync DEF Next
<1>2. CASE UNCHANGED vars
  <2>1. UNCHANGED <<wire, txID, abandoned, op>>
    BY <1>2 DEF vars, camera
  <2> QED BY <2>1, KeepSync
<1> QED BY <1>1, <1>2

\* The payload that recvData returns is that of the question of its own
\* transaction, whole and unmixed: for any number of replies that come late, as
\* long as transaction numbers do not wrap within them.
THEOREM DataIsOwn == Spec => []OwnData
<1>1. Spec => [](Inv /\ Sync)
  BY InitInv, StepInv, InitSync, StepSync, PTL DEF Spec
<1>2. Sync => OwnData
  BY DEF Sync
<1> QED BY <1>1, <1>2, PTL

\* A listing, download or deletion that succeeds leaves the command channel in
\* step, whatever came late before it: behind its last response there is no
\* reply, so that the next operation on the connection starts clean.
THEOREM SuccessIsInSync == Spec => []SuccessInSync
<1>1. Spec => [](Inv /\ Sync)
  BY InitInv, StepInv, InitSync, StepSync, PTL DEF Spec
<1>2. Sync => SuccessInSync
  BY DEF Sync
<1> QED BY <1>1, <1>2, PTL
=============================================================================
