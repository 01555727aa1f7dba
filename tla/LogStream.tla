------------------------------ MODULE LogStream ------------------------------
(* The live log of internal/web/log.go and of handleLogStream in server.go:   *)
(* every log line goes into a ring of recent lines and to every viewer whose  *)
(* channel has room; a new viewer first gets what is in the ring.  Lines are  *)
(* numbered in the order in which they are written.                           *)
EXTENDS Naturals, Sequences

CONSTANTS Viewers,
          LogRingSize,  \* logRingSize: 200
          LogBuffer,    \* capacity of logClient.ch: 64
          MaxLines      \* bound: lines written

ASSUME LogRingAssumption == LogRingSize \in Nat \ {0}
ASSUME LogBufferAssumption == LogBuffer \in Nat \ {0}
ASSUME MaxLinesAssumption == MaxLines \in Nat

VARIABLES
  buf,         \* LogBroadcaster.buf
  lines,       \* lines written so far
  logClients,  \* LogBroadcaster.clients
  viewer       \* viewer -> its handler, its channel, and what it has been shown

logVars == <<buf, lines, logClients, viewer>>

Line == 1 .. MaxLines

\* pc: where handleLogStream is; history: what is left to replay; gone: the
\* context of the request is done.  Ghosts: shown is everything written to the
\* viewer, oldest the first line that the ring held when it subscribed, missed
\* the lines dropped.
Viewer == [pc : {"idle", "replay", "stream", "unsubscribe"}, history : Seq(Line),
           ch : Seq(Line), gone : BOOLEAN, shown : Seq(Line),
           oldest : 1 .. MaxLines + 1, missed : SUBSET Line]

NoViewer == [pc |-> "idle", history |-> <<>>, ch |-> <<>>, gone |-> FALSE, shown |-> <<>>,
             oldest |-> 1, missed |-> {}]

\* The stream's state has its type; neither the ring nor a channel exceeds its
\* capacity (log.go:34, 49).
LogTypeOK ==
  /\ lines \in 0 .. MaxLines
  /\ buf \in Seq(Line) /\ Len(buf) <= LogRingSize
  /\ logClients \subseteq Viewers
  /\ viewer \in [Viewers -> Viewer]
  /\ \A v \in Viewers : Len(viewer[v].ch) <= LogBuffer

LogInit ==
  /\ buf = <<>>
  /\ lines = 0
  /\ logClients = {}
  /\ viewer = [v \in Viewers |-> NoViewer]

-----------------------------------------------------------------------------

PushRing(line) == Append(IF Len(buf) >= LogRingSize THEN Tail(buf) ELSE buf, line)

\* A viewer whose channel is full misses the line.
Deliver(k, line) ==
  IF Len(k.ch) < LogBuffer THEN [k EXCEPT !.ch = Append(@, line)]
  ELSE [k EXCEPT !.missed = @ \cup {line}]

\* LogBroadcaster.Write, all of it under the lock.
WriteLine ==
  /\ lines < MaxLines
  /\ lines' = lines + 1
  /\ buf' = PushRing(lines + 1)
  /\ viewer' = [v \in Viewers |-> IF v \in logClients THEN Deliver(viewer[v], lines + 1)
                                  ELSE viewer[v]]
  /\ UNCHANGED logClients

\* Faulty variant of Joined: the snapshot misses the last line, as if it were
\* taken before the client is registered.
JoinedStale ==
  [NoViewer EXCEPT !.pc = "replay", !.oldest = lines + 1 - Len(buf),
                   !.history = IF buf = <<>> THEN buf ELSE SubSeq(buf, 1, Len(buf) - 1)]

Joined == [NoViewer EXCEPT !.pc = "replay", !.history = buf, !.oldest = lines + 1 - Len(buf)]

\* subscribe: the snapshot is taken and the client registered under one lock.
SubscribeLog(v) ==
  /\ viewer[v].pc = "idle"
  /\ logClients' = logClients \cup {v}
  /\ viewer' = [viewer EXCEPT ![v] = Joined]
  /\ UNCHANGED <<buf, lines>>

\* One line of the history is written to the viewer.
Replay(v) ==
  /\ viewer[v].pc = "replay"
  /\ LET h == viewer[v].history
     IN IF h = <<>>
        THEN viewer' = [viewer EXCEPT ![v].pc = "stream"]
        ELSE viewer' = [viewer EXCEPT ![v].history = Tail(h),
                                      ![v].shown = Append(@, Head(h))]
  /\ UNCHANGED <<buf, lines, logClients>>

StreamLine(v) ==
  /\ viewer[v].pc = "stream"
  /\ viewer[v].ch # <<>>
  /\ viewer' = [viewer EXCEPT ![v].ch = Tail(@),
                              ![v].shown = Append(@, Head(viewer[v].ch))]
  /\ UNCHANGED <<buf, lines, logClients>>

\* The context is done; select may still prefer a line that is ready.
StreamEnds(v) ==
  /\ viewer[v].pc = "stream"
  /\ viewer[v].gone
  /\ viewer' = [viewer EXCEPT ![v].pc = "unsubscribe"]
  /\ UNCHANGED <<buf, lines, logClients>>

\* Faulty variant of UnsubscribeLog: the client stays registered.
ForgetLogClient(v) ==
  /\ viewer[v].pc = "unsubscribe"
  /\ viewer' = [viewer EXCEPT ![v] = NoViewer]
  /\ UNCHANGED <<buf, lines, logClients>>

\* The deferred unsubscribe; the handler returns.
UnsubscribeLog(v) ==
  /\ viewer[v].pc = "unsubscribe"
  /\ logClients' = logClients \ {v}
  /\ viewer' = [viewer EXCEPT ![v] = NoViewer]
  /\ UNCHANGED <<buf, lines>>

\* The browser closes the stream.
LeaveLog(v) ==
  /\ viewer[v].pc # "idle"
  /\ ~viewer[v].gone
  /\ viewer' = [viewer EXCEPT ![v].gone = TRUE]
  /\ UNCHANGED <<buf, lines, logClients>>

HandleLogStream(v) == Replay(v) \/ StreamLine(v) \/ UnsubscribeLog(v)

LogNext ==
  \/ WriteLine
  \/ \E v \in Viewers : \/ SubscribeLog(v) \/ LeaveLog(v) \/ StreamEnds(v)
                        \/ Replay(v) \/ StreamLine(v) \/ UnsubscribeLog(v)

LogSpec == /\ LogInit /\ [][LogNext]_logVars
           /\ \A v \in Viewers : WF_logVars(HandleLogStream(v)) /\ SF_logVars(StreamEnds(v))

-----------------------------------------------------------------------------
(* Properties.                                                               *)

\* What is on its way to a viewer, in order.
OnItsWay(v) == viewer[v].shown \o viewer[v].history \o viewer[v].ch

\* Whatever is written while a viewer subscribes, replays and streams, it gets
\* the lines of the ring and then every later one, each once and in order, but
\* for those that found its channel full (log.go:33-55): nothing falls between
\* the snapshot and the first line sent.
ViewerSeesAll ==
  \A v \in logClients :
    LET seq == OnItsWay(v)
    IN /\ \A i, j \in DOMAIN seq : i < j => seq[i] < seq[j]
       /\ {seq[i] : i \in DOMAIN seq} = (viewer[v].oldest .. lines) \ viewer[v].missed

\* A viewer who has closed the stream is forgotten in the end, although select
\* may go on preferring lines that are ready (server.go:985-990).
GoneIsUnsubscribed == \A v \in Viewers : viewer[v].gone ~> v \notin logClients
=============================================================================
