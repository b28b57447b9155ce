--------------------------- MODULE Session_proofs ---------------------------
(***************************************************************************)
(* Machine-checked proofs about Session, for any noise of the receiver and *)
(* queues of any length.                                                   *)
(***************************************************************************)
EXTENDS Session, TLAPS

-----------------------------------------------------------------------------
(* Messages and queues.                                                    *)

LaunchMsg == Ours("LAUNCH")
StopMsg == Ours("STOP")
StatusMsg == Ours("status")
CloseMsg == Ours("CLOSE")

Requests == {Ours(type) : type \in {"LAUNCH", "CONNECT", "OFFER", "STOP", "CLOSE"}}
Replied == [type : {"status", "launchError", "answer", "rejected", "CLOSE", "other"},
            ours : BOOLEAN]

ThreeLeft == <<StopMsg, CloseMsg, CloseMsg>>
TwoLeft == <<CloseMsg, CloseMsg>>
OneLeft == <<CloseMsg>>

Has(q, m) == \E i \in 1..Len(q) : q[i] = m
Once(q, m) == \A i, j \in 1..Len(q) : q[i] = m /\ q[j] = m => i = j

-----------------------------------------------------------------------------
(* The inductive invariant.                                                *)

Typed ==
  /\ had \in BOOLEAN /\ sink \in BOOLEAN /\ closed \in BOOLEAN /\ rtp \in BOOLEAN
  /\ stop \in BOOLEAN /\ ending \in BOOLEAN /\ lost \in BOOLEAN /\ offered \in BOOLEAN
  /\ stopped \in BOOLEAN /\ hungUp \in BOOLEAN
  /\ monitor \in {"none", "receiving", "swap", "done"}
  /\ reason \in {"lost", "closed"} /\ reported \in {"none", "lost", "closed"}
  /\ app \in {"absent", "launching", "running"}

Queues ==
  /\ outbound \in Seq(Requests) /\ delivered \in Seq(Requests)
  /\ inbound \in Seq(Replied) /\ incoming \in Seq(Replied)

(* Where run_with_device is, and what then exists.                         *)
Before == {"connect", "sink", "launch", "awaitStatus"}
Negotiating == {"connectTransport", "offer", "awaitAnswer", "startSender"}
Streaming == {"handler", "monitor", "capture", "claim", "stopSender"}
Ending == {"dropSession", "dropChannel", "joinDispatcher", "joinMonitor", "dropSink"}
Unwound == {"unwindSession", "unwindSink", "unwindChannel", "unwindDispatcher"}
Parted == {"dropChannel", "joinDispatcher", "joinMonitor", "dropSink", "unwindSink",
           "unwindChannel", "unwindDispatcher", "returned"}
Places == Before \cup Negotiating \cup Streaming \cup Ending \cup Unwound
            \cup {"unwindSender", "returned"}

(* The farewell is complete until it is being said, and said in order.     *)
SessionInv ==
  /\ pc \in Places
  /\ pc \in Before => ~had
  /\ pc \in Negotiating \cup Streaming => had
  /\ farewell \in {<<>>, OneLeft, TwoLeft, ThreeLeft}
  /\ ~had => farewell = <<>>
  /\ pc \in Negotiating \cup Streaming \cup {"unwindSender"} /\ had => farewell = ThreeLeft
  /\ pc \in Parted => farewell = <<>>

ResourcesInv ==
  /\ pc \in {"launch", "awaitStatus"} \cup Negotiating \cup Streaming => sink
  /\ pc \in {"connect", "sink", "unwindChannel", "unwindDispatcher", "returned"} => ~sink
  /\ pc \in Streaming <=> (rtp /\ pc # "unwindSender")
  /\ result \in {"none", "ok", "error"}
  /\ pc \in Ending \cup Unwound \cup {"claim", "stopSender", "unwindSender", "returned"}
       => result # "none"

(* The monitor lives from the capture to its join, and by the time the end *)
(* that we began reaches it, the shutdown has been claimed.                *)
MonitorInv ==
  /\ pc \in {"capture", "claim", "stopSender"} \cup Ending => monitor # "none"
  /\ monitor # "none" => pc \in {"capture", "claim", "stopSender", "returned"} \cup Ending
  /\ pc \in {"dropSink", "returned"} => monitor \in {"none", "done"}
  /\ result = "ok" => stop
  /\ pc \in Ending \cup {"stopSender"} => stop

(* Without a loss the channel only ends by our own hand, and empty.        *)
ChannelInv ==
  /\ dispatcher \in {"none", "running", "gone"}
  /\ pc = "connect" <=> dispatcher = "none"
  /\ dispatcher = "none" => ~ending /\ ~lost
  /\ pc \in {"joinMonitor", "dropSink", "returned"} => dispatcher = "gone"
  /\ ending /\ ~lost =>
       pc \in {"joinDispatcher", "unwindDispatcher", "joinMonitor", "dropSink", "returned"}
  /\ dispatcher = "gone" /\ ~lost => ending /\ outbound = <<>>

(* The app is launched once, and has been when its status is on its way.   *)
NoLaunch == ~Has(outbound, LaunchMsg) /\ ~Has(delivered, LaunchMsg)
Answered == had \/ Has(inbound, StatusMsg) \/ Has(incoming, StatusMsg)

LaunchInv ==
  /\ pc \in {"connect", "sink", "launch"} => NoLaunch /\ ~Answered /\ app = "absent"
  /\ Once(outbound, LaunchMsg) /\ Once(delivered, LaunchMsg)
  /\ ~(Has(outbound, LaunchMsg) /\ Has(delivered, LaunchMsg))
  /\ app # "absent" \/ Answered => NoLaunch
  /\ Answered => app # "launching"

(* The STOP is due, on its way or obeyed.                                  *)
UnloadInv ==
  had /\ ~lost =>
    \/ stopped /\ app = "absent"
    \/ Has(delivered, StopMsg) \/ Has(outbound, StopMsg) \/ farewell = ThreeLeft

BlameInv ==
  /\ BlameIsReal
  /\ monitor = "swap" /\ reason = "lost" /\ ~stop => lost
  /\ reason = "closed" \/ Has(inbound, CloseMsg) \/ Has(incoming, CloseMsg) => hungUp

Inv ==
  /\ Typed /\ Queues /\ SessionInv /\ ResourcesInv /\ MonitorInv /\ ChannelInv
  /\ LaunchInv /\ UnloadInv /\ BlameInv

-----------------------------------------------------------------------------
(* Lemmas about messages and queues.                                       *)

LEMMA Distinct ==
  /\ LaunchMsg # StopMsg /\ LaunchMsg # CloseMsg /\ StopMsg # CloseMsg
  /\ \A type : Ours(type).type = type /\ Ours(type).ours = TRUE
  /\ LaunchMsg = Ours("LAUNCH") /\ StopMsg = Ours("STOP") /\ CloseMsg = Ours("CLOSE")
  /\ StatusMsg = Ours("status")
BY DEF LaunchMsg, StopMsg, CloseMsg, StatusMsg, Ours

LEMMA RequestsTold ==
  ASSUME NEW m \in Requests
  PROVE /\ m.type = "LAUNCH" <=> m = LaunchMsg
        /\ m.type = "STOP" <=> m = StopMsg
        /\ m.type = "OFFER" => m # LaunchMsg /\ m # StopMsg
BY DEF Requests, LaunchMsg, StopMsg, Ours

LEMMA RepliesTold ==
  ASSUME NEW m \in Replied
  PROVE /\ m.type = "status" /\ m.ours <=> m = StatusMsg
        /\ m.type = "CLOSE" /\ m.ours <=> m = CloseMsg
BY DEF Replied, StatusMsg, CloseMsg, Ours

LEMMA QueueTyped ==
  ASSUME NEW S, NEW q \in Seq(S)
  PROVE /\ \A e \in S : Append(q, e) \in Seq(S)
        /\ q # <<>> => Tail(q) \in Seq(S) /\ Head(q) \in S
OBVIOUS

LEMMA HasAppended ==
  ASSUME NEW S, NEW q \in Seq(S), NEW e \in S, NEW m
  PROVE /\ Append(q, e) \in Seq(S)
        /\ Has(Append(q, e), m) <=> Has(q, m) \/ e = m
        /\ Once(q, m) /\ ~(e = m /\ Has(q, m)) => Once(Append(q, e), m)
<1>1. /\ Append(q, e) \in Seq(S) /\ Len(Append(q, e)) = Len(q) + 1 /\ Len(q) \in Nat
      /\ \A i \in 1..Len(q) : Append(q, e)[i] = q[i]
      /\ Append(q, e)[Len(q) + 1] = e
  OBVIOUS
<1> DEFINE a == Append(q, e)
<1> HIDE DEF a
<1>2. Has(a, m) <=> Has(q, m) \/ e = m
  BY <1>1 DEF Has, a
<1>3. Once(q, m) /\ ~(e = m /\ Has(q, m)) => Once(a, m)
  BY <1>1 DEF Has, Once, a
<1> QED
  BY <1>1, <1>2, <1>3 DEF a

LEMMA HasDropped ==
  ASSUME NEW S, NEW q \in Seq(S), q # <<>>, NEW m
  PROVE /\ Tail(q) \in Seq(S) /\ Head(q) \in S
        /\ Has(q, m) <=> Head(q) = m \/ Has(Tail(q), m)
        /\ Once(q, m) => Once(Tail(q), m) /\ ~(Head(q) = m /\ Has(Tail(q), m))
<1>1. /\ Tail(q) \in Seq(S) /\ Len(Tail(q)) = Len(q) - 1 /\ Len(q) \in Nat \ {0}
      /\ \A i \in 1..Len(q)-1 : Tail(q)[i] = q[i + 1]
      /\ Head(q) = q[1] /\ q[1] \in S
  OBVIOUS
<1> DEFINE t == Tail(q)
<1> HIDE DEF t
<1>2. Has(q, m) => Head(q) = m \/ Has(t, m)
  <2> SUFFICES ASSUME NEW i \in 1..Len(q), q[i] = m, i # 1 PROVE Has(t, m)
    BY <1>1 DEF Has
  <2>1. i - 1 \in 1..Len(t) /\ t[i - 1] = q[i]
    BY <1>1 DEF t
  <2> QED
    BY <2>1 DEF Has
<1>3. Head(q) = m \/ Has(t, m) => Has(q, m)
  BY <1>1 DEF Has, t
<1>4. Once(q, m) => Once(t, m) /\ ~(Head(q) = m /\ Has(t, m))
  BY <1>1 DEF Has, Once, t
<1> QED
  BY <1>1, <1>2, <1>3, <1>4 DEF t

LEMMA HasShort ==
  ASSUME NEW m
  PROVE /\ ~Has(<<>>, m) /\ Once(<<>>, m)
        /\ \A e : (Has(<<e>>, m) <=> e = m) /\ Once(<<e>>, m)
<1>1. Len(<<>>) = 0 /\ \A e : Len(<<e>>) = 1 /\ <<e>>[1] = e
  OBVIOUS
<1>2. ~Has(<<>>, m) /\ Once(<<>>, m)
  BY <1>1 DEF Has, Once
<1>3. ASSUME NEW e PROVE (Has(<<e>>, m) <=> e = m) /\ Once(<<e>>, m)
  BY DEF Has, Once
<1> QED
  BY <1>2, <1>3

LEMMA FarewellTold ==
  /\ ThreeLeft # <<>> /\ Head(ThreeLeft) = StopMsg /\ Tail(ThreeLeft) = TwoLeft
  /\ TwoLeft # <<>> /\ Head(TwoLeft) = CloseMsg /\ Tail(TwoLeft) = OneLeft
  /\ OneLeft # <<>> /\ Head(OneLeft) = CloseMsg /\ Tail(OneLeft) = <<>>
  /\ \A m : m.ours = TRUE => Farewell(m) = ThreeLeft
<1>1. \A a, b : LET q == <<a, b, b>>
                    t == <<b, b>>
                    u == <<b>>
                IN /\ q # <<>> /\ Head(q) = a /\ Tail(q) = t
                   /\ t # <<>> /\ Head(t) = b /\ Tail(t) = u
                   /\ u # <<>> /\ Head(u) = b /\ Tail(u) = <<>>
  OBVIOUS
<1>2. \A m : m.ours = TRUE => Farewell(m) = ThreeLeft
  BY Zenon DEF ThreeLeft, Farewell, StopMsg, CloseMsg, Ours
<1> QED
  BY <1>1, <1>2, Zenon DEF ThreeLeft, TwoLeft, OneLeft

-----------------------------------------------------------------------------
(* What a step does to the channel.                                        *)

LEMMA Tried ==
  ASSUME NEW m, TrySend(m)
  PROVE /\ UNCHANGED <<dispatcher, ending, lost, delivered, inbound, incoming>>
        /\ dispatcher = "running" => outbound' = Append(outbound, m)
        /\ dispatcher # "running" => outbound' = outbound
BY DEF TrySend, CanSend, Channel!Send, channelVars

LEMMA Said ==
  ASSUME NEW m, Say(m)
  PROVE /\ UNCHANGED <<mainVars, ours>>
        /\ UNCHANGED <<dispatcher, ending, lost, outbound, delivered, incoming>>
        /\ inbound' = inbound \/ inbound' = Append(inbound, m)
BY DEF Say, CanSend, Channel!PeerSend, channelVars

(* The steps that leave the queues alone.                                  *)
Silent ==
  \/ CreateSink \/ GiveUpWaiting \/ StartSender \/ InstallHandler \/ SpawnMonitor
  \/ CaptureStops \/ CaptureFails \/ ClaimShutdown \/ StopSender \/ SessionDropped
  \/ DropChannel \/ JoinDispatcher \/ JoinMonitor \/ DropSink
  \/ MonitorDisconnected \/ MonitorSwaps \/ CloseRing \/ Signal

LEMMA SilentQueues ==
  ASSUME Inv, Silent
  PROVE /\ UNCHANGED <<outbound, delivered, inbound, incoming, had, lost, receiverVars>>
        /\ pc' \in {"connect", "sink", "launch"} => pc \in {"connect", "sink", "launch"}
        /\ farewell' = farewell /\ reported' \in {reported, reason}
<1>1. CASE CreateSink \/ GiveUpWaiting \/ StartSender \/ InstallHandler \/ SpawnMonitor
  BY <1>1 DEF CreateSink, GiveUpWaiting, StartSender, InstallHandler, SpawnMonitor, Fail,
     channelVars, receiverVars, ours, monitorVars, Replies
<1>2. CASE CaptureStops \/ CaptureFails \/ ClaimShutdown \/ CloseRing \/ Signal
  BY <1>2 DEF CaptureStops, CaptureFails, ClaimShutdown, CloseRing, Signal,
     channelVars, receiverVars, ours, monitorVars, mainVars
<1>3. CASE MonitorDisconnected \/ MonitorSwaps
  BY <1>3 DEF MonitorDisconnected, MonitorSwaps, channelVars, mainVars
<1>4. CASE \/ StopSender \/ SessionDropped \/ DropChannel \/ JoinDispatcher \/ JoinMonitor
           \/ DropSink
  <2>1. UNCHANGED <<outbound, delivered, inbound, incoming, had, lost, receiverVars,
                    farewell, reported>>
    BY <1>4 DEF StopSender, SessionDropped, DropChannel, JoinDispatcher, JoinMonitor,
       DropSink, Channel!Stop, channelVars, receiverVars, ours, monitorVars
  <2>2. pc' \notin {"connect", "sink", "launch"}
    BY <1>4 DEF StopSender, SessionDropped, DropChannel, JoinDispatcher, JoinMonitor,
       DropSink, Proceed, Shutdown, Unwinding
  <2> QED
    BY <2>1, <2>2
<1> QED
  BY <1>1, <1>2, <1>3, <1>4 DEF Silent

LEMMA StepKinds ==
  ASSUME [Next]_vars
  PROVE \/ Silent \/ Connect \/ Launch \/ Receive \/ ConnectTransport \/ Offer
        \/ SayFarewell \/ MonitorReceives \/ ChannelMoves \/ LoseConnection \/ Receiver
        \/ UNCHANGED vars
BY DEF Next, Main, Monitor, Silent

-----------------------------------------------------------------------------
LEMMA InitInv == Init => Inv
<1> SUFFICES ASSUME Init PROVE Inv
  OBVIOUS
<1> USE DEF Init
<1>1. /\ dispatcher = "none" /\ ending = FALSE /\ lost = FALSE
      /\ outbound = <<>> /\ delivered = <<>> /\ inbound = <<>> /\ incoming = <<>>
  BY DEF Channel!Init
<1>2. Typed
  BY <1>1, Zenon DEF Typed
<1>3. Queues
  BY <1>1 DEF Queues
<1>4. SessionInv /\ ResourcesInv /\ MonitorInv /\ ChannelInv
  BY <1>1 DEF SessionInv, ResourcesInv, MonitorInv, ChannelInv, Before, Negotiating,
     Streaming, Ending, Unwound, Parted, Places
<1>5. LaunchInv /\ UnloadInv /\ BlameInv
  BY <1>1, HasShort DEF LaunchInv, UnloadInv, BlameInv, BlameIsReal, NoLaunch, Answered
<1> QED
  BY <1>2, <1>3, <1>4, <1>5 DEF Inv

-----------------------------------------------------------------------------
(* Every step keeps the invariant.                                         *)

LEMMA QueuesPreserved == Inv /\ [Next]_vars => Queues'
<1> SUFFICES ASSUME Inv, [Next]_vars PROVE Queues'
  OBVIOUS
<1> USE DEF Inv, Queues
<1>1. CASE Silent
  BY <1>1, SilentQueues
<1>2. CASE Connect
  <2>1. Ours("CONNECT") \in Requests
    BY DEF Requests
  <2>2. <<Ours("CONNECT")>> \in Seq(Requests)
    BY <2>1
  <2> QED
    BY <1>2, <2>2 DEF Connect, Channel!Open, Channel!OpenFails
<1>3. CASE Launch \/ ConnectTransport \/ Offer
  <2>1. PICK m \in Requests : TrySend(m)
    BY <1>3 DEF Launch, ConnectTransport, Offer, SendOr, Requests
  <2> QED
    BY <2>1, Tried, QueueTyped
<1>4. CASE SayFarewell
  <2>1. TrySend(Head(farewell)) /\ farewell # <<>>
    BY <1>4 DEF SayFarewell
  <2>2. Head(farewell) \in Requests
    BY <2>1, FarewellTold, Distinct DEF SessionInv, Requests
  <2> QED
    BY <2>1, <2>2, Tried, QueueTyped
<1>5. CASE Receive \/ MonitorReceives
  <2>1. /\ incoming # <<>> /\ incoming' = Tail(incoming)
        /\ UNCHANGED <<outbound, delivered, inbound>>
    BY <1>5 DEF Receive, MonitorReceives
  <2> QED
    BY <2>1, QueueTyped
<1>6. CASE ChannelMoves \/ LoseConnection
  <2>1. CASE Channel!Deliver
    BY <2>1, QueueTyped DEF Channel!Deliver
  <2>2. CASE Channel!Forward
    BY <2>2, QueueTyped DEF Channel!Forward
  <2>3. CASE Channel!End
    BY <2>3 DEF Channel!End
  <2>4. CASE Channel!Break
    <3>1. UNCHANGED <<inbound, incoming>>
      BY <2>4 DEF Channel!Break
    <3>2. CASE UNCHANGED <<outbound, delivered>>
      BY <3>1, <3>2
    <3>3. CASE /\ outbound # <<>> /\ outbound' = Tail(outbound)
               /\ delivered' \in {delivered, Append(delivered, Head(outbound))}
      BY <3>1, <3>3, QueueTyped
    <3> QED
      BY <2>4, <3>2, <3>3 DEF Channel!Break
  <2> QED
    BY <1>6, <2>1, <2>2, <2>3, <2>4 DEF ChannelMoves, LoseConnection
<1>7. CASE TakeMessage
  <2>1. /\ delivered # <<>> /\ delivered' = Tail(delivered)
        /\ UNCHANGED <<outbound, inbound, incoming>>
    BY <1>7 DEF TakeMessage
  <2> QED
    BY <2>1, QueueTyped
<1>8. CASE AppStarts \/ AppRefused \/ AnswerOffer \/ HangUp \/ SaySomethingElse
  <2>1. PICK m \in Replied : Say(m)
    BY <1>8 DEF AppStarts, AppRefused, AnswerOffer, HangUp, SaySomethingElse, Replied, Ours,
       Others
  <2> QED
    BY <2>1, Said, QueueTyped
<1>9. CASE UNCHANGED vars
  BY <1>9 DEF vars, channelVars
<1> QED
  BY <1>1, <1>2, <1>3, <1>4, <1>5, <1>6, <1>7, <1>8, <1>9, StepKinds DEF Receiver

(* A step of another thread leaves run_with_device where it is.            *)
LEMMA OthersLeaveMain ==
  ASSUME [Next]_vars, ~Main, ~CaptureFails
  PROVE UNCHANGED mainVars
<1>1. CASE Receiver
  BY <1>1, Said DEF Receiver, TakeMessage, AppStarts, AppRefused, AnswerOffer, HangUp,
     SaySomethingElse
<1>2. CASE ~Receiver
  BY <1>2 DEF Next, Monitor, MonitorReceives, MonitorDisconnected, MonitorSwaps,
     ChannelMoves, LoseConnection, CloseRing, Signal, vars
<1> QED
  BY <1>1, <1>2

LEMMA SessionPreserved == Inv /\ [Next]_vars => SessionInv'
<1> SUFFICES ASSUME Inv, [Next]_vars PROVE SessionInv'
  OBVIOUS
<1> USE DEF Inv, SessionInv, Before, Negotiating, Streaming, Ending, Unwound, Parted, Places
<1>1. CASE Connect \/ CreateSink \/ Launch
  BY <1>1 DEF Connect, CreateSink, Launch, SendOr, Fail
<1>2. CASE Receive
  <2>1. \/ pc = "awaitStatus" /\ After[pc] = "connectTransport"
        \/ pc = "awaitAnswer" /\ After[pc] = "startSender"
    BY <1>2 DEF Receive, Replies, After
  <2> DEFINE m == Head(incoming)
  <2>2. CASE ~Concerns(m)
    BY <1>2, <2>2 DEF Receive
  <2>3. CASE Concerns(m) /\ m.type = Granted[pc]
    <3>1. /\ pc' = After[pc] /\ had' = TRUE
          /\ farewell' = IF pc = "awaitStatus" THEN ThreeLeft ELSE farewell
      <4>1. pc = "awaitStatus" => m.ours = TRUE
        <5>1. m \in Replied /\ (pc = "awaitStatus" => m.ours)
          BY <1>2, <2>3, QueueTyped DEF Receive, Queues, Concerns
        <5> QED
          BY <5>1 DEF Replied
      <4> QED
        BY <1>2, <2>3, <4>1, FarewellTold DEF Receive
    <3> QED
      BY <2>1, <3>1
  <2>4. CASE Concerns(m) /\ m.type # Granted[pc]
    <3>1. pc' = "unwindSender" /\ UNCHANGED <<farewell, had>>
      BY <1>2, <2>4 DEF Receive, Fail
    <3> QED
      BY <2>1, <3>1
  <2> QED
    BY <2>2, <2>3, <2>4
<1>3. CASE GiveUpWaiting
  BY <1>3 DEF GiveUpWaiting, Replies, Fail
<1>4. CASE ConnectTransport \/ Offer \/ StartSender
  BY <1>4 DEF ConnectTransport, Offer, StartSender, SendOr, Fail
<1>5. CASE InstallHandler \/ SpawnMonitor \/ CaptureStops \/ CaptureFails \/ ClaimShutdown
  BY <1>5 DEF InstallHandler, SpawnMonitor, CaptureStops, CaptureFails, ClaimShutdown, Fail
<1>6. CASE StopSender
  BY <1>6 DEF StopSender, Proceed, Shutdown, Unwinding
<1>7. CASE SayFarewell
  BY <1>7, FarewellTold DEF SayFarewell
<1>8. CASE SessionDropped
  BY <1>8 DEF SessionDropped, Proceed, Shutdown, Unwinding
<1>9. CASE DropChannel \/ JoinDispatcher
  BY <1>9 DEF DropChannel, JoinDispatcher, Proceed, Shutdown, Unwinding
<1>10. CASE JoinMonitor \/ DropSink
  BY <1>10 DEF JoinMonitor, DropSink, Proceed, Shutdown, Unwinding
<1>11. CASE ~Main /\ ~CaptureFails
  BY <1>11, OthersLeaveMain DEF mainVars
<1> QED
  BY <1>1, <1>2, <1>3, <1>4, <1>5, <1>6, <1>7, <1>8, <1>9, <1>10, <1>11 DEF Main

LEMMA ResourcesPreserved == Inv /\ [Next]_vars => ResourcesInv'
<1> SUFFICES ASSUME Inv, [Next]_vars PROVE ResourcesInv'
  OBVIOUS
<1>0. rtp \in BOOLEAN /\ sink \in BOOLEAN /\ pc \in Places
  BY DEF Inv, Typed, SessionInv
<1> USE DEF Inv, ResourcesInv, Before, Negotiating, Streaming, Ending, Unwound, Places
<1>1. CASE Connect \/ CreateSink \/ Launch
  BY <1>0, <1>1 DEF Connect, CreateSink, Launch, SendOr, Fail
<1>2. CASE Receive
  BY <1>0, <1>2 DEF Receive, Replies, Granted, After, Fail
<1>3. CASE GiveUpWaiting
  BY <1>0, <1>3 DEF GiveUpWaiting, Replies, Fail
<1>4. CASE ConnectTransport \/ Offer \/ StartSender
  BY <1>0, <1>4 DEF ConnectTransport, Offer, StartSender, SendOr, Fail
<1>5. CASE InstallHandler \/ SpawnMonitor \/ CaptureStops \/ CaptureFails \/ ClaimShutdown
  BY <1>0, <1>5
  DEF InstallHandler, SpawnMonitor, CaptureStops, CaptureFails, ClaimShutdown, Fail
<1>6. CASE StopSender
  BY <1>0, <1>6 DEF StopSender, Proceed, Shutdown, Unwinding
<1>7. CASE SayFarewell
  BY <1>0, <1>7 DEF SayFarewell
<1>8. CASE SessionDropped
  BY <1>0, <1>8 DEF SessionDropped, Proceed, Shutdown, Unwinding
<1>9. CASE DropChannel \/ JoinDispatcher
  BY <1>0, <1>9 DEF DropChannel, JoinDispatcher, Proceed, Shutdown, Unwinding
<1>10. CASE JoinMonitor \/ DropSink
  BY <1>0, <1>10 DEF JoinMonitor, DropSink, Proceed, Shutdown, Unwinding
<1>11. CASE ~Main /\ ~CaptureFails
  BY <1>11, OthersLeaveMain DEF mainVars
<1> QED
  BY <1>1, <1>2, <1>3, <1>4, <1>5, <1>6, <1>7, <1>8, <1>9, <1>10, <1>11 DEF Main

LEMMA MonitorPreserved == Inv /\ [Next]_vars => MonitorInv'
<1> SUFFICES ASSUME Inv, [Next]_vars PROVE MonitorInv'
  OBVIOUS
<1>0. pc \in Places /\ result \in {"none", "ok", "error"} /\ MonitorInv
  BY DEF Inv, SessionInv, ResourcesInv
<1> USE DEF MonitorInv, Before, Negotiating, Streaming, Ending, Unwound, Places
<1>1. CASE Connect \/ CreateSink \/ Launch
  BY <1>0, <1>1 DEF Connect, CreateSink, Launch, SendOr, Fail, ours, monitorVars
<1>2. CASE Receive
  BY <1>0, <1>2 DEF Receive, Replies, Granted, After, Fail, ours, monitorVars
<1>3. CASE GiveUpWaiting
  BY <1>0, <1>3 DEF GiveUpWaiting, Replies, Fail, ours, monitorVars
<1>4. CASE ConnectTransport \/ Offer \/ StartSender
  BY <1>0, <1>4 DEF ConnectTransport, Offer, StartSender, SendOr, Fail, ours, monitorVars
<1>5. CASE InstallHandler \/ SpawnMonitor
  BY <1>0, <1>5 DEF InstallHandler, SpawnMonitor, Fail, ours, monitorVars
<1>6. CASE CaptureStops \/ CaptureFails
  BY <1>0, <1>6 DEF CaptureStops, CaptureFails, ours, monitorVars
<1>7. CASE ClaimShutdown
  <2>1. result # "none"
    BY <1>7 DEF ClaimShutdown, Inv, ResourcesInv
  <2> QED
    BY <1>0, <1>7, <2>1 DEF ClaimShutdown, Claims, monitorVars
<1>8. CASE StopSender
  BY <1>0, <1>8 DEF StopSender, Proceed, Shutdown, Unwinding, ours, monitorVars
<1>9. CASE SayFarewell \/ SessionDropped
  BY <1>0, <1>9
  DEF SayFarewell, SessionDropped, Proceed, Shutdown, Unwinding, ours, monitorVars
<1>10. CASE DropChannel \/ JoinDispatcher
  BY <1>0, <1>10
  DEF DropChannel, JoinDispatcher, Proceed, Shutdown, Unwinding, ours, monitorVars
<1>11. CASE JoinMonitor \/ DropSink
  BY <1>0, <1>11 DEF JoinMonitor, DropSink, Proceed, Shutdown, Unwinding, ours, monitorVars
<1>12. CASE Monitor \/ Signal
  BY <1>0, <1>12
  DEF Monitor, MonitorReceives, MonitorDisconnected, MonitorSwaps, Signal, mainVars, monitorVars
<1>13. CASE ChannelMoves \/ LoseConnection \/ CloseRing \/ Receiver \/ UNCHANGED vars
  <2>1. UNCHANGED <<pc, result, stop, monitor>>
    BY <1>13, Said
    DEF ChannelMoves, LoseConnection, CloseRing, Receiver, TakeMessage, AppStarts, AppRefused,
        AnswerOffer, HangUp, SaySomethingElse, vars, mainVars, ours, monitorVars
  <2> QED
    BY <1>0, <2>1
<1> QED
  BY <1>1, <1>2, <1>3, <1>4, <1>5, <1>6, <1>7, <1>8, <1>9, <1>10, <1>11, <1>12, <1>13
  DEF Next, Main

LEMMA ChannelPreserved == Inv /\ [Next]_vars => ChannelInv'
<1> SUFFICES ASSUME Inv, [Next]_vars PROVE ChannelInv'
  OBVIOUS
<1>0. pc \in Places /\ ending \in BOOLEAN /\ lost \in BOOLEAN /\ ChannelInv
  BY DEF Inv, SessionInv, Typed
<1> USE DEF ChannelInv, Before, Negotiating, Streaming, Ending, Unwound, Places
<1>1. CASE Connect
  BY <1>0, <1>1 DEF Connect, Channel!Open, Channel!OpenFails
<1>2. CASE CreateSink
  BY <1>0, <1>2 DEF CreateSink, Fail, channelVars
<1>3. CASE Launch \/ ConnectTransport \/ Offer
  <2>1. PICK m : TrySend(m)
    BY <1>3 DEF Launch, ConnectTransport, Offer, SendOr
  <2>2. pc # "connect" /\ pc \notin Parted
    BY <1>3 DEF Launch, ConnectTransport, Offer, Parted
  <2>3. pc' # "connect" /\ pc' \notin Parted
    BY <1>3 DEF Launch, ConnectTransport, Offer, SendOr, Fail, Parted
  <2> QED
    BY <1>0, <2>1, <2>2, <2>3, Tried DEF Parted
<1>4. CASE SayFarewell
  <2>1. pc' = pc /\ \E m : TrySend(m)
    BY <1>4 DEF SayFarewell
  <2> QED
    BY <1>0, <2>1, Tried
<1>5. CASE Receive
  BY <1>0, <1>5 DEF Receive, Replies, Granted, After, Fail
<1>6. CASE GiveUpWaiting
  BY <1>0, <1>6 DEF GiveUpWaiting, Replies, Fail, channelVars
<1>7. CASE StartSender \/ InstallHandler \/ SpawnMonitor
  BY <1>0, <1>7 DEF StartSender, InstallHandler, SpawnMonitor, Fail, channelVars
<1>8. CASE CaptureStops \/ CaptureFails \/ ClaimShutdown
  BY <1>0, <1>8 DEF CaptureStops, CaptureFails, ClaimShutdown, channelVars
<1>9. CASE StopSender
  BY <1>0, <1>9 DEF StopSender, Proceed, Shutdown, Unwinding, channelVars
<1>10. CASE SessionDropped
  BY <1>0, <1>10 DEF SessionDropped, Proceed, Shutdown, Unwinding, channelVars
<1>11. CASE DropChannel
  BY <1>0, <1>11 DEF DropChannel, Proceed, Shutdown, Unwinding, Channel!Stop
<1>12. CASE JoinDispatcher
  BY <1>0, <1>12 DEF JoinDispatcher, Proceed, Shutdown, Unwinding, channelVars
<1>13. CASE JoinMonitor
  BY <1>0, <1>13 DEF JoinMonitor, Proceed, Shutdown, Unwinding, channelVars
<1>14. CASE DropSink
  BY <1>0, <1>14 DEF DropSink, Proceed, Shutdown, Unwinding, channelVars
<1>15. CASE ChannelMoves
  BY <1>0, <1>15
  DEF ChannelMoves, Channel!Deliver, Channel!Forward, Channel!End, mainVars
<1>16. CASE LoseConnection
  BY <1>0, <1>16 DEF LoseConnection, Channel!Break, mainVars
<1>17. CASE Monitor \/ CloseRing \/ Signal \/ Receiver \/ UNCHANGED vars
  <2>1. UNCHANGED <<pc, dispatcher, ending, lost, outbound>>
    BY <1>17, Said
    DEF Monitor, MonitorReceives, MonitorDisconnected, MonitorSwaps, CloseRing, Signal,
        Receiver, TakeMessage, AppStarts, AppRefused, AnswerOffer, HangUp, SaySomethingElse,
        vars, mainVars, channelVars
  <2> QED
    BY <1>0, <2>1
<1> QED
  BY <1>1, <1>2, <1>3, <1>4, <1>5, <1>6, <1>7, <1>8, <1>9, <1>10, <1>11, <1>12, <1>13, <1>14,
     <1>15, <1>16, <1>17 DEF Next, Main

(* What a step takes from the channel's queues and puts into them, said of *)
(* one message: it may be delivered, forwarded, taken or lost.             *)
LEMMA Moved ==
  ASSUME Inv, NEW m, ChannelMoves \/ LoseConnection
  PROVE /\ UNCHANGED <<mainVars, ours, receiverVars>>
        /\ lost => lost'
        /\ (Has(inbound, m) \/ Has(incoming, m)) <=> (Has(inbound, m) \/ Has(incoming, m))'
        /\ Has(outbound, m)' \/ Has(delivered, m)' => Has(outbound, m) \/ Has(delivered, m)
        /\ Has(outbound, m) \/ Has(delivered, m) =>
             Has(outbound, m)' \/ Has(delivered, m)' \/ lost'
        /\ /\ Once(outbound, m) /\ Once(delivered, m)
           /\ ~(Has(outbound, m) /\ Has(delivered, m))
           => /\ Once(outbound, m)' /\ Once(delivered, m)'
              /\ ~(Has(outbound, m)' /\ Has(delivered, m)')
<1> USE DEF Inv, Queues
<1>0. /\ UNCHANGED <<mainVars, ours, receiverVars>>
      /\ Channel!Deliver \/ Channel!Forward \/ Channel!End \/ Channel!Break
  BY DEF ChannelMoves, LoseConnection
<1>1. CASE Channel!Forward
  <2>1. /\ inbound # <<>> /\ inbound' = Tail(inbound)
        /\ incoming' = Append(incoming, Head(inbound))
        /\ UNCHANGED <<lost, outbound, delivered>>
    BY <1>1 DEF Channel!Forward
  <2>2. Head(inbound) \in Replied
    BY <2>1, QueueTyped
  <2>3. Has(inbound, m) <=> Head(inbound) = m \/ Has(inbound', m)
    BY <2>1, HasDropped
  <2>4. Has(incoming', m) <=> Has(incoming, m) \/ Head(inbound) = m
    BY <2>1, <2>2, HasAppended
  <2> QED
    BY <1>0, <2>1, <2>3, <2>4 DEF Has, Once
<1>2. CASE Channel!Deliver \/ (Channel!Break /\ outbound' # outbound)
  <2>1. /\ outbound # <<>> /\ outbound' = Tail(outbound)
        /\ UNCHANGED <<inbound, incoming>>
        /\ \/ delivered' = Append(delivered, Head(outbound)) /\ (lost => lost')
           \/ delivered' = delivered /\ lost'
    <3>1. CASE Channel!Deliver
      BY <3>1 DEF Channel!Deliver
    <3>2. CASE Channel!Break /\ outbound' # outbound
      <4>1. /\ outbound # <<>> /\ outbound' = Tail(outbound)
            /\ delivered' \in {delivered, Append(delivered, Head(outbound))}
            /\ UNCHANGED <<inbound, incoming>>
        BY <3>2 DEF Channel!Break
      <4>2. lost'
        BY <3>2, Zenon DEF Channel!Break
      <4> QED
        BY <4>1, <4>2
    <3> QED
      BY <1>2, <3>1, <3>2
  <2>2. Head(outbound) \in Requests
    BY <2>1, QueueTyped
  <2>3. /\ Has(outbound, m) <=> Head(outbound) = m \/ Has(outbound', m)
        /\ Once(outbound, m) => Once(outbound', m) /\ ~(Head(outbound) = m /\ Has(outbound', m))
    BY <2>1, HasDropped
  <2>4. CASE delivered' = Append(delivered, Head(outbound)) /\ (lost => lost')
    <3>1. /\ Has(delivered', m) <=> Has(delivered, m) \/ Head(outbound) = m
          /\ Once(delivered, m) /\ ~(Head(outbound) = m /\ Has(delivered, m))
               => Once(delivered', m)
      BY <2>2, <2>4, HasAppended
    <3> QED
      BY <1>0, <2>1, <2>3, <2>4, <3>1
  <2>5. CASE delivered' = delivered /\ lost'
    BY <1>0, <2>1, <2>3, <2>5
  <2> QED
    BY <2>1, <2>4, <2>5
<1>3. CASE Channel!End \/ (Channel!Break /\ outbound' = outbound)
  <2>1. UNCHANGED <<inbound, incoming, outbound>> /\ (lost => lost')
    <3>1. CASE Channel!End
      BY <3>1 DEF Channel!End
    <3>2. CASE Channel!Break /\ outbound' = outbound
      <4>1. lost'
        BY <3>2, Zenon DEF Channel!Break
      <4> QED
        BY <3>2, <4>1 DEF Channel!Break
    <3> QED
      BY <1>3, <3>1, <3>2
  <2>2. CASE UNCHANGED delivered
    BY <1>0, <2>1, <2>2 DEF Has, Once
  <2>3. CASE delivered' # delivered
    <3>1. outbound # <<>> /\ outbound' = Tail(outbound)
      BY <1>3, <2>3 DEF Channel!End, Channel!Break
    <3>2. \A q \in Seq(Requests) : q # <<>> => Tail(q) # q
      BY \A q \in Seq(Requests) : q # <<>> => Len(Tail(q)) = Len(q) - 1 /\ Len(q) \in Nat
    <3> QED
      BY <2>1, <3>1, <3>2
  <2> QED
    BY <2>2, <2>3
<1> QED
  BY <1>0, <1>1, <1>2, <1>3

LEMMA LaunchPreserved == Inv /\ [Next]_vars => LaunchInv'
<1> SUFFICES ASSUME Inv, [Next]_vars PROVE LaunchInv'
  OBVIOUS
<1>0. LaunchInv /\ Queues
  BY DEF Inv
<1>1. CASE Silent
  BY <1>0, <1>1, SilentQueues DEF LaunchInv, NoLaunch, Answered, receiverVars
<1>2. CASE Connect
  <2>1. /\ delivered' \in {delivered, <<Ours("CONNECT")>>} /\ pc = "connect"
        /\ UNCHANGED <<outbound, inbound, incoming, had, app>>
    BY <1>2 DEF Connect, Channel!Open, Channel!OpenFails, receiverVars
  <2>2. ~Has(delivered', LaunchMsg) /\ Once(delivered', LaunchMsg)
    BY <1>0, <2>1, HasShort, Distinct DEF LaunchInv, NoLaunch
  <2> QED
    BY <1>0, <2>1, <2>2 DEF LaunchInv, NoLaunch, Answered
<1>3. CASE Launch
  <2>1. /\ pc = "launch" /\ pc' \notin {"connect", "sink", "launch"}
        /\ UNCHANGED <<had, app>> /\ TrySend(LaunchMsg)
    BY <1>3 DEF Launch, SendOr, Fail, LaunchMsg, receiverVars
  <2>2. UNCHANGED <<delivered, inbound, incoming>>
    BY <2>1, Tried
  <2>3. ~Has(delivered, LaunchMsg) /\ ~Has(outbound, LaunchMsg) /\ ~Answered /\ app = "absent"
    BY <1>0, <2>1 DEF LaunchInv, NoLaunch
  <2>4. LaunchMsg \in Requests
    BY DEF LaunchMsg, Requests
  <2>5. Once(outbound', LaunchMsg)
    <3>1. outbound' = outbound \/ outbound' = Append(outbound, LaunchMsg)
      BY <2>1, Tried
    <3>2. Once(outbound, LaunchMsg) /\ outbound \in Seq(Requests)
      BY <1>0 DEF LaunchInv, Queues
    <3>3. Once(Append(outbound, LaunchMsg), LaunchMsg)
      BY <2>3, <2>4, <3>2, HasAppended
    <3> QED
      BY <3>1, <3>2, <3>3
  <2>6. ~Answered' /\ ~Has(delivered', LaunchMsg) /\ Once(delivered', LaunchMsg)
    BY <1>0, <2>1, <2>2, <2>3 DEF Answered, LaunchInv
  <2> QED
    BY <2>1, <2>3, <2>5, <2>6 DEF LaunchInv
<1>4. CASE ConnectTransport \/ Offer \/ SayFarewell
  <2>1. /\ pc' \notin {"connect", "sink", "launch"} \/ pc' = pc
        /\ UNCHANGED <<had, app>>
    BY <1>4 DEF ConnectTransport, Offer, SayFarewell, SendOr, Fail, receiverVars
  <2>2. PICK m \in Requests : TrySend(m) /\ m # LaunchMsg
    <3>1. CASE ConnectTransport
      <4>1. TrySend(Ours("CONNECT")) /\ Ours("CONNECT") \in Requests
        BY <3>1 DEF ConnectTransport, SendOr, Requests
      <4> QED
        BY <4>1, Distinct
    <3>2. CASE Offer
      <4>1. TrySend(Ours("OFFER")) /\ Ours("OFFER") \in Requests
        BY <3>2 DEF Offer, SendOr, Requests
      <4> QED
        BY <4>1, Distinct
    <3>3. CASE SayFarewell
      <4>1. TrySend(Head(farewell)) /\ Head(farewell) \in {StopMsg, CloseMsg}
        BY <3>3, FarewellTold DEF SayFarewell, Inv, SessionInv
      <4>2. {StopMsg, CloseMsg} \subseteq Requests
        BY DEF StopMsg, CloseMsg, Requests
      <4> QED
        BY <4>1, <4>2, Distinct
    <3> QED
      BY <1>4, <3>1, <3>2, <3>3
  <2>3. UNCHANGED <<delivered, inbound, incoming>>
    BY <2>2, Tried
  <2>4. /\ Has(outbound', LaunchMsg) <=> Has(outbound, LaunchMsg)
        /\ Once(outbound, LaunchMsg) => Once(outbound', LaunchMsg)
    <3>1. outbound' = outbound \/ outbound' = Append(outbound, m)
      BY <2>2, Tried
    <3>2. /\ Has(Append(outbound, m), LaunchMsg) <=> Has(outbound, LaunchMsg) \/ m = LaunchMsg
          /\ Once(outbound, LaunchMsg) /\ ~(m = LaunchMsg /\ Has(outbound, LaunchMsg))
               => Once(Append(outbound, m), LaunchMsg)
      BY <1>0, HasAppended DEF Queues
    <3> QED
      BY <2>2, <3>1, <3>2
  <2> QED
    BY <1>0, <2>1, <2>3, <2>4 DEF LaunchInv, NoLaunch, Answered
<1>5. CASE Receive \/ MonitorReceives
  <2>1. /\ incoming # <<>> /\ incoming' = Tail(incoming)
        /\ UNCHANGED <<outbound, delivered, inbound, app>>
    BY <1>5 DEF Receive, MonitorReceives, receiverVars
  <2>2. Has(incoming, StatusMsg) <=> Head(incoming) = StatusMsg \/ Has(incoming', StatusMsg)
    BY <1>0, <2>1, HasDropped DEF Queues
  <2>3. had' => had \/ Head(incoming) = StatusMsg
    <3>1. CASE MonitorReceives
      BY <3>1 DEF MonitorReceives, mainVars
    <3>2. CASE Receive /\ pc = "awaitAnswer"
      BY <3>2 DEF Inv, SessionInv, Negotiating
    <3>3. CASE Receive /\ pc = "awaitStatus"
      <4>1. Head(incoming) \in Replied
        BY <1>0, <2>1, QueueTyped DEF Queues
      <4> QED
        BY <3>3, <4>1, RepliesTold DEF Receive, Concerns, Replies, Granted
    <3> QED
      BY <1>5, <3>1, <3>2, <3>3 DEF Receive, Replies
  <2>4. pc' \in {"connect", "sink", "launch"} => pc' = pc /\ had' = had
    BY <1>5 DEF Receive, MonitorReceives, After, Replies, Fail, mainVars
  <2>5. Answered' => Answered
    BY <2>1, <2>2, <2>3 DEF Answered
  <2> QED
    BY <1>0, <2>1, <2>4, <2>5 DEF LaunchInv, NoLaunch
<1>6. CASE ChannelMoves \/ LoseConnection
  <2>1. /\ UNCHANGED <<pc, had, app>>
        /\ NoLaunch => NoLaunch'
        /\ Answered' => Answered
    BY <1>6, Moved DEF mainVars, receiverVars, NoLaunch, Answered
  <2>2. /\ Once(outbound, LaunchMsg)' /\ Once(delivered, LaunchMsg)'
        /\ ~(Has(outbound, LaunchMsg)' /\ Has(delivered, LaunchMsg)')
    BY <1>0, <1>6, Moved DEF LaunchInv
  <2> QED
    BY <1>0, <2>1, <2>2 DEF LaunchInv
<1>7. CASE TakeMessage
  <2> DEFINE m == Head(delivered)
  <2>1. /\ delivered # <<>> /\ delivered' = Tail(delivered)
        /\ UNCHANGED <<mainVars, outbound, inbound, incoming>>
    BY <1>7 DEF TakeMessage
  <2>2. /\ Has(delivered, LaunchMsg) <=> m = LaunchMsg \/ Has(delivered', LaunchMsg)
        /\ Once(delivered, LaunchMsg) =>
             Once(delivered', LaunchMsg) /\ ~(m = LaunchMsg /\ Has(delivered', LaunchMsg))
    BY <1>0, <2>1, HasDropped DEF Queues
  <2>3. m \in Requests
    BY <1>0, <2>1, QueueTyped DEF Queues
  <2>4. Answered' = Answered /\ pc' = pc
    BY <2>1 DEF Answered, mainVars
  <2>5. CASE m = LaunchMsg
    <3>1. ~Answered /\ pc \notin {"connect", "sink", "launch"}
      BY <1>0, <2>2, <2>5 DEF LaunchInv, NoLaunch
    <3> QED
      BY <1>0, <2>1, <2>2, <2>4, <2>5, <3>1 DEF LaunchInv, NoLaunch
  <2>6. CASE m # LaunchMsg
    <3>1. app' \in {app, "absent"}
      BY <1>7, <2>3, <2>6, RequestsTold DEF TakeMessage
    <3> QED
      BY <1>0, <2>1, <2>2, <2>4, <3>1 DEF LaunchInv, NoLaunch
  <2> QED
    BY <2>5, <2>6
<1>8. CASE AppStarts \/ AppRefused \/ AnswerOffer \/ HangUp \/ SaySomethingElse
  <2>1. PICK m \in Replied :
          /\ Say(m)
          /\ m = StatusMsg => app = "launching" /\ app' = "running"
          /\ app' = "launching" => app = "launching" /\ m # StatusMsg
          /\ app' # "absent" => app # "absent"
    BY <1>8 DEF AppStarts, AppRefused, AnswerOffer, HangUp, SaySomethingElse, Replied, Ours,
       Others, StatusMsg
  <2>2. UNCHANGED <<pc, had, outbound, delivered, incoming>>
    BY <2>1, Said DEF mainVars
  <2>3. Has(inbound', StatusMsg) => Has(inbound, StatusMsg) \/ m = StatusMsg
    <3>1. inbound' = inbound \/ inbound' = Append(inbound, m)
      BY <2>1, Said
    <3>2. Has(Append(inbound, m), StatusMsg) <=> Has(inbound, StatusMsg) \/ m = StatusMsg
      BY <1>0, HasAppended DEF Queues
    <3> QED
      BY <3>1, <3>2
  <2>4. NoLaunch' = NoLaunch
    BY <2>2 DEF NoLaunch
  <2>5. Answered' => Answered \/ m = StatusMsg
    BY <2>2, <2>3 DEF Answered
  <2> QED
    BY <1>0, <2>1, <2>2, <2>4, <2>5 DEF LaunchInv
<1>9. CASE UNCHANGED vars
  BY <1>0, <1>9
  DEF vars, mainVars, channelVars, receiverVars, LaunchInv, NoLaunch, Answered
<1> QED
  BY <1>1, <1>2, <1>3, <1>4, <1>5, <1>6, <1>7, <1>8, <1>9, StepKinds DEF Receiver

LEMMA UnloadPreserved == Inv /\ [Next]_vars => UnloadInv'
<1> SUFFICES ASSUME Inv, [Next]_vars, had', ~lost'
             PROVE \/ stopped' /\ app' = "absent"
                   \/ Has(delivered', StopMsg) \/ Has(outbound', StopMsg)
                   \/ farewell' = ThreeLeft
  BY DEF UnloadInv
<1>0. UnloadInv /\ Queues /\ StopMsg \in Requests
  BY DEF Inv, StopMsg, Requests
<1>1. CASE Silent
  BY <1>0, <1>1, SilentQueues DEF UnloadInv, receiverVars
<1>2. CASE Connect \/ Launch
  <2>1. had' = had /\ pc \in Before
    BY <1>2 DEF Connect, Launch, Before
  <2> QED
    BY <2>1 DEF Inv, SessionInv
<1>3. CASE ConnectTransport \/ Offer
  <2>1. UNCHANGED <<had, farewell, app, stopped>> /\ \E m \in Requests : TrySend(m)
    BY <1>3 DEF ConnectTransport, Offer, SendOr, Requests, receiverVars
  <2>2. PICK m \in Requests : TrySend(m)
    BY <2>1
  <2>3. /\ UNCHANGED <<lost, delivered>>
        /\ outbound' = outbound \/ outbound' = Append(outbound, m)
    BY <2>2, Tried
  <2>4. Has(outbound, StopMsg) => Has(Append(outbound, m), StopMsg)
    BY <1>0, HasAppended DEF Queues
  <2> QED
    BY <1>0, <2>1, <2>3, <2>4 DEF UnloadInv
<1>4. CASE SayFarewell
  <2> DEFINE m == Head(farewell)
  <2>1. /\ TrySend(m) /\ UNCHANGED <<had, app, stopped>>
        /\ pc \in {"dropSession", "unwindSession"} /\ farewell # <<>>
    BY <1>4 DEF SayFarewell, receiverVars
  <2>2. UNCHANGED <<lost, delivered, dispatcher>>
    BY <2>1, Tried
  <2>3. dispatcher = "running"
    BY <2>1, <2>2 DEF Inv, ChannelInv
  <2>4. m \in Requests
    <3>1. m \in {StopMsg, CloseMsg} /\ CloseMsg \in Requests
      BY <2>1, FarewellTold DEF Inv, SessionInv, CloseMsg, Requests
    <3> QED
      BY <1>0, <3>1
  <2>5. outbound' = Append(outbound, m)
    BY <2>1, <2>3, Tried
  <2>6. Has(Append(outbound, m), StopMsg) <=> Has(outbound, StopMsg) \/ m = StopMsg
    BY <1>0, <2>4, HasAppended DEF Queues
  <2>7. farewell = ThreeLeft => m = StopMsg
    BY FarewellTold
  <2> QED
    BY <1>0, <2>1, <2>2, <2>5, <2>6, <2>7 DEF UnloadInv
<1>5. CASE Receive
  <2>1. UNCHANGED <<outbound, delivered, lost, stopped, app>>
    BY <1>5 DEF Receive, receiverVars
  <2>2. CASE UNCHANGED <<farewell, had>>
    BY <1>0, <2>1, <2>2 DEF UnloadInv
  <2>3. CASE ~UNCHANGED <<farewell, had>>
    <3>1. Concerns(Head(incoming)) /\ Head(incoming).type = Granted[pc]
      BY <1>5, <2>3 DEF Receive
    <3>2. had \/ (pc = "awaitStatus" /\ farewell' = Farewell(Head(incoming)))
      BY <1>5, <3>1 DEF Receive, Replies, Inv, SessionInv, Negotiating
    <3>3. Head(incoming) \in Replied /\ (pc = "awaitStatus" => Head(incoming).ours)
      BY <1>0, <1>5, <3>1, QueueTyped DEF Receive, Queues, Concerns
    <3>4. pc = "awaitStatus" => Head(incoming).ours = TRUE
      BY <3>3 DEF Replied
    <3>5. pc = "awaitStatus" => Farewell(Head(incoming)) = ThreeLeft
      BY <3>4, FarewellTold
    <3>6. had => farewell' = farewell \/ farewell' = ThreeLeft
      BY <1>5, <3>5 DEF Receive
    <3> QED
      BY <1>0, <2>1, <3>2, <3>5, <3>6 DEF UnloadInv
  <2> QED
    BY <2>2, <2>3
<1>6. CASE MonitorReceives \/ UNCHANGED vars
  <2>1. UNCHANGED <<outbound, delivered, lost, stopped, app, had, farewell>>
    BY <1>6 DEF MonitorReceives, vars, mainVars, receiverVars, channelVars
  <2> QED
    BY <1>0, <2>1 DEF UnloadInv
<1>7. CASE ChannelMoves \/ LoseConnection
  <2>1. /\ UNCHANGED <<had, farewell, app, stopped>> /\ ~lost
        /\ Has(outbound, StopMsg) \/ Has(delivered, StopMsg) =>
             Has(outbound, StopMsg)' \/ Has(delivered, StopMsg)'
    BY <1>7, Moved DEF mainVars, receiverVars
  <2>2. (Has(outbound, StopMsg)' <=> Has(outbound', StopMsg))
        /\ (Has(delivered, StopMsg)' <=> Has(delivered', StopMsg))
    BY DEF Has, StopMsg, Ours
  <2> QED
    BY <1>0, <2>1, <2>2 DEF UnloadInv
<1>8. CASE TakeMessage
  <2> DEFINE m == Head(delivered)
  <2>1. /\ delivered # <<>> /\ delivered' = Tail(delivered)
        /\ UNCHANGED <<had, farewell, lost, outbound>>
    BY <1>8 DEF TakeMessage, mainVars
  <2>2. m \in Requests
    BY <1>0, <2>1, QueueTyped DEF Queues
  <2>3. Has(delivered, StopMsg) <=> m = StopMsg \/ Has(delivered', StopMsg)
    BY <1>0, <2>1, HasDropped DEF Queues
  <2>4. Has(delivered, LaunchMsg) <=> m = LaunchMsg \/ Has(delivered', LaunchMsg)
    BY <1>0, <2>1, HasDropped DEF Queues
  <2>5. m # LaunchMsg
    BY <2>1, <2>4 DEF Inv, LaunchInv, NoLaunch, Answered
  <2>6. m = StopMsg => stopped' /\ app' = "absent"
    BY <1>8, <2>2, RequestsTold DEF TakeMessage, StopMsg
  <2>7. app' \in {app, "absent"} /\ (stopped => stopped')
    BY <1>8, <2>2, <2>5, RequestsTold DEF TakeMessage
  <2> QED
    BY <1>0, <2>1, <2>3, <2>6, <2>7 DEF UnloadInv
<1>9. CASE AppStarts \/ AppRefused \/ AnswerOffer \/ HangUp \/ SaySomethingElse
  <2>1. /\ \E m : Say(m)
        /\ stopped' = stopped
        /\ app' \in {app, "absent"} \/ app = "launching"
    BY <1>9 DEF AppStarts, AppRefused, AnswerOffer, HangUp, SaySomethingElse
  <2>2. UNCHANGED <<had, farewell, lost, outbound, delivered>>
    BY <2>1, Said DEF mainVars
  <2>3. app # "launching"
    BY <2>2 DEF Inv, LaunchInv, Answered
  <2> QED
    BY <1>0, <2>1, <2>2, <2>3 DEF UnloadInv
<1> QED
  BY <1>1, <1>2, <1>3, <1>4, <1>5, <1>6, <1>7, <1>8, <1>9, StepKinds DEF Receiver

(* The monitor learns of no end of the channel but ours or a loss.         *)
LEMMA GoneByUs ==
  ASSUME Inv, monitor = "receiving", dispatcher = "gone", ~stop
  PROVE lost
<1> SUFFICES ASSUME ~lost PROVE FALSE
  OBVIOUS
<1>1. pc \in {"joinDispatcher", "unwindDispatcher", "joinMonitor", "dropSink", "returned"}
  BY DEF Inv, ChannelInv
<1>2. pc \in {"joinDispatcher", "joinMonitor"}
  BY <1>1 DEF Inv, MonitorInv, Ending
<1> QED
  BY <1>2 DEF Inv, MonitorInv, Ending

LEMMA BlamePreserved == Inv /\ [Next]_vars => BlameInv'
<1> SUFFICES ASSUME Inv, [Next]_vars PROVE BlameInv'
  OBVIOUS
<1>0. BlameInv /\ Queues
  BY DEF Inv
<1>1. CASE Receive \/ MonitorReceives
  <2>1. /\ incoming # <<>> /\ incoming' = Tail(incoming)
        /\ UNCHANGED <<inbound, lost, hungUp, reported, stop>>
    BY <1>1 DEF Receive, MonitorReceives, receiverVars, ours, monitorVars
  <2>2. Has(incoming, CloseMsg) <=> Head(incoming) = CloseMsg \/ Has(incoming', CloseMsg)
    BY <1>0, <2>1, HasDropped DEF Queues
  <2>3. Head(incoming) \in Replied
    BY <1>0, <2>1, QueueTyped DEF Queues
  <2>4. \/ UNCHANGED <<monitor, reason>>
        \/ reason' = "closed" /\ Head(incoming) = CloseMsg
    BY <1>1, <2>3, RepliesTold DEF Receive, MonitorReceives, Ends, ours, monitorVars
  <2> QED
    BY <1>0, <2>1, <2>2, <2>4 DEF BlameInv, BlameIsReal
<1>2. CASE MonitorDisconnected
  <2>1. /\ monitor = "receiving" /\ dispatcher = "gone"
        /\ UNCHANGED <<reason, reported, stop, lost, hungUp, inbound, incoming>>
    BY <1>2 DEF MonitorDisconnected, channelVars, receiverVars
  <2> QED
    BY <1>0, <2>1, GoneByUs DEF BlameInv, BlameIsReal
<1>3. CASE MonitorSwaps
  <2>1. /\ monitor = "swap" /\ monitor' = "done"
        /\ reported' = IF stop THEN reported ELSE reason
        /\ UNCHANGED <<reason, lost, hungUp, inbound, incoming>>
    BY <1>3 DEF MonitorSwaps, channelVars, receiverVars
  <2>2. reason \in {"lost", "closed"}
    BY DEF Inv, Typed
  <2> QED
    BY <1>0, <2>1, <2>2 DEF BlameInv, BlameIsReal
<1>4. CASE Silent /\ ~MonitorDisconnected /\ ~MonitorSwaps
  <2>1. UNCHANGED <<inbound, incoming, lost, hungUp>>
    BY <1>4, SilentQueues DEF receiverVars
  <2>2. /\ UNCHANGED <<reason, reported>> /\ (stop => stop')
        /\ monitor' = monitor \/ monitor' = "receiving"
    <3>1. CASE CreateSink \/ GiveUpWaiting \/ StartSender \/ InstallHandler \/ SpawnMonitor
      BY <3>1 DEF CreateSink, GiveUpWaiting, StartSender, InstallHandler, SpawnMonitor, ours,
         monitorVars
    <3>2. CASE CaptureStops \/ CaptureFails \/ CloseRing
      BY <3>2 DEF CaptureStops, CaptureFails, CloseRing, ours, monitorVars
    <3>3. CASE ClaimShutdown \/ Signal
      BY <3>3 DEF ClaimShutdown, Claims, Signal, monitorVars
    <3>4. CASE \/ StopSender \/ SessionDropped \/ DropChannel \/ JoinDispatcher \/ JoinMonitor
               \/ DropSink
      BY <3>4 DEF StopSender, SessionDropped, DropChannel, JoinDispatcher, JoinMonitor,
         DropSink, ours, monitorVars
    <3> QED
      BY <1>4, <3>1, <3>2, <3>3, <3>4 DEF Silent
  <2> QED
    BY <1>0, <2>1, <2>2 DEF BlameInv, BlameIsReal
<1>5. CASE Connect \/ Launch \/ ConnectTransport \/ Offer \/ SayFarewell
  <2>1. UNCHANGED <<inbound, incoming, reason, reported, monitor, stop, hungUp>>
        /\ (lost => lost')
    <3>1. CASE Connect
      BY <3>1 DEF Connect, Channel!Open, Channel!OpenFails, ours, monitorVars, receiverVars
    <3>2. CASE Launch \/ ConnectTransport \/ Offer \/ SayFarewell
      <4>1. \E m : TrySend(m)
        BY <3>2 DEF Launch, ConnectTransport, Offer, SayFarewell, SendOr
      <4> QED
        BY <3>2, <4>1, Tried
        DEF Launch, ConnectTransport, Offer, SayFarewell, ours, monitorVars, receiverVars
    <3> QED
      BY <1>5, <3>1, <3>2
  <2> QED
    BY <1>0, <2>1 DEF BlameInv, BlameIsReal
<1>6. CASE ChannelMoves \/ LoseConnection
  <2>1. /\ UNCHANGED <<reason, reported, monitor, stop, hungUp>> /\ (lost => lost')
        /\ (Has(inbound, CloseMsg) \/ Has(incoming, CloseMsg))
             <=> (Has(inbound, CloseMsg) \/ Has(incoming, CloseMsg))'
    BY <1>6, Moved DEF ours, monitorVars, receiverVars
  <2> QED
    BY <1>0, <2>1 DEF BlameInv, BlameIsReal
<1>7. CASE TakeMessage \/ UNCHANGED vars
  <2>1. UNCHANGED <<reason, reported, monitor, stop, hungUp, lost, inbound, incoming>>
    BY <1>7 DEF TakeMessage, vars, ours, monitorVars, channelVars, receiverVars
  <2> QED
    BY <1>0, <2>1 DEF BlameInv, BlameIsReal
<1>8. CASE AppStarts \/ AppRefused \/ AnswerOffer \/ HangUp \/ SaySomethingElse
  <2>1. PICK m \in Replied : Say(m) /\ (m = CloseMsg => hungUp') /\ (hungUp => hungUp')
    <3>1. CASE HangUp
      <4>1. Say(CloseMsg) /\ CloseMsg \in Replied
        BY <3>1 DEF HangUp, CloseMsg, Ours, Replied
      <4>2. hungUp'
        BY <3>1, Zenon DEF HangUp
      <4> QED
        BY <4>1, <4>2
    <3>2. CASE AppStarts \/ AppRefused \/ AnswerOffer \/ SaySomethingElse
      <4>1. hungUp' = hungUp
        BY <3>2 DEF AppStarts, AppRefused, AnswerOffer, SaySomethingElse
      <4>2. \E m \in Replied : Say(m) /\ m # CloseMsg
        BY <3>2 DEF AppStarts, AppRefused, AnswerOffer, SaySomethingElse, Replied, Ours,
           Others, CloseMsg
      <4> QED
        BY <4>1, <4>2
    <3> QED
      BY <1>8, <3>1, <3>2
  <2>2. UNCHANGED <<reason, reported, monitor, stop, lost, incoming>>
    BY <2>1, Said DEF ours, monitorVars
  <2>3. inbound' = inbound \/ inbound' = Append(inbound, m)
    BY <2>1, Said
  <2>4. Has(Append(inbound, m), CloseMsg) <=> Has(inbound, CloseMsg) \/ m = CloseMsg
    BY <1>0, HasAppended DEF Queues
  <2> QED
    BY <1>0, <2>1, <2>2, <2>3, <2>4 DEF BlameInv, BlameIsReal
<1> QED
  BY <1>1, <1>2, <1>3, <1>4, <1>5, <1>6, <1>7, <1>8, StepKinds DEF Receiver

LEMMA TypedPreserved == Inv /\ [Next]_vars => Typed'
<1> SUFFICES ASSUME Inv, [Next]_vars PROVE Typed'
  OBVIOUS
<1>1. had' \in BOOLEAN /\ sink' \in BOOLEAN /\ rtp' \in BOOLEAN
  <2>1. CASE ~Main /\ ~CaptureFails
    BY <2>1, OthersLeaveMain DEF mainVars, Inv, Typed
  <2>2. CASE Main \/ CaptureFails
    BY <2>2 DEF Main, Connect, CreateSink, Launch, Receive, GiveUpWaiting, ConnectTransport,
       Offer, StartSender, InstallHandler, SpawnMonitor, CaptureStops, CaptureFails,
       ClaimShutdown, StopSender, SayFarewell, SessionDropped, DropChannel, JoinDispatcher,
       JoinMonitor, DropSink, Inv, Typed
  <2> QED
    BY <2>1, <2>2
<1>2. /\ closed' \in BOOLEAN /\ stop' \in BOOLEAN
      /\ monitor' \in {"none", "receiving", "swap", "done"}
      /\ reason' \in {"lost", "closed"} /\ reported' \in {"none", "lost", "closed"}
  <2> USE DEF ours, monitorVars
  <2>1. CASE Connect \/ CreateSink \/ Launch \/ Receive \/ GiveUpWaiting \/ ConnectTransport
    BY <2>1 DEF Connect, CreateSink, Launch, Receive, GiveUpWaiting, ConnectTransport, Inv,
       Typed
  <2>2. CASE \/ Offer \/ StartSender \/ InstallHandler \/ SpawnMonitor \/ CaptureStops
             \/ CaptureFails \/ SayFarewell \/ StopSender \/ SessionDropped
    BY <2>2 DEF Offer, StartSender, InstallHandler, SpawnMonitor, CaptureStops, CaptureFails,
       SayFarewell, StopSender, SessionDropped, Inv, Typed
  <2>3. CASE ClaimShutdown \/ DropSink \/ CloseRing \/ Signal
    <3>1. /\ closed' \in {closed, closed \/ sink, TRUE}
          /\ stop' \in {stop, stop \/ result = "error", TRUE}
      BY <2>3 DEF ClaimShutdown, Claims, DropSink, CloseRing, Signal
    <3>2. UNCHANGED monitorVars
      BY <2>3 DEF ClaimShutdown, DropSink, CloseRing, Signal
    <3>3. closed' \in BOOLEAN /\ stop' \in BOOLEAN
      BY <3>1, Zenon DEF Inv, Typed
    <3> QED
      BY <3>2, <3>3 DEF Inv, Typed
  <2>4. CASE DropChannel \/ JoinDispatcher \/ JoinMonitor
    BY <2>4 DEF DropChannel, JoinDispatcher, JoinMonitor, Inv, Typed
  <2>5. CASE Monitor
    BY <2>5 DEF Monitor, MonitorReceives, MonitorDisconnected, MonitorSwaps, Inv, Typed
  <2>6. CASE ChannelMoves \/ LoseConnection \/ UNCHANGED vars
    BY <2>6 DEF ChannelMoves, LoseConnection, vars, Inv, Typed
  <2>7. CASE Receiver
    BY <2>7, Said DEF Receiver, TakeMessage, AppStarts, AppRefused, AnswerOffer, HangUp,
       SaySomethingElse, Inv, Typed
  <2> QED
    BY <2>1, <2>2, <2>3, <2>4, <2>5, <2>6, <2>7 DEF Next, Main
<1>3. ending' \in BOOLEAN /\ lost' \in BOOLEAN
  <2>1. CASE Silent
    <3>1. lost' = lost
      BY <2>1, SilentQueues
    <3>2. ending' \in {ending, TRUE}
      BY <2>1 DEF Silent, CreateSink, GiveUpWaiting, StartSender, InstallHandler, SpawnMonitor,
         CaptureStops, CaptureFails, ClaimShutdown, StopSender, SessionDropped, DropChannel,
         JoinDispatcher, JoinMonitor, DropSink, MonitorDisconnected, MonitorSwaps, CloseRing,
         Signal, channelVars, Channel!Stop
    <3> QED
      BY <3>1, <3>2 DEF Inv, Typed
  <2>2. CASE Connect
    BY <2>2, Zenon DEF Connect, Channel!Open, Channel!OpenFails, Inv, Typed
  <2>3. CASE Launch \/ ConnectTransport \/ Offer \/ SayFarewell
    <3>1. \E m : TrySend(m)
      BY <2>3 DEF Launch, ConnectTransport, Offer, SayFarewell, SendOr
    <3> QED
      BY <3>1, Tried DEF Inv, Typed
  <2>4. CASE ChannelMoves \/ LoseConnection
    <3>1. /\ ending' \in {ending, TRUE}
          /\ lost' \in {lost, TRUE}
      BY <2>4 DEF ChannelMoves, LoseConnection, Channel!Deliver, Channel!Forward, Channel!End,
         Channel!Break
    <3> QED
      BY <3>1 DEF Inv, Typed
  <2>5. CASE Receive \/ MonitorReceives \/ TakeMessage \/ UNCHANGED vars
    BY <2>5 DEF Receive, MonitorReceives, TakeMessage, vars, channelVars, Inv, Typed
  <2>6. CASE AppStarts \/ AppRefused \/ AnswerOffer \/ HangUp \/ SaySomethingElse
    <3>1. \E m : Say(m)
      BY <2>6 DEF AppStarts, AppRefused, AnswerOffer, HangUp, SaySomethingElse
    <3> QED
      BY <3>1, Said DEF Inv, Typed
  <2> QED
    BY <2>1, <2>2, <2>3, <2>4, <2>5, <2>6, StepKinds DEF Receiver
<1>4. /\ offered' \in BOOLEAN /\ stopped' \in BOOLEAN /\ hungUp' \in BOOLEAN
      /\ app' \in {"absent", "launching", "running"}
  <2>1. CASE Receiver
    BY <2>1 DEF Receiver, TakeMessage, AppStarts, AppRefused, AnswerOffer, HangUp,
       SaySomethingElse, Inv, Typed
  <2>2. CASE ~Receiver
    <3>1. UNCHANGED receiverVars
      BY <2>2, StepKinds, SilentQueues
      DEF Connect, Launch, Receive, ConnectTransport, Offer, SayFarewell, MonitorReceives,
          ChannelMoves, LoseConnection, vars
    <3> QED
      BY <3>1 DEF receiverVars, Inv, Typed
  <2> QED
    BY <2>1, <2>2
<1> QED
  BY <1>1, <1>2, <1>3, <1>4, Zenon DEF Typed

LEMMA Invariance == Spec => []Inv
<1>1. Inv /\ [Next]_vars => Inv'
  BY TypedPreserved, QueuesPreserved, SessionPreserved, ResourcesPreserved, MonitorPreserved,
     ChannelPreserved, LaunchPreserved, UnloadPreserved, BlamePreserved DEF Inv
<1> QED
  BY <1>1, InitInv, PTL DEF Spec

-----------------------------------------------------------------------------
(* The theorems.                                                           *)

(* The session, the RTP threads and the sink exist where the code relies   *)
(* on them, and nothing is left when run_with_device returns               *)
(* (pipeline.rs:49-167).                                                   *)
THEOREM TypeCorrect == Spec => []TypeOK
<1>1. Inv => TypeOK
  <2> SUFFICES ASSUME Inv PROVE TypeOK
    OBVIOUS
  <2>1. {had, sink, closed, rtp, stop, ending, lost, offered, stopped, hungUp} \subseteq BOOLEAN
    BY Zenon DEF Inv, Typed
  <2>2. pc \in Capturing => farewell # <<>> /\ sink /\ rtp /\ monitor # "none"
    <3> SUFFICES ASSUME pc \in Capturing
                 PROVE farewell # <<>> /\ sink /\ rtp /\ monitor # "none"
      OBVIOUS
    <3>1. pc \in Streaming /\ pc \in {"capture", "claim", "stopSender"}
      BY DEF Capturing, Streaming
    <3>2. farewell = ThreeLeft /\ sink /\ rtp /\ monitor # "none"
      BY <3>1 DEF Inv, SessionInv, ResourcesInv, MonitorInv
    <3> QED
      BY <3>2, FarewellTold
  <2>3. pc = "returned" => /\ farewell = <<>> /\ ~sink /\ ~rtp /\ result # "none"
                           /\ dispatcher = "gone" /\ monitor \in {"none", "done"}
    BY DEF Inv, Typed, SessionInv, ResourcesInv, MonitorInv, ChannelInv, Parted, Streaming
  <2>4. result \in {"none", "ok", "error"} /\ dispatcher \in {"none", "running", "gone"}
    BY DEF Inv, ResourcesInv, ChannelInv
  <2> QED
    BY <2>1, <2>2, <2>3, <2>4, Zenon DEF Inv, Typed, TypeOK
<1> QED
  BY <1>1, Invariance, PTL

(* Once there is a session, however the run ends, its app is unloaded or   *)
(* the STOP has reached the receiver, unless the connection failed         *)
(* (mirroring.rs:71-80, 105, pipeline.rs:105-167).                         *)
THEOREM AppUnloaded == Spec => []SessionUnloaded
<1>1. Inv => SessionUnloaded
  <2> SUFFICES ASSUME Inv, pc = "returned", had, ~lost
               PROVE \/ stopped /\ app = "absent"
                     \/ \E i \in DOMAIN delivered : delivered[i] = Ours("STOP")
    BY DEF SessionUnloaded
  <2>1. farewell = <<>> /\ dispatcher = "gone"
    BY DEF Inv, SessionInv, ChannelInv, Parted
  <2>2. outbound = <<>> /\ farewell # ThreeLeft
    BY <2>1, FarewellTold DEF Inv, ChannelInv
  <2>3. (stopped /\ app = "absent") \/ Has(delivered, StopMsg)
    BY <2>2, HasShort DEF Inv, UnloadInv
  <2>4. DOMAIN delivered = 1..Len(delivered)
    BY DEF Inv, Queues
  <2> QED
    BY <2>3, <2>4 DEF Has, StopMsg
<1> QED
  BY <1>1, Invariance, PTL

(* The monitor blames only a loss that was one and a CLOSE of the receiver *)
(* about our own session (pipeline.rs:155-158, 180-189).                   *)
THEOREM BlameIsDue == Spec => []BlameIsReal
BY Invariance, PTL DEF Inv, BlameInv

(* No join waits for a thread that has not been told to end: dropping the  *)
(* channel raises its stop flag first, and the monitor, which only the end *)
(* of the channel wakes, is joined once the channel has ended              *)
(* (pipeline.rs:148-167, cast_channel.rs:119-126).                         *)
ToldToEnd ==
  /\ pc \in {"joinDispatcher", "unwindDispatcher"} => ending
  /\ pc = "joinMonitor" => dispatcher = "gone"

THEOREM JoinsAreTold == Spec => []ToldToEnd
<1>1. Init => ToldToEnd
  BY DEF Init, ToldToEnd
<1>2. ASSUME Inv, Inv', ToldToEnd, [Next]_vars
      PROVE ToldToEnd'
  <2>1. pc' = "joinMonitor" => dispatcher' = "gone"
    BY <1>2 DEF Inv, ChannelInv
  <2> SUFFICES ASSUME pc' \in {"joinDispatcher", "unwindDispatcher"}
               PROVE ending'
    BY <2>1 DEF ToldToEnd
  <2> USE DEF Before, Negotiating, Streaming, Ending, Unwound, Places
  <2>2. CASE Main \/ CaptureFails
    <3>1. pc \in Places
      BY <1>2 DEF Inv, SessionInv
    <3>2. CASE DropChannel
      BY <3>2 DEF DropChannel, Channel!Stop
    <3>3. CASE StopSender \/ SessionDropped \/ JoinDispatcher \/ JoinMonitor \/ DropSink
      <4>1. pc' # pc /\ pc \notin {"dropChannel", "unwindChannel"}
        BY <3>1, <3>3 DEF StopSender, SessionDropped, JoinDispatcher, JoinMonitor, DropSink,
           Proceed, Shutdown, Unwinding
      <4> QED
        BY <3>1, <3>3, <4>1 DEF StopSender, SessionDropped, JoinDispatcher, JoinMonitor,
           DropSink, Proceed, Shutdown, Unwinding
    <3>4. CASE Connect \/ CreateSink \/ Launch \/ ConnectTransport \/ Offer \/ StartSender
      BY <3>4 DEF Connect, CreateSink, Launch, ConnectTransport, Offer, StartSender, SendOr,
         Fail
    <3>5. CASE Receive \/ GiveUpWaiting
      BY <3>5 DEF Receive, GiveUpWaiting, Replies, Granted, After, Fail
    <3>6. CASE InstallHandler \/ SpawnMonitor \/ CaptureStops \/ CaptureFails \/ ClaimShutdown
      BY <3>6 DEF InstallHandler, SpawnMonitor, CaptureStops, CaptureFails, ClaimShutdown,
         Fail
    <3>7. CASE SayFarewell
      BY <3>7 DEF SayFarewell
    <3> QED
      BY <2>2, <3>2, <3>3, <3>4, <3>5, <3>6, <3>7 DEF Main
  <2>3. CASE ~Main /\ ~CaptureFails
    <3>1. ending
      BY <1>2, <2>3, OthersLeaveMain DEF mainVars, ToldToEnd
    <3>2. CASE ChannelMoves
      BY <3>1, <3>2 DEF ChannelMoves, Channel!Deliver, Channel!Forward, Channel!End
    <3>3. CASE LoseConnection
      BY <3>1, <3>3 DEF LoseConnection, Channel!Break
    <3>4. CASE Monitor \/ CloseRing \/ Signal \/ Receiver \/ UNCHANGED vars
      BY <3>1, <3>4, Said
      DEF Monitor, MonitorReceives, MonitorDisconnected, MonitorSwaps, CloseRing, Signal,
          Receiver, TakeMessage, AppStarts, AppRefused, AnswerOffer, HangUp,
          SaySomethingElse, vars, channelVars
    <3> QED
      BY <1>2, <2>3, <3>2, <3>3, <3>4 DEF Next
  <2> QED
    BY <2>2, <2>3
<1> QED
  BY <1>1, <1>2, Invariance, PTL DEF Spec
=============================================================================
