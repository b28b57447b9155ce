---------------------------- MODULE CastChannel ----------------------------
(***************************************************************************)
(* cast_channel.rs: the thread that owns the TLS stream to the receiver.   *)
(* It cuts the inbound stream into messages, answers and sends heartbeats, *)
(* forwards everything else to the caller, writes what the caller queued,  *)
(* and gives the connection up when the peer has been silent for too long. *)
(* Before it, connect() finds an address that answers, sets TLS up and     *)
(* greets the receiver.                                                    *)
(*                                                                         *)
(* A message travels as two cells, its length prefix and its body; a read  *)
(* returns the cells that have arrived up to any point, a failed write     *)
(* leaves none, one or both of them.                                       *)
(***************************************************************************)
EXTENDS Integers, Sequences, SequencesExt

CONSTANTS
  HeartbeatInterval,  (* HEARTBEAT_INTERVAL, in ticks                       *)
  LivenessTimeout,    (* LIVENESS_TIMEOUT, in ticks                         *)
  MaxRtt,             (* bound: ticks within which the peer answers a PING  *)
  PeerKinds,          (* what the peer sends of its own accord, of the      *)
                      (* kinds "PING", "app", "garbled" and "oversized"     *)
  MaxPeerSends,       (* bound: messages it sends of its own accord         *)
  MaxSends,           (* bound: messages the caller sends                   *)
  MaxFaults,          (* bound: reads and writes that fail                  *)
  MaxLostPongs,       (* bound: PINGs that the peer leaves unanswered       *)
  MaxAddresses,       (* bound: addresses the host's name resolves to       *)
  MaxTime             (* bound: ticks of the clock                          *)

ASSUME ChannelAssumption ==
  /\ {HeartbeatInterval, LivenessTimeout, MaxRtt} \subseteq Nat \ {0}
  /\ PeerKinds \subseteq {"PING", "app", "garbled", "oversized"}
  /\ {MaxPeerSends, MaxSends, MaxFaults, MaxLostPongs, MaxAddresses, MaxTime}
       \subseteq Nat

VARIABLES
  dpc,          (* where connect, then the dispatcher is                    *)
  addresses,    (* how many addresses connect has not tried                 *)
  acc,          (* its acc: cells read and not yet cut into messages        *)
  lastPing,     (* its last_ping                                            *)
  lastRx,       (* its last_rx                                              *)
  cause,        (* why it left its loop                                     *)
  stop,         (* the stop flag                                            *)
  outbound,     (* the caller's queue of messages to write                  *)
  accepted,     (* how many messages send() returned Ok for                 *)
  dropped,      (* CastChannel::drop has begun                              *)
  incoming,     (* the messages forwarded to the caller                     *)
  inWire,       (* cells on their way to us                                 *)
  peerSent,     (* the kinds of the messages the peer sent by itself        *)
  peerClosed,   (* the peer has closed the connection                       *)
  outWire,      (* what the peer gets: whole messages, or bare prefixes     *)
  pings,        (* when the PINGs the peer has not dealt with were sent     *)
  lostPongs,    (* the PINGs the peer left unanswered                       *)
  faults,       (* the reads and writes that have failed                    *)
  now,          (* the clock                                                *)
  polled        (* the dispatcher has run its loop since the last tick      *)

callerVars == <<accepted, dropped>>
peerVars == <<peerSent, peerClosed, lostPongs>>
timeVars == <<now, polled>>
vars == <<dpc, addresses, acc, lastPing, lastRx, cause, stop, outbound, callerVars, incoming,
          inWire, peerVars, outWire, pings, faults, timeVars>>

Prefix(m) == [part |-> "length", of |-> m]
Body(m) == [part |-> "body", of |-> m]
Cells(m) == <<Prefix(m), Body(m)>>

(* A message: its kind and, among those its sender numbers, its number.    *)
Message(kind, n) == [kind |-> kind, n |-> n]

-----------------------------------------------------------------------------
(* write_message.  A failure leaves nothing, the length alone, or all of   *)
(* the message on its way.  The peer sees a PING once it is whole.         *)

SeePing(m) == IF m.kind = "PING" THEN Append(pings, now) ELSE pings

WriteSucceeds(m) ==
  /\ outWire' = Append(outWire, Cells(m))
  /\ pings' = SeePing(m)
  /\ UNCHANGED faults

WriteFails(m) ==
  /\ faults < MaxFaults /\ faults' = faults + 1
  /\ \/ UNCHANGED <<outWire, pings>>
     \/ outWire' = Append(outWire, <<Prefix(m)>>) /\ UNCHANGED pings
     \/ outWire' = Append(outWire, Cells(m)) /\ pings' = SeePing(m)

TryWrite(m) == WriteSucceeds(m) \/ WriteFails(m)

-----------------------------------------------------------------------------
(* connect: one address after the other, TLS, and a first message.         *)

Connecting == dpc \in {"tcp", "tls", "hello"}
Opened == ~Connecting /\ dpc # "failed"

Abandon == dpc' = "failed" /\ cause' = "unconnected"

unconnectedVars == <<acc, lastPing, lastRx, stop, outbound, callerVars, incoming, inWire,
                     peerVars, pings, faults, timeVars>>

TryAddress ==
  /\ dpc = "tcp" /\ addresses > 0
  /\ \/ dpc' = "tls" /\ addresses' = 0
     \/ addresses' = addresses - 1 /\ UNCHANGED dpc
  /\ UNCHANGED <<cause, outWire, unconnectedVars>>

NoAddressLeft ==
  /\ dpc = "tcp" /\ addresses = 0
  /\ Abandon
  /\ UNCHANGED <<addresses, outWire, unconnectedVars>>

Handshake ==
  /\ dpc = "tls"
  /\ \/ dpc' = "hello" /\ UNCHANGED cause
     \/ Abandon
  /\ UNCHANGED <<addresses, outWire, unconnectedVars>>

Hello == Message("CONNECT", 0)

(* mutant: the thread is started and the greeting left to it *)
Greet_Later ==
  /\ dpc = "hello"
  /\ dpc' = "stop?"
  /\ UNCHANGED <<cause, outWire, addresses, unconnectedVars>>

(* The dispatcher's thread is started when the greeting is out.            *)
Greet ==
  /\ dpc = "hello"
  /\ \/ /\ outWire' = Append(outWire, Cells(Hello))
        /\ dpc' = "stop?" /\ UNCHANGED cause
     \/ /\ Abandon
        /\ outWire' \in {outWire, Append(outWire, <<Prefix(Hello)>>),
                         Append(outWire, Cells(Hello))}
  /\ UNCHANGED <<addresses, unconnectedVars>>

Connect == TryAddress \/ NoAddressLeft \/ Handshake \/ Greet

-----------------------------------------------------------------------------
(* dispatcher: one round of its loop.                                      *)

Leave(why) == dpc' = "flush" /\ cause' = why

CheckStop ==
  /\ dpc = "stop?"
  /\ IF stop THEN Leave("stop") ELSE dpc' = "read" /\ UNCHANGED cause
  /\ UNCHANGED <<addresses, acc, lastPing, lastRx, stop, outbound, callerVars, incoming, inWire,
                 peerVars, outWire, pings, faults, timeVars>>

ReadChunk ==
  /\ dpc = "read"
  /\ \E k \in 1..Len(inWire) :
       /\ acc' = acc \o SubSeq(inWire, 1, k)
       /\ inWire' = SubSeq(inWire, k + 1, Len(inWire))
  /\ lastRx' = now
  /\ dpc' = "frames"
  /\ UNCHANGED <<addresses, lastPing, cause, stop, outbound, callerVars, incoming, peerVars,
                 outWire, pings, faults, timeVars>>

ReadNothing ==
  /\ dpc = "read" /\ inWire = <<>> /\ ~peerClosed
  /\ dpc' = "frames"
  /\ UNCHANGED <<addresses, acc, lastPing, lastRx, cause, stop, outbound, callerVars, incoming,
                 inWire, peerVars, outWire, pings, faults, timeVars>>

ReadEnds ==
  /\ dpc = "read"
  /\ \/ /\ inWire = <<>> /\ peerClosed
        /\ Leave("eof") /\ UNCHANGED faults
     \/ /\ faults < MaxFaults /\ faults' = faults + 1
        /\ Leave("error")
  /\ UNCHANGED <<addresses, acc, lastPing, lastRx, stop, outbound, callerVars, incoming, inWire,
                 peerVars, outWire, pings, timeVars>>

(* take_frame.                                                             *)
Oversized == acc # <<>> /\ Head(acc).of.kind = "oversized"

(* mutant: the length alone is taken for a message *)
WholeFrame_AtLength == acc # <<>> /\ ~Oversized
WholeFrame == Len(acc) >= 2 /\ ~Oversized

(* mutant: what follows the frame in the buffer is thrown away *)
AfterFrame_Empty == <<>>
AfterFrame == SubSeq(acc, 3, Len(acc))

HandleFrame ==
  /\ dpc = "frames" /\ WholeFrame
  /\ acc' = AfterFrame
  /\ LET m == Head(acc).of IN
       \/ /\ m.kind = "PING"
          /\ TryWrite(Message("PONG", 0))        \* its error is ignored
          /\ UNCHANGED incoming
       \/ /\ m.kind \in {"PONG", "garbled"}
          /\ UNCHANGED <<incoming, outWire, pings, faults>>
       \/ /\ m.kind = "app"
          /\ incoming' = Append(incoming, m)
          /\ UNCHANGED <<outWire, pings, faults>>
  /\ UNCHANGED <<dpc, addresses, lastPing, lastRx, cause, stop, outbound, callerVars, inWire,
                 peerVars, timeVars>>

FramesDone ==
  /\ dpc = "frames" /\ ~WholeFrame
  /\ IF Oversized THEN Leave("framing") ELSE dpc' = "outbound" /\ UNCHANGED cause
  /\ UNCHANGED <<addresses, acc, lastPing, lastRx, stop, outbound, callerVars, incoming, inWire,
                 peerVars, outWire, pings, faults, timeVars>>

(* An error sets the stop flag, and ends only this part of the round.      *)
WriteOutbound ==
  /\ dpc = "outbound" /\ outbound # <<>>
  /\ outbound' = Tail(outbound)
  /\ \/ WriteSucceeds(Head(outbound)) /\ UNCHANGED <<stop, dpc>>
     \/ WriteFails(Head(outbound)) /\ stop' = TRUE /\ dpc' = "ping"
  /\ UNCHANGED <<addresses, acc, lastPing, lastRx, cause, callerVars, incoming, inWire, peerVars,
                 timeVars>>

OutboundEmpty ==
  /\ dpc = "outbound" /\ outbound = <<>>
  /\ dpc' = "ping"
  /\ UNCHANGED <<addresses, acc, lastPing, lastRx, cause, stop, outbound, callerVars, incoming,
                 inWire, peerVars, outWire, pings, faults, timeVars>>

(* mutant: pings at the rate at which it gives up *)
PingDue_AtTimeout == now - lastPing >= LivenessTimeout
PingDue == now - lastPing >= HeartbeatInterval

Heartbeat ==
  /\ dpc = "ping"
  /\ IF PingDue
       THEN TryWrite(Message("PING", 0)) /\ lastPing' = now   \* its error is ignored
       ELSE UNCHANGED <<outWire, pings, faults, lastPing>>
  /\ dpc' = "liveness"
  /\ UNCHANGED <<addresses, acc, lastRx, cause, stop, outbound, callerVars, incoming, inWire,
                 peerVars, timeVars>>

(* mutant: counts from the last PING we sent *)
Silent_SincePing == now - lastPing >= LivenessTimeout
Silent == now - lastRx >= LivenessTimeout

CheckLiveness ==
  /\ dpc = "liveness"
  /\ IF Silent THEN Leave("dead") ELSE dpc' = "stop?" /\ UNCHANGED cause
  /\ polled' = TRUE
  /\ UNCHANGED <<addresses, acc, lastPing, lastRx, stop, outbound, callerVars, incoming, inWire,
                 peerVars, outWire, pings, faults, now>>

(* The drain after the loop, until the queue is empty or a write fails.    *)
FlushOne ==
  /\ dpc = "flush" /\ outbound # <<>>
  /\ outbound' = Tail(outbound)
  /\ \/ WriteSucceeds(Head(outbound)) /\ UNCHANGED dpc
     \/ WriteFails(Head(outbound)) /\ dpc' = "exit"
  /\ UNCHANGED <<addresses, acc, lastPing, lastRx, cause, stop, callerVars, incoming, inWire,
                 peerVars, timeVars>>

(* mutant: no drain after the loop *)
FlushEnds_AtOnce == TRUE
FlushEnds == outbound = <<>>

FlushDone ==
  /\ dpc = "flush" /\ FlushEnds
  /\ dpc' = "exit"
  /\ UNCHANGED <<addresses, acc, lastPing, lastRx, cause, stop, outbound, callerVars, incoming,
                 inWire, peerVars, outWire, pings, faults, timeVars>>

(* The thread ends: both queues' ends are dropped, the stream is closed.   *)
Exit ==
  /\ dpc = "exit"
  /\ dpc' = "done"
  /\ UNCHANGED <<addresses, acc, lastPing, lastRx, cause, stop, outbound, callerVars, incoming,
                 inWire, peerVars, outWire, pings, faults, timeVars>>

Dispatcher ==
  \/ Connect
  \/ CheckStop \/ ReadChunk \/ ReadNothing \/ ReadEnds
  \/ HandleFrame \/ FramesDone
  \/ WriteOutbound \/ OutboundEmpty
  \/ Heartbeat \/ CheckLiveness
  \/ FlushOne \/ FlushDone \/ Exit

-----------------------------------------------------------------------------
(* The caller: send() and drop().                                          *)

Send ==
  /\ Opened /\ ~dropped /\ dpc # "done" /\ accepted < MaxSends
  /\ accepted' = accepted + 1
  /\ outbound' = Append(outbound, Message("app", accepted + 1))
  /\ UNCHANGED <<dpc, addresses, acc, lastPing, lastRx, cause, stop, dropped, incoming, inWire,
                 peerVars, outWire, pings, faults, timeVars>>

(* mutant: counts on the closed queue instead of the flag *)
Drop_NoStop ==
  /\ Opened /\ ~dropped
  /\ dropped' = TRUE
  /\ UNCHANGED <<dpc, addresses, acc, lastPing, lastRx, cause, stop, outbound, accepted, incoming,
                 inWire, peerVars, outWire, pings, faults, timeVars>>

Drop ==
  /\ Opened /\ ~dropped
  /\ dropped' = TRUE /\ stop' = TRUE
  /\ UNCHANGED <<dpc, addresses, acc, lastPing, lastRx, cause, outbound, accepted, incoming,
                 inWire, peerVars, outWire, pings, faults, timeVars>>

-----------------------------------------------------------------------------
(* The peer and the clock (external).                                      *)

PeerSend(kind) ==
  /\ ~peerClosed /\ Len(peerSent) < MaxPeerSends /\ Opened /\ dpc # "done"
  /\ peerSent' = Append(peerSent, Message(kind, Len(peerSent) + 1))
  /\ inWire' = inWire \o Cells(Message(kind, Len(peerSent) + 1))
  /\ UNCHANGED <<dpc, addresses, acc, lastPing, lastRx, cause, stop, outbound, callerVars, incoming,
                 peerClosed, lostPongs, outWire, pings, faults, timeVars>>

PeerPong ==
  /\ ~peerClosed /\ pings # <<>>
  /\ pings' = Tail(pings)
  /\ inWire' = inWire \o Cells(Message("PONG", 0))
  /\ UNCHANGED <<dpc, addresses, acc, lastPing, lastRx, cause, stop, outbound, callerVars, incoming,
                 peerVars, outWire, faults, timeVars>>

PeerLosesPing ==
  /\ pings # <<>> /\ lostPongs < MaxLostPongs
  /\ pings' = Tail(pings)
  /\ lostPongs' = lostPongs + 1
  /\ UNCHANGED <<dpc, addresses, acc, lastPing, lastRx, cause, stop, outbound, callerVars, incoming,
                 inWire, peerSent, peerClosed, outWire, faults, timeVars>>

PeerCloses ==
  /\ ~peerClosed /\ Opened /\ dpc # "done"
  /\ peerClosed' = TRUE
  /\ UNCHANGED <<dpc, addresses, acc, lastPing, lastRx, cause, stop, outbound, callerVars, incoming,
                 inWire, peerSent, lostPongs, outWire, pings, faults, timeVars>>

(* A tick is long against a round of the loop (READ_TIMEOUT): at least one *)
(* round fits, and it leaves nothing unread.  The peer answers in time.    *)
Tick ==
  /\ dpc = "read" /\ polled /\ now < MaxTime
  /\ inWire = <<>> /\ ~peerClosed
  /\ \A i \in DOMAIN pings : now < pings[i] + MaxRtt
  /\ now' = now + 1 /\ polled' = FALSE
  /\ UNCHANGED <<dpc, addresses, acc, lastPing, lastRx, cause, stop, outbound, callerVars, incoming,
                 inWire, peerVars, outWire, pings, faults>>

Init ==
  /\ dpc = "tcp" /\ addresses \in 0..MaxAddresses
  /\ acc = <<>> /\ lastPing = 0 /\ lastRx = 0 /\ cause = "none"
  /\ stop = FALSE /\ outbound = <<>> /\ accepted = 0 /\ dropped = FALSE
  /\ incoming = <<>> /\ inWire = <<>> /\ peerSent = <<>> /\ peerClosed = FALSE
  /\ outWire = <<>> /\ pings = <<>> /\ lostPongs = 0 /\ faults = 0
  /\ now = 0 /\ polled = FALSE

Environment ==
  \/ Send \/ Drop
  \/ \E kind \in PeerKinds : PeerSend(kind)
  \/ PeerPong \/ PeerLosesPing \/ PeerCloses
  \/ Tick

Next == Dispatcher \/ Environment

(* The dispatcher's thread is scheduled; reads return within READ_TIMEOUT  *)
(* and writes within the write timeout of the socket.                      *)
Spec == Init /\ [][Next]_vars /\ WF_vars(Dispatcher)

-----------------------------------------------------------------------------
Running == dpc \in {"stop?", "read", "frames", "outbound", "ping", "liveness"}

(* Of the cells of a stream, those that complete a message for the caller. *)
ForCaller(cells) ==
  [i \in DOMAIN cells |->
     IF cells[i].part = "body" /\ cells[i].of.kind = "app" THEN <<cells[i].of>> ELSE <<>>]

(* Of what was written, the messages of the caller, and the greeting, that *)
(* reached the peer whole.                                                 *)
ForReceiver(writes) ==
  [i \in DOMAIN writes |->
     IF Len(writes[i]) = 2 /\ writes[i][1].of.kind \in {"CONNECT", "app"}
       THEN <<writes[i][1].of>> ELSE <<>>]

(* Every variable keeps its type, the loop is left for a reason, and what  *)
(* is buffered starts with a length.                                       *)
TypeOK ==
  /\ Connecting \/ Running \/ dpc \in {"failed", "flush", "exit", "done"}
  /\ cause \in {"none", "unconnected", "stop", "eof", "error", "framing", "dead"}
  /\ Connecting \/ Running <=> cause = "none"
  /\ addresses \in 0..MaxAddresses
  /\ {stop, dropped, peerClosed, polled} \subseteq BOOLEAN
  /\ accepted \in 0..MaxSends /\ faults \in 0..MaxFaults /\ now \in 0..MaxTime
  /\ lastPing \in 0..now /\ lastRx \in 0..now
  /\ outbound \in Seq([kind : {"app"}, n : 1..MaxSends])
  /\ incoming \in Seq([kind : {"app"}, n : 1..MaxPeerSends])
  /\ \A i \in DOMAIN acc : acc[i].part = "length" <=> i % 2 = 1
  /\ lostPongs \in 0..MaxLostPongs /\ Len(peerSent) <= MaxPeerSends

(* However the stream is cut into reads, the caller is given each message  *)
(* of the peer once and in order.  What the peer sent has been forwarded,  *)
(* or it is still buffered or on the wire and comes after everything       *)
(* forwarded.  When the peer closes, every message that no bad frame       *)
(* precedes has been forwarded (cast_channel.rs:228-256).                  *)
Waits(m) == Body(m) \in Range(acc \o inWire)

ForwardedInOrder ==
  /\ \A i \in DOMAIN incoming :
       /\ incoming[i].n \in DOMAIN peerSent /\ incoming[i] = peerSent[incoming[i].n]
       /\ \A j \in DOMAIN incoming : i < j => incoming[i].n < incoming[j].n
  /\ \A n \in DOMAIN peerSent : peerSent[n].kind = "app" =>
       \/ peerSent[n] \in Range(incoming) /\ ~Waits(peerSent[n])
       \/ /\ Waits(peerSent[n]) /\ cause # "eof"
          /\ \A i \in DOMAIN incoming : incoming[i].n < n

(* The promise of MessageChannel: a greeting first; then what the caller   *)
(* sent, once and in order, and all of it before the stream is closed,     *)
(* unless the connection was lost: this is how STOP and CLOSE reach a      *)
(* receiver; and what the peer sent, once and in order                     *)
(* (cast_channel.rs:90, 119-126, 167, 206-226, 294-300).                   *)
Channel == INSTANCE MessageChannel WITH
  Outgoing <- [kind : {"app"}, n : 1..MaxSends],
  Incoming <- [kind : {"app"}, n : 1..MaxPeerSends],
  state <- IF Connecting THEN "none"
           ELSE IF dpc \in {"failed", "done"} THEN "gone" ELSE "running",
  ending <- dropped \/ stop \/ peerClosed \/ cause # "none",
  lost <- faults > 0 \/ peerClosed \/ cause \notin {"none", "stop"},
  delivered <- FlattenSeq(ForReceiver(outWire)),
  inbound <- FlattenSeq(ForCaller(acc \o inWire))

ImplementsChannel == Channel!Safety

(* A channel that its caller drops, that its peer closes or that leaves    *)
(* its loop ends, which is how the caller's join and its wait for messages *)
(* return; until then whatever is queued moves (cast_channel.rs:119-126,   *)
(* 200-226, 294-302).                                                      *)
ChannelMoves == Channel!Progress

(* A peer that has gone silent is given up within LIVENESS_TIMEOUT.        *)
SilentPeerDetected == Running => now - lastRx <= LivenessTimeout

(* A peer that answers each PING within MaxRtt is never given up.          *)
LivePeerKept == cause = "dead" => lostPongs > 0 \/ faults > 0

-----------------------------------------------------------------------------
(* cast_channel.rs:258: "Any write error kills the dispatcher because a    *)
(* partial write corrupts the length-prefix framing for everything after   *)
(* it": nothing is written after a message that was written in part.       *)
NothingAfterPartialWrite ==
  \A i \in DOMAIN outWire : Len(outWire[i]) = 1 => i = Len(outWire)

(* cast_channel.rs:72: "Two HEARTBEAT_INTERVALs to tolerate a single       *)
(* dropped PONG": once the peer has been heard, one PING without an answer *)
(* does not end the channel.                                               *)
SingleLostPongTolerated ==
  cause = "dead" /\ lastRx > 0 => lostPongs >= 2 \/ faults > 0
=============================================================================
