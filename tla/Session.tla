------------------------------ MODULE Session ------------------------------
(***************************************************************************)
(* pipeline.rs and mirroring.rs: one run of the program against a device,  *)
(* from the connection to the last join.  The main thread launches the     *)
(* mirroring app, negotiates, captures and tears everything down; the      *)
(* session monitor watches for the end; the Cast channel between them and  *)
(* the receiver is a MessageChannel.                                       *)
(*                                                                         *)
(* A message is its type and whether it is about what is ours: a reply to  *)
(* our request, a CLOSE of our transport, a STOP of the session we have    *)
(* launched.  The receiver also speaks of the sessions of others, and of   *)
(* one that a crashed run may have left on it.                             *)
(***************************************************************************)
EXTENDS Naturals, Sequences

CONSTANT
  MaxNoise       (* bound: messages of the receiver that concern no one     *)

VARIABLES
  pc,            (* where run_with_device is                                *)
  result,        (* what it is going to return                              *)
  farewell,      (* what dropping the MirroringSession has yet to send:     *)
                 (* nothing if there is no session                          *)
  had,           (* there has been a session                                *)
  sink,          (* the virtual sink exists                                 *)
  closed,        (* its ring has been closed                                *)
  rtp,           (* the threads of the RTP sender run                       *)
  stop,          (* the stop flag of the program                            *)
  monitor,       (* the session monitor                                     *)
  reason,        (* the monitor's local reason                              *)
  reported,      (* the reason it printed                                   *)
  dispatcher,    (* the channel: the variables of MessageChannel            *)
  ending, lost, outbound, delivered, inbound, incoming,
  app,           (* the mirroring app on the receiver                       *)
  offered,       (* it has an OFFER to answer                               *)
  stopped,       (* the receiver was told to STOP the app                   *)
  hungUp,        (* the receiver has ended the session itself               *)
  noise

mainVars == <<pc, result, farewell, had, sink, rtp>>
monitorVars == <<monitor, reason, reported>>
channelVars == <<dispatcher, ending, lost, outbound, delivered, inbound, incoming>>
receiverVars == <<app, offered, stopped, hungUp, noise>>
vars == <<mainVars, closed, stop, monitorVars, channelVars, receiverVars>>

ours == <<closed, stop, monitorVars>>

Ours(type) == [type |-> type, ours |-> TRUE]
Others(type) == [type |-> type, ours |-> FALSE]

Channel == INSTANCE MessageChannel WITH
  Hello <- Ours("CONNECT"),
  Outgoing <- [type : {"LAUNCH", "CONNECT", "OFFER", "STOP", "CLOSE"}, ours : BOOLEAN],
  Incoming <- [type : {"status", "launchError", "answer", "rejected", "CLOSE", "other"},
               ours : BOOLEAN],
  state <- dispatcher

-----------------------------------------------------------------------------
(* CastChannel::send fails when the dispatcher has ended.                  *)

CanSend == dispatcher = "running"
TrySend(m) == IF CanSend THEN Channel!Send(m) ELSE UNCHANGED channelVars

(* An early return: locals are dropped last first, the RTP sender and the  *)
(* session (if there are any) before the sink, and it before the channel.  *)
Fail ==
  /\ result' = "error"
  /\ pc' = "unwindSender"

(* Send one message and go on, or return early.                            *)
SendOr(m, next) ==
  /\ TrySend(m)
  /\ IF CanSend THEN pc' = next /\ UNCHANGED result ELSE Fail

-----------------------------------------------------------------------------
(* run_with_device.                                                        *)

Connect ==
  /\ pc = "connect"
  /\ \/ Channel!Open /\ pc' = "sink" /\ UNCHANGED result
     \/ Channel!OpenFails /\ pc' = "returned" /\ result' = "error"
  /\ UNCHANGED <<farewell, had, sink, rtp, ours, receiverVars>>

(* VirtualSink::new; when it fails it drops what it has made.              *)
CreateSink ==
  /\ pc = "sink"
  /\ \/ sink' = TRUE /\ pc' = "launch" /\ UNCHANGED result
     \/ Fail /\ UNCHANGED sink
  /\ UNCHANGED <<farewell, had, rtp, ours, channelVars, receiverVars>>

Launch ==
  /\ pc = "launch"
  /\ SendOr(Ours("LAUNCH"), "awaitStatus")
  /\ UNCHANGED <<farewell, had, sink, rtp, ours, receiverVars>>

(* wait_for_json_message: what a reply decides, and what is passed over.   *)
(* The reply to LAUNCH is known by its request ID; any ANSWER will do.     *)
Replies == [awaitStatus |-> {"status", "launchError"},
            awaitAnswer |-> {"answer", "rejected"}]
Granted == [awaitStatus |-> "status", awaitAnswer |-> "answer"]
After == [awaitStatus |-> "connectTransport", awaitAnswer |-> "startSender"]

(* mutant: any status that lists the app will do *)
Concerns_App(m) == m.type \in Replies[pc]
Concerns(m) == m.type \in Replies[pc] /\ (pc = "awaitStatus" => m.ours)

Farewell(m) == <<[type |-> "STOP", ours |-> m.ours], Ours("CLOSE"), Ours("CLOSE")>>

Receive ==
  /\ pc \in DOMAIN Replies /\ incoming # <<>>
  /\ incoming' = Tail(incoming)
  /\ LET m == Head(incoming) IN
       \/ /\ ~Concerns(m)
          /\ UNCHANGED <<pc, result, farewell, had>>
       \/ /\ Concerns(m) /\ m.type = Granted[pc]
          /\ pc' = After[pc]
          /\ farewell' = IF pc = "awaitStatus" THEN Farewell(m) ELSE farewell
          /\ had' = TRUE
          /\ UNCHANGED result
       \/ /\ Concerns(m) /\ m.type # Granted[pc]
          /\ Fail
          /\ UNCHANGED <<farewell, had>>
  /\ UNCHANGED <<sink, rtp, ours, dispatcher, ending, lost, outbound, delivered, inbound,
                 receiverVars>>

(* The deadline has passed, or the dispatcher has ended and the queue is   *)
(* empty.                                                                  *)
GiveUpWaiting ==
  /\ pc \in DOMAIN Replies
  /\ Fail
  /\ UNCHANGED <<farewell, had, sink, rtp, ours, channelVars, receiverVars>>

ConnectTransport ==
  /\ pc = "connectTransport"
  /\ SendOr(Ours("CONNECT"), "offer")
  /\ UNCHANGED <<farewell, had, sink, rtp, ours, receiverVars>>

Offer ==
  /\ pc = "offer"
  /\ SendOr(Ours("OFFER"), "awaitAnswer")
  /\ UNCHANGED <<farewell, had, sink, rtp, ours, receiverVars>>

(* The answer may leave our stream out; the socket may not be had.         *)
StartSender ==
  /\ pc = "startSender"
  /\ \/ rtp' = TRUE /\ pc' = "handler" /\ UNCHANGED result
     \/ Fail /\ UNCHANGED rtp
  /\ UNCHANGED <<farewell, had, sink, ours, channelVars, receiverVars>>

InstallHandler ==
  /\ pc = "handler"
  /\ \/ pc' = "monitor" /\ UNCHANGED result
     \/ Fail
  /\ UNCHANGED <<farewell, had, sink, rtp, ours, channelVars, receiverVars>>

SpawnMonitor ==
  /\ pc = "monitor"
  /\ monitor' = "receiving"
  /\ pc' = "capture"
  /\ UNCHANGED <<result, farewell, had, sink, rtp, closed, stop, reason, reported,
                 channelVars, receiverVars>>

(* capture::run ends well when it sees the flag and badly when it sees the *)
(* ring closed.                                                            *)
CaptureStops ==
  /\ pc = "capture"
  /\ \/ stop /\ result' = "ok"
     \/ closed /\ result' = "error"
  /\ pc' = "claim"
  /\ UNCHANGED <<farewell, had, sink, rtp, ours, channelVars, receiverVars>>

(* It also ends badly when sending has failed for long, or encoding.       *)
CaptureFails ==
  /\ pc = "capture"
  /\ result' = "error"
  /\ pc' = "claim"
  /\ UNCHANGED <<farewell, had, sink, rtp, ours, channelVars, receiverVars>>

(* mutant: a failed capture does not claim the shutdown *)
Claims_Never == stop
Claims == stop \/ result = "error"

ClaimShutdown ==
  /\ pc = "claim"
  /\ stop' = Claims
  /\ pc' = "stopSender"
  /\ UNCHANGED <<result, farewell, had, sink, rtp, closed, monitorVars, channelVars,
                 receiverVars>>

-----------------------------------------------------------------------------
(* The order in which everything is dropped, by the last statements or by  *)
(* an early return; joinDispatcher is the second half of dropping the      *)
(* channel.                                                                *)

Unwinding ==
  [unwindSender |-> "unwindSession", unwindSession |-> "unwindSink",
   unwindSink |-> "unwindChannel", unwindChannel |-> "unwindDispatcher",
   unwindDispatcher |-> "returned"]

(* mutant: the monitor is joined before the channel is dropped *)
Shutdown_MonitorFirst ==
  [stopSender |-> "dropSession", dropSession |-> "joinMonitor",
   joinMonitor |-> "dropChannel", dropChannel |-> "joinDispatcher",
   joinDispatcher |-> "dropSink", dropSink |-> "returned"]
Shutdown ==
  [stopSender |-> "dropSession", dropSession |-> "dropChannel",
   dropChannel |-> "joinDispatcher", joinDispatcher |-> "joinMonitor",
   joinMonitor |-> "dropSink", dropSink |-> "returned"]

Proceed == pc' = IF pc \in DOMAIN Shutdown THEN Shutdown[pc] ELSE Unwinding[pc]

(* mutant: CastRtpSender has no Drop *)
StopSender_OnlyAtEnd ==
  /\ pc \in {"stopSender", "unwindSender"}
  /\ rtp' = (rtp /\ pc = "unwindSender")
  /\ Proceed
  /\ UNCHANGED <<result, farewell, had, sink, ours, channelVars, receiverVars>>

StopSender ==
  /\ pc \in {"stopSender", "unwindSender"}
  /\ rtp' = FALSE
  /\ Proceed
  /\ UNCHANGED <<result, farewell, had, sink, ours, channelVars, receiverVars>>

(* MirroringSession::drop: errors are ignored.                             *)
SayFarewell ==
  /\ pc \in {"dropSession", "unwindSession"} /\ farewell # <<>>
  /\ TrySend(Head(farewell))
  /\ farewell' = Tail(farewell)
  /\ UNCHANGED <<pc, result, had, sink, rtp, ours, receiverVars>>

SessionDropped ==
  /\ pc \in {"dropSession", "unwindSession"} /\ farewell = <<>>
  /\ Proceed
  /\ UNCHANGED <<result, farewell, had, sink, rtp, ours, channelVars, receiverVars>>

(* CastChannel::drop: set the flag, then join.                             *)
DropChannel ==
  /\ pc \in {"dropChannel", "unwindChannel"}
  /\ Channel!Stop
  /\ Proceed
  /\ UNCHANGED <<result, farewell, had, sink, rtp, ours, receiverVars>>

JoinDispatcher ==
  /\ pc \in {"joinDispatcher", "unwindDispatcher"} /\ dispatcher = "gone"
  /\ Proceed
  /\ UNCHANGED <<result, farewell, had, sink, rtp, ours, channelVars, receiverVars>>

JoinMonitor ==
  /\ pc = "joinMonitor" /\ monitor = "done"
  /\ Proceed
  /\ UNCHANGED <<result, farewell, had, sink, rtp, ours, channelVars, receiverVars>>

DropSink ==
  /\ pc \in {"dropSink", "unwindSink"}
  /\ sink' = FALSE /\ closed' = (closed \/ sink)
  /\ Proceed
  /\ UNCHANGED <<result, farewell, had, rtp, stop, monitorVars, channelVars, receiverVars>>

Main ==
  \/ Connect \/ CreateSink \/ Launch \/ Receive \/ GiveUpWaiting
  \/ ConnectTransport \/ Offer \/ StartSender \/ InstallHandler \/ SpawnMonitor
  \/ CaptureStops \/ ClaimShutdown \/ StopSender \/ SayFarewell \/ SessionDropped
  \/ DropChannel \/ JoinDispatcher \/ JoinMonitor \/ DropSink

-----------------------------------------------------------------------------
(* spawn_session_monitor.                                                  *)

(* mutant: a CLOSE is passed over *)
Ends_Never(m) == FALSE
(* mutant: any CLOSE will do *)
Ends_Any(m) == m.type = "CLOSE"
Ends(m) == m.type = "CLOSE" /\ m.ours

MonitorReceives ==
  /\ monitor = "receiving" /\ incoming # <<>>
  /\ incoming' = Tail(incoming)
  /\ IF Ends(Head(incoming))
       THEN monitor' = "swap" /\ reason' = "closed"
       ELSE UNCHANGED <<monitor, reason>>
  /\ UNCHANGED <<mainVars, closed, stop, reported, dispatcher, ending, lost, outbound,
                 delivered, inbound, receiverVars>>

MonitorDisconnected ==
  /\ monitor = "receiving" /\ incoming = <<>> /\ dispatcher = "gone"
  /\ monitor' = "swap"
  /\ UNCHANGED <<mainVars, closed, stop, reason, reported, channelVars, receiverVars>>

MonitorSwaps ==
  /\ monitor = "swap"
  /\ stop' = TRUE
  /\ reported' = IF stop THEN reported ELSE reason
  /\ monitor' = "done"
  /\ UNCHANGED <<mainVars, closed, reason, channelVars, receiverVars>>

Monitor == MonitorReceives \/ MonitorDisconnected \/ MonitorSwaps

-----------------------------------------------------------------------------
(* The channel.                                                            *)

ChannelMoves ==
  /\ Channel!Deliver \/ Channel!Forward \/ Channel!End
  /\ UNCHANGED <<mainVars, ours, receiverVars>>

(* End of stream, an error, silence, or a message written in part.         *)
LoseConnection == Channel!Break /\ UNCHANGED <<mainVars, ours, receiverVars>>

-----------------------------------------------------------------------------
(* The receiver (external), the audio server and the user.                 *)

TakeMessage ==
  /\ delivered # <<>>
  /\ delivered' = Tail(delivered)
  /\ LET m == Head(delivered) IN
       \/ /\ m.type = "LAUNCH" /\ app' = "launching"
          /\ UNCHANGED <<offered, stopped>>
       \/ /\ m.type = "OFFER" /\ offered' = TRUE
          /\ UNCHANGED <<app, stopped>>
       \/ /\ m = Ours("STOP")
          /\ app' = "absent" /\ offered' = FALSE /\ stopped' = TRUE
       \/ /\ m.type \notin {"LAUNCH", "OFFER"} /\ m # Ours("STOP")
          /\ UNCHANGED <<app, offered, stopped>>
  /\ UNCHANGED <<mainVars, ours, dispatcher, ending, lost, outbound, inbound, incoming,
                 hungUp, noise>>

Say(m) ==
  /\ IF CanSend THEN Channel!PeerSend(m) ELSE UNCHANGED channelVars
  /\ UNCHANGED <<mainVars, ours>>

(* The app starts; the status may lack the identifiers.                    *)
AppStarts ==
  /\ app = "launching" /\ app' = "running"
  /\ Say(Ours("status")) \/ Say(Ours("launchError"))
  /\ UNCHANGED <<offered, stopped, hungUp, noise>>

AppRefused ==
  /\ app = "launching" /\ app' = "absent"
  /\ Say(Ours("launchError"))
  /\ UNCHANGED <<offered, stopped, hungUp, noise>>

AnswerOffer ==
  /\ app = "running" /\ offered /\ offered' = FALSE
  /\ Say(Ours("answer")) \/ Say(Ours("rejected"))
  /\ UNCHANGED <<app, stopped, hungUp, noise>>

HangUp ==
  /\ app = "running" /\ had /\ CanSend
  /\ app' = "absent" /\ offered' = FALSE /\ hungUp' = TRUE
  /\ Say(Ours("CLOSE"))
  /\ UNCHANGED <<stopped, noise>>

(* Broadcasts, one of a session left over included, and what is not JSON.  *)
SaySomethingElse ==
  /\ noise < MaxNoise /\ noise' = noise + 1
  /\ CanSend
  /\ \E type \in {"status", "CLOSE", "other"} : Say(Others(type))
  /\ UNCHANGED <<app, offered, stopped, hungUp>>

Receiver ==
  TakeMessage \/ AppStarts \/ AppRefused \/ AnswerOffer \/ HangUp \/ SaySomethingElse

CloseRing ==
  /\ sink /\ ~closed
  /\ closed' = TRUE
  /\ UNCHANGED <<mainVars, stop, monitorVars, channelVars, receiverVars>>

HandlerInstalled == pc = "monitor" \/ (monitor # "none" /\ pc # "returned")
Signal ==
  /\ HandlerInstalled /\ ~stop
  /\ stop' = TRUE
  /\ UNCHANGED <<mainVars, closed, monitorVars, channelVars, receiverVars>>

Init ==
  /\ pc = "connect" /\ result = "none"
  /\ farewell = <<>> /\ had = FALSE /\ sink = FALSE /\ closed = FALSE /\ rtp = FALSE
  /\ stop = FALSE /\ monitor = "none" /\ reason = "lost" /\ reported = "none"
  /\ Channel!Init
  /\ app = "absent" /\ offered = FALSE /\ stopped = FALSE /\ hungUp = FALSE /\ noise = 0

Next ==
  \/ Main \/ Monitor \/ ChannelMoves \/ LoseConnection
  \/ CaptureFails \/ Receiver \/ CloseRing \/ Signal

(* The threads are scheduled, and every wait of the main thread that is    *)
(* not a join has a time-out; of the channel, what it promises.            *)
Spec ==
  Init /\ [][Next]_vars /\ WF_vars(Main) /\ WF_vars(Monitor) /\ WF_vars(ChannelMoves)

-----------------------------------------------------------------------------
(* Properties.                                                             *)

Capturing == {"capture", "claim", "stopSender"}

(* Types; the session, the RTP threads and the sink exist where the code   *)
(* relies on them, and nothing is left when run_with_device returns.       *)
TypeOK ==
  /\ {had, sink, closed, rtp, stop, ending, lost, offered, stopped, hungUp}
       \subseteq BOOLEAN
  /\ result \in {"none", "ok", "error"}
  /\ monitor \in {"none", "receiving", "swap", "done"}
  /\ reason \in {"lost", "closed"} /\ reported \in {"none", "lost", "closed"}
  /\ dispatcher \in {"none", "running", "gone"} /\ app \in {"absent", "launching", "running"}
  /\ pc \in Capturing => farewell # <<>> /\ sink /\ rtp /\ monitor # "none"
  /\ pc = "returned" => /\ farewell = <<>> /\ ~sink /\ ~rtp /\ result # "none"
                        /\ dispatcher = "gone" /\ monitor \in {"none", "done"}

(* Once there is a session, however the run ends, the receiver has been    *)
(* told to unload that session's app by the time it does, as long as the   *)
(* connection holds, whatever else the receiver speaks of                  *)
(* (mirroring.rs:71-80, 105, pipeline.rs:105-167).                         *)
SessionUnloaded ==
  pc = "returned" /\ had /\ ~lost =>
    \/ stopped /\ app = "absent"
    \/ \E i \in DOMAIN delivered : delivered[i] = Ours("STOP")

(* The monitor only blames the receiver or the network for an end that was *)
(* theirs: not for the one we began, nor for the end of another session    *)
(* (pipeline.rs:155-158, 180-189).                                         *)
BlameIsReal ==
  /\ reported = "lost" => lost
  /\ reported = "closed" => hungUp

(* Whatever begins the end (a stop request, the ring, the receiver, the    *)
(* connection) is noticed wherever the program is and ends it: no join     *)
(* waits for a thread that waits for it (pipeline.rs:160-165, 179-191).    *)
EndReturns == (stop \/ closed \/ hungUp \/ ending) ~> pc = "returned"

-----------------------------------------------------------------------------
(* mirroring.rs:64: "Early returns between LAUNCH and shutdown still       *)
(* unload it": the app does not outlive the run, whose connection holds.   *)
NoAppLeftBehind ==
  pc = "returned" /\ ~lost /\ delivered = <<>> => app # "running"
=============================================================================
