------------------------------ MODULE CastRtp ------------------------------
(***************************************************************************)
(* cast_rtp.rs: the thread that sends one packet per frame and keeps the   *)
(* last ones, the thread that resends what the receiver NACKs, the thread  *)
(* that sends sender reports, and the stop that joins the last two.  The   *)
(* parser of the feedback is RtcpFeedback; here a feedback is one packet.  *)
(*                                                                         *)
(* wire is the packets that left for the receiver, in order: its length is *)
(* the number of frames sent, wire[i] the packet of the i-th, whose ID is  *)
(* i-1 reduced to a word.  A payload is the number of the call that sends. *)
(***************************************************************************)
EXTENDS FrameIds, Sequences, SequencesExt

CONSTANTS
  HistoryFrames,      (* HISTORY_FRAMES                                     *)
  ExpandWindow,       (* the 128 frames within which the receiver expands   *)
  MinResendInterval,  (* MIN_RESEND_INTERVAL, in ticks                      *)
  MaxLosses,          (* bound: loss fields in a feedback                   *)
  MaxFrames,          (* bound: calls of send_frame                         *)
  MaxFaults,          (* bound: calls of send_to that fail                  *)
  MaxResends,         (* bound: feedback is not taken after so many resends *)
  MaxTime             (* bound: ticks of the clock                          *)

ASSUME RtpAssumption ==
  /\ {HistoryFrames, ExpandWindow} \subseteq Nat \ {0} /\ HistoryFrames < ExpandWindow
  /\ 2 * ExpandWindow = Bytes
  /\ {MinResendInterval, MaxLosses, MaxFrames, MaxFaults, MaxResends, MaxTime} \subseteq Nat

VARIABLES
  spc,         (* the sending thread, which is also the one that stops      *)
  frameId,     (* frame_id                                                  *)
  calls,       (* how often send_frame was called                           *)
  slots,       (* History.slots: none or one packet each                    *)
  lastSent,    (* History.last_sent: none or one ID                         *)
  rtcp,        (* the report thread                                         *)
  npc,         (* the NACK thread                                           *)
  feedback,    (* what it read: a checkpoint and losses, as frame counts    *)
  todo,        (* the frame IDs parsed from it and not yet dealt with       *)
  nackNow,     (* its local now                                             *)
  stopTx,      (* stop() has dropped the sender of the report thread        *)
  nackStop,    (* nack_stop                                                 *)
  wire,        (* the packets sent for the first time                       *)
  resent,      (* the packets sent again, with the now they were sent at    *)
  faults, now

senderVars == <<spc, frameId, calls>>
historyVars == <<slots, lastSent>>
nackVars == <<npc, feedback, todo, nackNow>>
stopVars == <<stopTx, nackStop>>
vars == <<senderVars, historyVars, rtcp, nackVars, stopVars, wire, resent, faults, now>>

Slot(id) == id % HistoryFrames
Locked == npc = "resend"          \* the NACK thread holds the history's lock

-----------------------------------------------------------------------------
(* send_frame.                                                             *)

Payload == calls + 1

SendTo ==
  /\ spc = "idle" /\ calls < MaxFrames
  /\ wire' = Append(wire, [id |-> frameId, payload |-> Payload])
  /\ spc' = "record"
  /\ UNCHANGED <<frameId, calls, historyVars, rtcp, nackVars, stopVars, resent, faults, now>>

(* mutant: the ID of a frame that was not sent is used up *)
AfterFailure_Advanced == (frameId + 1) % Word
AfterFailure == frameId

(* mutant: the packet is recorded before it is sent *)
SendToFails_Recorded ==
  /\ spc = "idle" /\ calls < MaxFrames
  /\ faults < MaxFaults /\ faults' = faults + 1
  /\ calls' = calls + 1
  /\ frameId' = AfterFailure
  /\ slots' = [slots EXCEPT ![Slot(frameId)] =
                 {[id |-> frameId, payload |-> Payload, sentAt |-> now]}]
  /\ UNCHANGED <<spc, lastSent, rtcp, nackVars, stopVars, wire, resent, now>>

SendToFails ==
  /\ spc = "idle" /\ calls < MaxFrames
  /\ faults < MaxFaults /\ faults' = faults + 1
  /\ calls' = calls + 1
  /\ frameId' = AfterFailure
  /\ UNCHANGED <<spc, historyVars, rtcp, nackVars, stopVars, wire, resent, now>>

Record ==
  /\ spc = "record" /\ ~Locked
  /\ slots' = [slots EXCEPT ![Slot(frameId)] =
                 {[id |-> frameId, payload |-> Payload, sentAt |-> now]}]
  /\ lastSent' = {frameId}
  /\ spc' = "advance"
  /\ UNCHANGED <<frameId, calls, rtcp, nackVars, stopVars, wire, resent, faults, now>>

Advance ==
  /\ spc = "advance"
  /\ frameId' = (frameId + 1) % Word
  /\ calls' = calls + 1
  /\ spc' = "idle"
  /\ UNCHANGED <<historyVars, rtcp, nackVars, stopVars, wire, resent, faults, now>>

-----------------------------------------------------------------------------
(* serve_nacks.                                                            *)

CheckNackStop ==
  /\ npc = "check"
  /\ npc' = IF nackStop THEN "done" ELSE "recv"
  /\ UNCHANGED <<senderVars, historyVars, rtcp, feedback, todo, nackNow, stopVars, wire,
                 resent, faults, now>>

(* A time-out, or a datagram from elsewhere.                               *)
ReceiveNothing ==
  /\ npc = "recv"
  /\ npc' = "check"
  /\ UNCHANGED <<senderVars, historyVars, rtcp, feedback, todo, nackNow, stopVars, wire,
                 resent, faults, now>>

NoFeedback == [checkpoint |-> 0, lost |-> <<>>]

(* A feedback of the receiver: it has every frame up to the checkpoint and *)
(* misses some of the next ones it knows of.  It may have sent it any time *)
(* ago, and the network may have duplicated or reordered it.               *)
ReceiveFeedback(checkpoint, lost) ==
  /\ npc = "recv" /\ Len(resent) < MaxResends
  /\ feedback' = [checkpoint |-> checkpoint, lost |-> lost]
  /\ npc' = "lock"
  /\ UNCHANGED <<senderVars, historyVars, rtcp, todo, nackNow, stopVars, wire, resent,
                 faults, now>>

(* Frame number n, counted from 1, travels as the low byte of its ID.      *)
ByteOf(n) == LowByte((n - 1) % Word)

(* mutant: the last loss field is left out *)
Nacked_OneShort(last) ==
  LET ck == CheckpointId(last, ByteOf(feedback.checkpoint)) IN
  [i \in 1..Len(feedback.lost)-1 |-> NackedId(ck, ByteOf(feedback.lost[i]))]
Nacked(last) ==
  LET ck == CheckpointId(last, ByteOf(feedback.checkpoint)) IN
  [i \in DOMAIN feedback.lost |-> NackedId(ck, ByteOf(feedback.lost[i]))]

(* The lock is taken, the clock read, the feedback expanded: the lock is   *)
(* held until the last frame is dealt with.                                *)
TakeLock ==
  /\ npc = "lock"
  /\ \/ /\ lastSent = {}
        /\ npc' = "check" /\ feedback' = NoFeedback
        /\ UNCHANGED <<todo, nackNow>>
     \/ /\ \E last \in lastSent : todo' = Nacked(last)
        /\ npc' = "resend" /\ nackNow' = now
        /\ UNCHANGED feedback
  /\ UNCHANGED <<senderVars, historyVars, rtcp, stopVars, wire, resent, faults, now>>

(* get_mut: what the history has of a frame.                               *)
(* mutant: whatever the slot holds *)
Held_Unfiltered(id) == slots[Slot(id)]
Held(id) == {p \in slots[Slot(id)] : p.id = id}

(* mutant: the spacing is not looked at *)
TooSoon_Never(p) == FALSE
TooSoon(p) == nackNow - p.sentAt < MinResendInterval

Due(id) == {p \in Held(id) : ~TooSoon(p)}

(* mutant: a frame that is not due ends the loop over them *)
PassOver_Breaks ==
  /\ npc = "resend" /\ todo # <<>> /\ Due(Head(todo)) = {}
  /\ todo' = <<>>
  /\ UNCHANGED <<senderVars, historyVars, rtcp, npc, feedback, nackNow, stopVars, wire,
                 resent, faults, now>>

PassOver ==
  /\ npc = "resend" /\ todo # <<>> /\ Due(Head(todo)) = {}
  /\ todo' = Tail(todo)
  /\ UNCHANGED <<senderVars, historyVars, rtcp, npc, feedback, nackNow, stopVars, wire,
                 resent, faults, now>>

Resend(p) ==
  /\ npc = "resend" /\ todo # <<>> /\ p \in Due(Head(todo))
  /\ resent' = Append(resent, [id |-> p.id, payload |-> p.payload, at |-> nackNow])
  /\ slots' = [slots EXCEPT ![Slot(Head(todo))] = {[p EXCEPT !.sentAt = nackNow]}]
  /\ todo' = Tail(todo)
  /\ UNCHANGED <<senderVars, lastSent, rtcp, npc, feedback, nackNow, stopVars, wire,
                 faults, now>>

ResendFails ==
  /\ npc = "resend" /\ todo # <<>> /\ Due(Head(todo)) # {}
  /\ faults < MaxFaults /\ faults' = faults + 1
  /\ todo' = Tail(todo)
  /\ UNCHANGED <<senderVars, historyVars, rtcp, npc, feedback, nackNow, stopVars, wire,
                 resent, now>>

ReleaseLock ==
  /\ npc = "resend" /\ todo = <<>>
  /\ npc' = "check" /\ feedback' = NoFeedback /\ nackNow' = 0
  /\ UNCHANGED <<senderVars, historyVars, rtcp, todo, stopVars, wire, resent, faults, now>>

NackThread ==
  \/ CheckNackStop \/ ReceiveNothing \/ TakeLock
  \/ PassOver \/ ReleaseLock \/ ResendFails
  \/ \E i \in DOMAIN slots : \E p \in slots[i] : Resend(p)

-----------------------------------------------------------------------------
(* The report thread: send a report, wait for 500 ms or for stop().        *)

SendReport ==
  /\ rtcp = "report"
  /\ rtcp' = "wait"
  /\ UNCHANGED <<senderVars, historyVars, nackVars, stopVars, wire, resent, faults, now>>

ReportWaitEnds ==
  /\ rtcp = "wait"
  /\ rtcp' = IF stopTx THEN "done" ELSE "report"
  /\ UNCHANGED <<senderVars, historyVars, nackVars, stopVars, wire, resent, faults, now>>

ReportThread == SendReport \/ ReportWaitEnds

-----------------------------------------------------------------------------
(* stop(), on the thread that sends.                                       *)

BeginStop ==
  /\ spc = "idle"
  /\ stopTx' = TRUE
  /\ spc' = "joinRtcp"
  /\ UNCHANGED <<frameId, calls, historyVars, rtcp, nackVars, nackStop, wire, resent,
                 faults, now>>

(* mutant: the flag of the NACK thread is forgotten *)
JoinRtcp_NoFlag ==
  /\ spc = "joinRtcp" /\ rtcp = "done"
  /\ spc' = "joinNack"
  /\ UNCHANGED <<frameId, calls, historyVars, rtcp, nackVars, stopTx, nackStop, wire,
                 resent, faults, now>>

JoinRtcp ==
  /\ spc = "joinRtcp" /\ rtcp = "done"
  /\ nackStop' = TRUE
  /\ spc' = "joinNack"
  /\ UNCHANGED <<frameId, calls, historyVars, rtcp, nackVars, stopTx, wire, resent,
                 faults, now>>

JoinNack ==
  /\ spc = "joinNack" /\ npc = "done"
  /\ spc' = "stopped"
  /\ UNCHANGED <<frameId, calls, historyVars, rtcp, nackVars, stopVars, wire, resent,
                 faults, now>>

Sender == SendTo \/ SendToFails \/ Record \/ Advance
Stop == BeginStop \/ JoinRtcp \/ JoinNack

-----------------------------------------------------------------------------
Receiver ==
  \E checkpoint \in 0..Len(wire), n \in 1..MaxLosses :
    \E lost \in [1..n -> checkpoint+1..Len(wire)] :
      /\ \A i \in 1..n : lost[i] <= checkpoint + Bytes
      /\ ReceiveFeedback(checkpoint, lost)

Tick ==
  /\ now < MaxTime /\ spc # "stopped"
  /\ now' = now + 1
  /\ UNCHANGED <<senderVars, historyVars, rtcp, nackVars, stopVars, wire, resent, faults>>

(* new() and start(): both threads run.                                    *)
Init ==
  /\ spc = "idle" /\ frameId = 0 /\ calls = 0
  /\ slots = [i \in 0..HistoryFrames-1 |-> {}] /\ lastSent = {}
  /\ rtcp = "report"
  /\ npc = "check" /\ feedback = NoFeedback /\ todo = <<>> /\ nackNow = 0
  /\ stopTx = FALSE /\ nackStop = FALSE
  /\ wire = <<>> /\ resent = <<>> /\ faults = 0 /\ now = 0

Next == Sender \/ NackThread \/ ReportThread \/ Stop \/ Receiver \/ Tick

(* The three threads are scheduled; reads and waits have time-outs.        *)
Spec ==
  /\ Init /\ [][Next]_vars
  /\ WF_vars(Sender \/ Stop) /\ WF_vars(NackThread) /\ WF_vars(ReportThread)

-----------------------------------------------------------------------------
(* Properties.                                                             *)

SentFrame == [id : FrameId, payload : 1..MaxFrames]

(* Types; a slot holds a packet that was sent, under its own ID.           *)
TypeOK ==
  /\ spc \in {"idle", "record", "advance", "joinRtcp", "joinNack", "stopped"}
  /\ npc \in {"check", "recv", "lock", "resend", "done"}
  /\ rtcp \in {"report", "wait", "done"}
  /\ frameId \in FrameId /\ calls \in 0..MaxFrames
  /\ {stopTx, nackStop} \subseteq BOOLEAN
  /\ wire \in Seq(SentFrame) /\ todo \in Seq(FrameId)
  /\ lastSent \subseteq FrameId
  /\ \A i \in 0..HistoryFrames-1 : \A p \in slots[i] :
       Slot(p.id) = i /\ [id |-> p.id, payload |-> p.payload] \in ToSet(wire)

(* The frame IDs on the wire have no gap and no repetition, whatever sends *)
(* fail: a gap loses the receiver's place, and an ID used for two payloads *)
(* would repeat a key stream (cast_rtp.rs:165).                            *)
WireContiguous == \A i \in DOMAIN wire : wire[i].id = (i - 1) % Word

Age == Len(wire) - feedback.checkpoint

IdsLost == [i \in DOMAIN feedback.lost |-> (feedback.lost[i] - 1) % Word]

(* Held anywhere, and not sent within MIN_RESEND_INTERVAL.                 *)
Resendable(id) ==
  \E i \in DOMAIN slots : \E p \in slots[i] :
    p.id = id /\ nackNow - p.sentAt >= MinResendInterval

DealsWithHead ==
  /\ npc' = "resend" /\ todo # <<>> /\ todo' = Tail(todo)
  /\ Resendable(Head(todo)) => Len(resent') > Len(resent) \/ faults' > faults

(* A feedback less than a byte's range old is understood: the list made of *)
(* it is every frame it reports lost, and no other, even though only low   *)
(* bytes travel and frames are sent while it does.  The list is never left *)
(* before its end, frames are struck off one at a time, and none that is   *)
(* still held and not just sent is struck off without a try                *)
(* (cast_rtp.rs:302-316, 320, 354, 365).                                   *)
NacksUnderstood ==
  [][/\ npc = "lock" /\ npc' = "resend" /\ Age < Bytes => todo' = IdsLost
     /\ npc = "resend" => \/ npc' = "resend" /\ todo' = todo
                          \/ DealsWithHead
                          \/ todo = <<>> /\ todo' = <<>>]_vars

(* Whatever the feedback, a resend is, byte for byte and under its own ID, *)
(* a frame it reports lost if it is recent, and one of the window in which *)
(* the receiver expands the ID correctly (cast_rtp.rs:24).                 *)
AskedForInWindow(r) ==
  \E n \in (IF Age < Bytes THEN ToSet(feedback.lost) ELSE DOMAIN wire) :
    /\ wire[n] = [id |-> r.id, payload |-> r.payload]
    /\ Len(wire) - n < ExpandWindow

ResendsWhatWasSent ==
  [][resent' # resent => AskedForInWindow(Last(resent'))]_vars

(* A frame is not resent twice within MIN_RESEND_INTERVAL, though NACKs    *)
(* repeat in a feedback and across feedbacks (cast_rtp.rs:306-311).        *)
ResendsSpaced ==
  \A i, j \in DOMAIN resent :
    i < j /\ resent[i].payload = resent[j].payload
      => resent[j].at - resent[i].at >= MinResendInterval

(* stop() returns, with both threads gone.                                 *)
StopReturns == stopTx ~> (spc = "stopped" /\ rtcp = "done" /\ npc = "done")
=============================================================================
