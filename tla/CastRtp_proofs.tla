--------------------------- MODULE CastRtp_proofs ---------------------------
(***************************************************************************)
(* Machine-checked proofs about CastRtp, for every history length, byte,   *)
(* word and spacing of resends; and, at the end, about RtcpFeedback, the   *)
(* parser of the feedback that CastRtp acts on, for every compound.        *)
(***************************************************************************)
EXTENDS CastRtp, RtcpFeedback, FrameIds_proofs

-----------------------------------------------------------------------------
(* The inductive invariant.  Frames are numbered from 1, in the order in   *)
(* which they left.                                                        *)

IdOf(n) == (n - 1) % Word

Typed ==
  /\ spc \in {"idle", "record", "advance", "joinRtcp", "joinNack", "stopped"}
  /\ npc \in {"check", "recv", "lock", "resend", "done"}
  /\ rtcp \in {"report", "wait", "done"}
  /\ stopTx \in BOOLEAN /\ nackStop \in BOOLEAN
  /\ frameId \in FrameId /\ calls \in 0..MaxFrames
  /\ wire \in Seq(SentFrame) /\ todo \in Seq(FrameId)

(* Between send_to and the increment the wire is a frame ahead.            *)
UnderWay == spc \in {"record", "advance"}
Tried == IF UnderWay THEN calls + 1 ELSE calls
Recorded == IF spc = "record" THEN Len(wire) - 1 ELSE Len(wire)

WireInv ==
  /\ frameId = IdOf(IF UnderWay THEN Len(wire) ELSE Len(wire) + 1)
  /\ \A i \in 1..Len(wire) : wire[i].id = IdOf(i) /\ wire[i].payload <= Tried
  /\ \A i, j \in 1..Len(wire) : i < j => wire[i].payload < wire[j].payload
  /\ Len(wire) <= Tried
  /\ UnderWay => calls < MaxFrames /\ Len(wire) > 0 /\ wire[Len(wire)].payload = calls + 1

(* The history holds frame n as p.                                         *)
Holds(p, n) == wire[n].id = p.id /\ wire[n].payload = p.payload

HeldPacket == [id : FrameId, payload : 1..MaxFrames, sentAt : Nat]

HistoryInv ==
  /\ slots \in [0..HistoryFrames-1 -> SUBSET HeldPacket]
  /\ \A k \in 0..HistoryFrames-1 : \A p \in slots[k] :
       Slot(p.id) = k /\ \E n \in 1..Recorded : Holds(p, n)
  /\ lastSent = IF Recorded = 0 THEN {} ELSE {IdOf(Recorded)}

(* A feedback that waits for the lock says nothing of frames it cannot     *)
(* know, and the list made of it is of its frames as long as it is fresh.  *)
FeedbackInv ==
  npc \in {"lock", "resend"} =>
    /\ feedback.checkpoint \in 0..Recorded
    /\ feedback.lost \in Seq(1..Len(wire))
    /\ \A i \in 1..Len(feedback.lost) :
         /\ feedback.checkpoint < feedback.lost[i]
         /\ feedback.lost[i] <= feedback.checkpoint + Bytes

TodoInv ==
  npc = "resend" =>
    /\ Len(todo) <= Len(feedback.lost)
    /\ Age < Bytes =>
         \A i \in 1..Len(todo) :
           todo[i] = IdOf(feedback.lost[Len(feedback.lost) - Len(todo) + i])

SentAgain == [id : FrameId, payload : 1..MaxFrames, at : Nat]

(* What was sent again is in no slot under an earlier time.                *)
SpacingInv ==
  /\ now \in Nat /\ nackNow \in Nat
  /\ resent \in Seq(SentAgain)
  /\ \A i \in 1..Len(resent) : \E n \in 1..Recorded : wire[n].payload = resent[i].payload
  /\ \A i \in 1..Len(resent), k \in 0..HistoryFrames-1 : \A p \in slots[k] :
       p.payload = resent[i].payload => resent[i].at <= p.sentAt

Inv ==
  /\ Typed /\ WireInv /\ HistoryInv /\ FeedbackInv /\ TodoInv /\ SpacingInv
  /\ ResendsSpaced

(* As long as the frame IDs have not wrapped around, a slot is overwritten *)
(* by every HistoryFrames-th frame.                                        *)
WindowInv ==
  \A k \in 0..HistoryFrames-1 : \A p \in slots[k], n \in 1..Recorded :
    Holds(p, n) => Recorded - n < HistoryFrames

-----------------------------------------------------------------------------
(* Numbers, IDs and sequences.                                             *)

LEMMA ConstantsTyped ==
  /\ HistoryFrames \in Nat \ {0} /\ ExpandWindow \in Nat /\ HistoryFrames < ExpandWindow
  /\ MinResendInterval \in Nat /\ MaxFrames \in Nat /\ MaxTime \in Nat /\ MaxLosses \in Nat
  /\ Bytes \in Nat \ {0} /\ Word \in Nat \ {0} /\ Word > Bytes /\ Bytes > ExpandWindow
<1>1. HistoryFrames \in Nat \ {0} /\ Bytes \in Nat \ {0} /\ Word \in Nat \ {0} /\ Word > Bytes
  BY RtpAssumption, IdAssumption
<1>2. ExpandWindow \in Nat /\ HistoryFrames < ExpandWindow /\ Bytes > ExpandWindow
  BY <1>1, RtpAssumption
<1>3. MinResendInterval \in Nat /\ MaxFrames \in Nat /\ MaxTime \in Nat /\ MaxLosses \in Nat
  BY RtpAssumption
<1> QED
  BY <1>1, <1>2, <1>3

(* The ID of the next frame is one more, reduced to a word.                *)
LEMMA IdNext ==
  ASSUME NEW n \in Int
  PROVE /\ IdOf(n) \in FrameId
        /\ (IdOf(n) + 1) % Word = IdOf(n + 1)
<1> USE ConstantsTyped
<1>1. n - 1 \in Int /\ -1 \in Int
  OBVIOUS
<1>2. IdOf(n) \in FrameId
  BY <1>1, DivMod DEF IdOf, FrameId
<1>3. (((n - 1) % Word) - (-1)) % Word = ((n - 1) - (-1)) % Word
  BY <1>1, ModShift
<1>4. IdOf(n) - (-1) = IdOf(n) + 1 /\ (n - 1) - (-1) = (n + 1) - 1
  BY <1>2 DEF FrameId
<1> QED
  BY <1>2, <1>3, <1>4 DEF IdOf

LEMMA FirstId == IdOf(1) = 0
<1>1. 0 % Word = 0
  BY ConstantsTyped, OwnRemainder
<1> QED
  BY <1>1 DEF IdOf

LEMMA ByteOfTyped == \A n \in Int : ByteOf(n) \in Int
<1> SUFFICES ASSUME NEW n \in Int PROVE ByteOf(n) \in Int
  OBVIOUS
<1>1. (n - 1) % Word \in Int
  BY ConstantsTyped, DivMod
<1> QED
  BY <1>1, ConstantsTyped, DivMod DEF ByteOf, LowByte

LEMMA ExpandLeTyped == \A max \in Int, b \in Int : ExpandLe(max, b) \in FrameId
<1> SUFFICES ASSUME NEW max \in Int, NEW b \in Int PROVE ExpandLe(max, b) \in FrameId
  OBVIOUS
<1> USE ConstantsTyped
<1>1. (max % Bytes) - b \in Int
  BY DivMod
<1>2. max - (((max % Bytes) - b) % Bytes) \in Int
  BY <1>1, DivMod
<1> QED
  BY <1>2, DivMod DEF ExpandLe, LowByte, FrameId

LEMMA SlotTyped ==
  ASSUME NEW id \in FrameId
  PROVE Slot(id) \in 0..HistoryFrames-1
<1>1. id \in Int
  BY ConstantsTyped DEF FrameId
<1> QED
  BY <1>1, ConstantsTyped, DivMod DEF Slot

LEMMA Appended ==
  ASSUME NEW S, NEW s \in Seq(S), NEW e \in S
  PROVE /\ Append(s, e) \in Seq(S)
        /\ Len(Append(s, e)) = Len(s) + 1
        /\ \A i \in 1..Len(s) : Append(s, e)[i] = s[i]
        /\ Append(s, e)[Len(s) + 1] = e
OBVIOUS

LEMMA Dropped ==
  ASSUME NEW S, NEW s \in Seq(S), s # <<>>
  PROVE /\ Tail(s) \in Seq(S)
        /\ Len(Tail(s)) = Len(s) - 1 /\ Len(s) \in Nat \ {0}
        /\ \A i \in 1..Len(s)-1 : Tail(s)[i] = s[i + 1]
        /\ Head(s) = s[1] /\ s[1] \in S
OBVIOUS

LEMMA Counted ==
  ASSUME Inv
  PROVE /\ Len(wire) \in Nat /\ Recorded \in 0..Len(wire) /\ Tried \in Nat /\ calls \in Nat
        /\ spc # "record" => Recorded = Len(wire)
        /\ UnderWay => Len(wire) > 0
<1>1. Len(wire) \in Nat /\ calls \in Nat
  BY ConstantsTyped DEF Inv, Typed
<1>2. UnderWay => Len(wire) > 0
  BY DEF Inv, WireInv
<1> QED
  BY <1>1, <1>2 DEF UnderWay, Recorded, Tried

-----------------------------------------------------------------------------
LEMMA InitInv == Init => Inv
<1> SUFFICES ASSUME Init PROVE Inv
  OBVIOUS
<1> USE ConstantsTyped
<1>0. Len(wire) = 0 /\ Len(resent) = 0 /\ Recorded = 0 /\ ~UnderWay
  BY DEF Init, Recorded, UnderWay
<1>1. Typed
  <2>1. /\ spc = "idle" /\ npc = "check" /\ rtcp = "report" /\ frameId = 0 /\ calls = 0
        /\ stopTx = FALSE /\ nackStop = FALSE /\ wire = <<>> /\ todo = <<>>
    BY DEF Init
  <2>2. frameId \in FrameId /\ calls \in 0..MaxFrames
    BY <2>1 DEF FrameId
  <2>3. wire \in Seq(SentFrame) /\ todo \in Seq(FrameId)
    BY <2>1
  <2>4. stopTx \in BOOLEAN /\ nackStop \in BOOLEAN
    BY <2>1, Zenon
  <2> QED
    BY <2>1, <2>2, <2>3, <2>4, Zenon DEF Typed
<1>2. WireInv
  BY <1>0, FirstId DEF Init, WireInv, Tried
<1>3. HistoryInv
  BY <1>0 DEF Init, HistoryInv
<1>4. FeedbackInv /\ TodoInv
  BY DEF Init, FeedbackInv, TodoInv
<1>5. SpacingInv /\ ResendsSpaced
  BY <1>0 DEF Init, SpacingInv, ResendsSpaced
<1> QED
  BY <1>1, <1>2, <1>3, <1>4, <1>5 DEF Inv

-----------------------------------------------------------------------------
(* Every step keeps the invariant.                                         *)

LEMMA TypedPreserved == Inv /\ [Next]_vars => Typed'
<1> SUFFICES ASSUME Inv, [Next]_vars PROVE Typed'
  OBVIOUS
<1> USE ConstantsTyped DEF Inv, Typed
<1>1. CASE SendTo
  <2>1. [id |-> frameId, payload |-> Payload] \in SentFrame
    BY <1>1 DEF SendTo, Payload, SentFrame
  <2> QED
    BY <1>1, <2>1, Appended DEF SendTo, nackVars, stopVars
<1>2. CASE SendToFails
  BY <1>2 DEF SendToFails, AfterFailure, nackVars, stopVars
<1>3. CASE Record
  BY <1>3 DEF Record, nackVars, stopVars
<1>4. CASE Advance
  <2>1. frameId' \in FrameId
    BY <1>4, IdNext DEF Advance, WireInv, UnderWay
  <2>2. calls' \in 0..MaxFrames
    BY <1>4 DEF Advance, WireInv, UnderWay
  <2> QED
    BY <1>4, <2>1, <2>2 DEF Advance, nackVars, stopVars
<1>5. CASE TakeLock
  <2>1. CASE lastSent = {}
    BY <1>5, <2>1 DEF TakeLock, senderVars, stopVars
  <2>2. ASSUME NEW last \in lastSent, todo' = Nacked(last)
        PROVE todo' \in Seq(FrameId)
    <3>1. npc = "lock"
      BY <1>5 DEF TakeLock
    <3>2. Len(feedback.lost) \in Nat /\ DOMAIN feedback.lost = 1..Len(feedback.lost)
      BY <3>1 DEF FeedbackInv
    <3>3. \A i \in 1..Len(feedback.lost) : todo'[i] \in FrameId
      <4> SUFFICES ASSUME NEW i \in 1..Len(feedback.lost) PROVE todo'[i] \in FrameId
        OBVIOUS
      <4> DEFINE base == CheckpointId(last, ByteOf(feedback.checkpoint))
                 b == ByteOf(feedback.lost[i])
      <4>1. todo'[i] = NackedId(base, b)
        BY <2>2, <3>2 DEF Nacked
      <4>2. \A x \in Int, y \in Int : ExpandLe(x, y) \in FrameId
        BY ExpandLeTyped
      <4>3. \A n \in Int : ByteOf(n) \in Int
        BY ByteOfTyped
      <4>4. last \in FrameId /\ feedback.checkpoint \in Int /\ feedback.lost[i] \in Int
        <5>1. last = IdOf(Recorded) /\ Recorded \in Int
          BY Counted DEF HistoryInv
        <5>2. last \in FrameId
          BY <5>1, IdNext
        <5>3. feedback.checkpoint \in 0..Recorded /\ feedback.lost \in Seq(1..Len(wire))
          BY <3>1 DEF FeedbackInv
        <5>4. feedback.lost[i] \in 1..Len(wire) /\ Len(wire) \in Nat
          BY <5>3, Counted
        <5> QED
          BY <5>1, <5>2, <5>3, <5>4
      <4>5. base \in FrameId
        <5>1. ByteOf(feedback.checkpoint) \in Int
          BY <4>3, <4>4
        <5>2. last \in Int
          BY <4>4 DEF FrameId
        <5>3. ExpandLe(last, ByteOf(feedback.checkpoint)) \in FrameId
          BY <4>2, <5>1, <5>2, Zenon
        <5> QED
          BY <5>3 DEF CheckpointId
      <4> HIDE DEF base
      <4>6. (base + Bytes) % Word \in Int
        BY <4>5, DivMod DEF FrameId
      <4> QED
        BY <4>1, <4>2, <4>3, <4>4, <4>6 DEF NackedId
    <3>4. DOMAIN todo' = 1..Len(feedback.lost)
      BY <2>2, <3>2 DEF Nacked
    <3>5. todo' \in [1..Len(feedback.lost) -> FrameId]
      BY <2>2, <3>2, <3>3, <3>4 DEF Nacked
    <3> QED
      BY <3>2, <3>5
  <2> QED
    BY <1>5, <2>1, <2>2 DEF TakeLock, senderVars, stopVars
<1>6. CASE PassOver \/ ResendFails \/ \E k \in DOMAIN slots : \E p \in slots[k] : Resend(p)
  <2>1. todo # <<>> /\ todo' = Tail(todo)
    BY <1>6 DEF PassOver, ResendFails, Resend
  <2>2. todo' \in Seq(FrameId)
    BY <2>1, Dropped
  <2>3. UNCHANGED <<senderVars, rtcp, npc, stopVars, wire>>
    BY <1>6 DEF PassOver, ResendFails, Resend
  <2> QED
    BY <2>2, <2>3 DEF senderVars, stopVars
<1>7. CASE CheckNackStop \/ ReceiveNothing \/ ReleaseLock \/ ReportThread \/ Tick
  BY <1>7 DEF CheckNackStop, ReceiveNothing, ReleaseLock, ReportThread, SendReport,
              ReportWaitEnds, Tick, senderVars, stopVars, nackVars
<1>8. CASE Receiver
  BY <1>8 DEF Receiver, ReceiveFeedback, senderVars, stopVars
<1>9. CASE Stop
  BY <1>9 DEF Stop, BeginStop, JoinRtcp, JoinNack, nackVars, stopVars
<1>10. CASE UNCHANGED vars
  BY <1>10 DEF vars, senderVars, stopVars, nackVars
<1> QED
  BY <1>1, <1>2, <1>3, <1>4, <1>5, <1>6, <1>7, <1>8, <1>9, <1>10 DEF Next, Sender, NackThread

(* What the threads that only read or resend, the joins and the clock do   *)
(* to the wire and its sender: nothing.                                    *)
LEMMA OthersLeaveWire ==
  ASSUME Inv, [Next]_vars, ~Sender
  PROVE /\ UNCHANGED <<frameId, calls, wire>>
        /\ UnderWay' = UnderWay /\ Recorded' = Recorded /\ Tried' = Tried
<1>1. UNCHANGED <<frameId, calls, wire>>
  BY DEF Next, NackThread, CheckNackStop, ReceiveNothing, TakeLock, PassOver, ReleaseLock,
     ResendFails, Resend, ReportThread, SendReport, ReportWaitEnds, Stop, BeginStop,
     JoinRtcp, JoinNack, Receiver, ReceiveFeedback, Tick, senderVars, vars
<1>2. CASE ~Stop
  <2>1. spc' = spc
    BY <1>2 DEF Next, NackThread, CheckNackStop, ReceiveNothing, TakeLock, PassOver,
       ReleaseLock, ResendFails, Resend, ReportThread, SendReport, ReportWaitEnds,
       Receiver, ReceiveFeedback, Tick, senderVars, vars
  <2> QED
    BY <1>1, <2>1 DEF UnderWay, Recorded, Tried
<1>3. CASE Stop
  <2>1. /\ spc \in {"idle", "joinRtcp", "joinNack"}
        /\ spc' \in {"joinRtcp", "joinNack", "stopped"}
    BY <1>3 DEF Stop, BeginStop, JoinRtcp, JoinNack
  <2> QED
    BY <1>1, <2>1 DEF UnderWay, Recorded, Tried
<1> QED
  BY <1>2, <1>3

(* A frame that has been sent stays where it is on the wire.               *)
LEMMA WireGrows ==
  ASSUME Inv, [Next]_vars
  PROVE /\ Len(wire) <= Len(wire') /\ Recorded <= Recorded'
        /\ Len(wire') \in Nat /\ Recorded' \in Nat
        /\ \A n \in 1..Len(wire) : wire'[n] = wire[n]
<1> USE Counted
<1>1. CASE SendTo
  <2>1. [id |-> frameId, payload |-> Payload] \in SentFrame
    BY <1>1, ConstantsTyped DEF SendTo, Payload, SentFrame, Inv, Typed
  <2>2. /\ Len(wire') = Len(wire) + 1
        /\ \A n \in 1..Len(wire) : wire'[n] = wire[n]
    BY <1>1, <2>1, Appended DEF SendTo, Inv, Typed
  <2> QED
    BY <1>1, <2>2 DEF SendTo, Recorded
<1>2. CASE SendToFails \/ Record \/ Advance
  BY <1>2 DEF SendToFails, Record, Advance, Recorded
<1>3. CASE ~Sender
  BY <1>3, OthersLeaveWire
<1> QED
  BY <1>1, <1>2, <1>3 DEF Sender

LEMMA WirePreserved == Inv /\ [Next]_vars => WireInv'
<1> SUFFICES ASSUME Inv, [Next]_vars PROVE WireInv'
  OBVIOUS
<1>0. /\ Len(wire) \in Nat /\ calls \in Nat /\ MaxFrames \in Nat
      /\ \A i \in 1..Len(wire) : wire[i].payload \in Nat
  <2>1. \A i \in 1..Len(wire) : wire[i] \in SentFrame
    BY DEF Inv, Typed
  <2>2. \A i \in 1..Len(wire) : wire[i].payload \in Nat
    BY <2>1, ConstantsTyped DEF SentFrame
  <2> QED
    BY <2>2, Counted, ConstantsTyped
<1>1. CASE SendTo
  <2> DEFINE e == [id |-> frameId, payload |-> Payload]
  <2>1. e \in SentFrame
    BY <1>1, <1>0 DEF SendTo, Payload, SentFrame, Inv, Typed
  <2>2. e.id = frameId /\ e.payload = calls + 1
    BY DEF Payload
  <2>3. /\ wire' = Append(wire, e) /\ UNCHANGED <<frameId, calls>>
        /\ ~UnderWay /\ UnderWay' /\ calls < MaxFrames
    BY <1>1 DEF SendTo, UnderWay
  <2> HIDE DEF e
  <2>4. /\ Len(wire') = Len(wire) + 1 /\ wire'[Len(wire) + 1] = e
        /\ \A n \in 1..Len(wire) : wire'[n] = wire[n]
    BY <2>1, <2>3, Appended DEF Inv, Typed
  <2>5. /\ frameId = IdOf(Len(wire) + 1) /\ Len(wire) <= calls
        /\ \A i \in 1..Len(wire) : wire[i].id = IdOf(i) /\ wire[i].payload <= calls
        /\ \A i, j \in 1..Len(wire) : i < j => wire[i].payload < wire[j].payload
    BY <2>3 DEF Inv, WireInv, Tried
  <2>6. Tried' = calls + 1
    BY <2>3 DEF Tried
  <2>7. \A i \in 1..Len(wire') : wire'[i].id = IdOf(i) /\ wire'[i].payload <= Tried'
    BY <1>0, <2>2, <2>4, <2>5, <2>6
  <2>8. \A i, j \in 1..Len(wire') : i < j => wire'[i].payload < wire'[j].payload
    BY <1>0, <2>2, <2>4, <2>5
  <2> QED
    BY <1>0, <2>2, <2>3, <2>4, <2>5, <2>6, <2>7, <2>8 DEF WireInv
<1>2. CASE SendToFails
  <2>1. /\ UNCHANGED <<wire, frameId>> /\ ~UnderWay /\ ~UnderWay' /\ Tried' = Tried + 1
    BY <1>2 DEF SendToFails, AfterFailure, UnderWay, Tried
  <2> QED
    BY <1>0, <2>1, Counted DEF Inv, WireInv
<1>3. CASE Record
  <2>1. /\ UNCHANGED <<wire, frameId, calls>> /\ UnderWay /\ UnderWay' /\ Tried' = Tried
    BY <1>3 DEF Record, UnderWay, Tried
  <2> QED
    BY <2>1 DEF Inv, WireInv
<1>4. CASE Advance
  <2>1. /\ UNCHANGED wire /\ UnderWay /\ ~UnderWay' /\ Tried' = Tried
        /\ frameId' = (frameId + 1) % Word
    BY <1>4 DEF Advance, UnderWay, Tried
  <2>2. frameId' = IdOf(Len(wire) + 1)
    BY <1>0, <2>1, IdNext DEF Inv, WireInv
  <2> QED
    BY <2>1, <2>2 DEF Inv, WireInv
<1>5. CASE ~Sender
  BY <1>5, OthersLeaveWire DEF Inv, WireInv
<1> QED
  BY <1>1, <1>2, <1>3, <1>4, <1>5 DEF Sender

(* A packet in the history stays that of its frame.                        *)
LEMMA StillHeld ==
  ASSUME Inv, [Next]_vars, NEW p, NEW n \in 1..Recorded, Holds(p, n)
  PROVE n \in 1..Recorded' /\ Holds(p, n)'
BY WireGrows, Counted DEF Holds

LEMMA HistoryPreserved == Inv /\ [Next]_vars => HistoryInv'
<1> SUFFICES ASSUME Inv, [Next]_vars PROVE HistoryInv'
  OBVIOUS
<1> DEFINE Fits(k, p) ==
      /\ Slot(p.id) = k
      /\ \E n \in 1..Recorded' : wire'[n].id = p.id /\ wire'[n].payload = p.payload
<1>0. ASSUME NEW k \in 0..HistoryFrames-1, NEW p \in slots[k]
      PROVE Fits(k, p)
  <2>1. PICK n \in 1..Recorded : Holds(p, n)
    BY DEF Inv, HistoryInv
  <2>2. Slot(p.id) = k
    BY DEF Inv, HistoryInv
  <2> QED
    BY <2>1, <2>2, StillHeld DEF Holds
<1>1. CASE Record
  <2> DEFINE e == [id |-> frameId, payload |-> Payload, sentAt |-> now]
  <2>1. /\ slots' = [slots EXCEPT ![Slot(frameId)] = {e}] /\ lastSent' = {frameId}
        /\ UNCHANGED <<wire, frameId, calls>>
        /\ UnderWay /\ Recorded' = Len(wire) /\ Len(wire) \in Nat \ {0}
    BY <1>1, Counted DEF Record, UnderWay, Recorded
  <2>2. e \in HeldPacket
    BY <1>1, <2>1, ConstantsTyped
    DEF HeldPacket, Payload, Inv, Typed, WireInv, SpacingInv, UnderWay
  <2>3. Slot(frameId) \in 0..HistoryFrames-1
    BY SlotTyped DEF Inv, Typed
  <2>4. slots' \in [0..HistoryFrames-1 -> SUBSET HeldPacket]
    BY <2>1, <2>2, <2>3 DEF Inv, HistoryInv
  <2>5. frameId = IdOf(Len(wire)) /\ wire[Len(wire)].id = IdOf(Len(wire))
        /\ wire[Len(wire)].payload = Payload
    BY <2>1 DEF Inv, WireInv, Payload
  <2>6. Fits(Slot(frameId), e)
    BY <2>1, <2>5
  <2> HIDE DEF e, Fits
  <2>7. \A k \in 0..HistoryFrames-1 : \A p \in slots'[k] : Fits(k, p)
    <3> SUFFICES ASSUME NEW k \in 0..HistoryFrames-1, NEW p \in slots'[k] PROVE Fits(k, p)
      OBVIOUS
    <3>1. CASE k = Slot(frameId)
      BY <2>1, <2>3, <2>6, <3>1 DEF Inv, HistoryInv
    <3>2. CASE k # Slot(frameId)
      BY <1>0, <2>1, <2>3, <3>2 DEF Inv, HistoryInv
    <3> QED
      BY <3>1, <3>2
  <2>8. lastSent' = IF Recorded' = 0 THEN {} ELSE {IdOf(Recorded')}
    BY <2>1, <2>5
  <2> QED
    BY <2>4, <2>7, <2>8 DEF HistoryInv, Fits, Holds
<1>2. CASE \E k \in DOMAIN slots : \E q \in slots[k] : Resend(q)
  <2>0. PICK k \in DOMAIN slots : \E q \in slots[k] : Resend(q)
    BY <1>2
  <2>1. PICK q \in slots[k] : Resend(q)
    BY <2>0
  <2> DEFINE id == Head(todo)  e == [q EXCEPT !.sentAt = nackNow]
  <2>2. /\ q \in slots[Slot(id)] /\ q.id = id
        /\ slots' = [slots EXCEPT ![Slot(id)] = {e}] /\ UNCHANGED lastSent
        /\ todo # <<>>
    BY <2>1 DEF Resend, Due, Held
  <2>3. id \in FrameId
    BY <2>2, Dropped DEF Inv, Typed
  <2>4. Slot(id) \in 0..HistoryFrames-1
    BY <2>3, SlotTyped
  <2>5. q \in HeldPacket
    BY <2>2, <2>4 DEF Inv, HistoryInv
  <2>6. e \in HeldPacket /\ e.id = q.id /\ e.payload = q.payload
    BY <2>5 DEF HeldPacket, Inv, SpacingInv
  <2> HIDE DEF e, id
  <2>7. slots' \in [0..HistoryFrames-1 -> SUBSET HeldPacket]
    BY <2>2, <2>4, <2>6 DEF Inv, HistoryInv
  <2>8. Fits(Slot(id), e)
    BY <1>0, <2>2, <2>4, <2>6
  <2> HIDE DEF Fits
  <2>9. \A j \in 0..HistoryFrames-1 : \A p \in slots'[j] : Fits(j, p)
    <3> SUFFICES ASSUME NEW j \in 0..HistoryFrames-1, NEW p \in slots'[j] PROVE Fits(j, p)
      OBVIOUS
    <3>1. CASE j = Slot(id)
      BY <2>2, <2>4, <2>8, <3>1 DEF Inv, HistoryInv
    <3>2. CASE j # Slot(id)
      BY <1>0, <2>2, <2>4, <3>2 DEF Inv, HistoryInv
    <3> QED
      BY <3>1, <3>2
  <2>10. Recorded' = Recorded
    BY <2>1 DEF Resend, senderVars, Recorded
  <2> QED
    BY <2>2, <2>7, <2>9, <2>10 DEF Inv, HistoryInv, Fits, Holds
<1>3. ASSUME UNCHANGED <<slots, lastSent>>, Recorded' = Recorded
      PROVE HistoryInv'
  BY <1>0, <1>3 DEF Inv, HistoryInv, Holds
<1>4. CASE SendTo
  <2>1. Recorded' = Recorded
    BY <1>4, WireGrows, Counted, Appended DEF SendTo, Recorded, Inv, Typed
  <2> QED
    BY <1>3, <1>4, <2>1 DEF SendTo, historyVars
<1>5. CASE SendToFails \/ Advance
  BY <1>3, <1>5 DEF SendToFails, Advance, historyVars, Recorded
<1>6. CASE ~Sender /\ ~\E k \in DOMAIN slots : \E q \in slots[k] : Resend(q)
  <2>1. UNCHANGED <<slots, lastSent>>
    BY <1>6 DEF Next, NackThread, CheckNackStop, ReceiveNothing, TakeLock, PassOver,
       ReleaseLock, ResendFails, ReportThread, SendReport, ReportWaitEnds, Stop, BeginStop,
       JoinRtcp, JoinNack, Receiver, ReceiveFeedback, Tick, historyVars, vars
  <2> QED
    BY <1>3, <1>6, <2>1, OthersLeaveWire
<1> QED
  BY <1>1, <1>2, <1>4, <1>5, <1>6 DEF Sender

LEMMA FeedbackPreserved == Inv /\ [Next]_vars => FeedbackInv'
<1> SUFFICES ASSUME Inv, [Next]_vars PROVE FeedbackInv'
  OBVIOUS
<1>1. CASE Receiver
  <2>1. PICK known \in 0..Len(wire), n \in 1..MaxLosses :
          \E lost \in [1..n -> known+1..Len(wire)] :
            /\ \A i \in 1..n : lost[i] <= known + Bytes
            /\ ReceiveFeedback(known, lost)
    BY <1>1 DEF Receiver
  <2>2. PICK lost \in [1..n -> known+1..Len(wire)] :
          /\ \A i \in 1..n : lost[i] <= known + Bytes
          /\ ReceiveFeedback(known, lost)
    BY <2>1
  <2>3. n \in Nat /\ n >= 1 /\ Len(wire) \in Nat /\ known \in Nat
    BY ConstantsTyped, Counted
  <2>4. /\ feedback'.checkpoint = known /\ feedback'.lost = lost
        /\ UNCHANGED <<wire, spc>>
    BY <2>2 DEF ReceiveFeedback, senderVars
  <2>5. \A i \in 1..n : lost[i] \in 1..Len(wire) /\ known < lost[i]
    BY <2>3
  <2>6. lost \in Seq(1..Len(wire)) /\ Len(lost) = n
    BY <2>3, <2>5
  <2>7. known < Len(wire)
    BY <2>3, <2>5
  <2>8. Recorded' \in Nat /\ known <= Recorded'
    BY <2>3, <2>4, <2>7 DEF Recorded
  <2> QED
    BY <2>2, <2>3, <2>4, <2>5, <2>6, <2>8 DEF FeedbackInv
<1>2. CASE ~Receiver
  <2> SUFFICES ASSUME npc' \in {"lock", "resend"} PROVE FeedbackInv'
    BY DEF FeedbackInv
  <2>1. npc \in {"lock", "resend"} /\ feedback' = feedback
    BY <1>2 DEF Next, Sender, SendTo, SendToFails, Record, Advance, NackThread,
       CheckNackStop, ReceiveNothing, TakeLock, PassOver, ReleaseLock, ResendFails, Resend,
       ReportThread, SendReport, ReportWaitEnds, Stop, BeginStop, JoinRtcp, JoinNack, Tick,
       nackVars, vars
  <2>2. /\ Recorded \in Nat /\ Recorded' \in Nat /\ Recorded <= Recorded'
        /\ Len(wire) \in Nat /\ Len(wire') \in Nat /\ Len(wire) <= Len(wire')
    BY WireGrows, Counted
  <2>3. feedback.lost \in Seq(1..Len(wire)) /\ feedback.checkpoint \in 0..Recorded
    BY <2>1 DEF Inv, FeedbackInv
  <2>4. feedback.lost \in Seq(1..Len(wire'))
    BY <2>2, <2>3
  <2> QED
    BY <2>1, <2>2, <2>3, <2>4 DEF Inv, FeedbackInv
<1> QED
  BY <1>1, <1>2

LEMMA NumberedFromZero ==
  ASSUME NEW r \in Nat, NEW c \in Nat, NEW l \in Nat, NEW b \in Nat,
         c <= r, r - c < b, c < l, l <= c + b
  PROVE /\ r - 1 \in Int /\ c - 1 \in Int /\ l - 1 \in Int
        /\ c - 1 <= r - 1 /\ (r - 1) - (c - 1) < b /\ c - 1 < l - 1 /\ l - 1 <= (c - 1) + b
OBVIOUS

(* A feedback less than a byte's range old is expanded to its own frames.  *)
LEMMA ExpandedRight ==
  ASSUME Inv, npc = "lock", Age < Bytes, NEW i \in 1..Len(feedback.lost),
         NEW last \in lastSent
  PROVE Nacked(last)[i] = IdOf(feedback.lost[i])
<1> DEFINE sent == Recorded - 1  base == feedback.checkpoint - 1  lost == feedback.lost[i] - 1
<1>1. /\ feedback.checkpoint \in 0..Recorded /\ feedback.lost \in Seq(1..Len(wire))
      /\ feedback.checkpoint < feedback.lost[i]
      /\ feedback.lost[i] <= feedback.checkpoint + Bytes
  BY DEF Inv, FeedbackInv
<1>2. Recorded \in 0..Len(wire) /\ Len(wire) \in Nat /\ Bytes \in Nat
  BY Counted, ConstantsTyped
<1>3. feedback.lost[i] \in 1..Len(wire)
  BY <1>1
<1>4. /\ sent \in Int /\ base \in Int /\ lost \in Int
      /\ base <= sent /\ sent - base < Bytes /\ base < lost /\ lost <= base + Bytes
  <2>1. feedback.checkpoint \in Nat /\ feedback.lost[i] \in Nat /\ Recorded \in Nat
    BY <1>1, <1>2, <1>3
  <2>2. Recorded - feedback.checkpoint <= Len(wire) - feedback.checkpoint
    BY <1>2, <2>1
  <2>3. Recorded - feedback.checkpoint < Bytes
    BY <1>2, <2>1, <2>2 DEF Age
  <2> QED
    <3>1. /\ feedback.checkpoint <= Recorded
          /\ feedback.checkpoint < feedback.lost[i]
          /\ feedback.lost[i] <= feedback.checkpoint + Bytes
      BY <1>1, <1>2
    <3> QED
      BY <1>2, <2>1, <2>3, <3>1, NumberedFromZero, Zenon
<1>5. last = sent % Word
  BY DEF Inv, HistoryInv, IdOf
<1> HIDE DEF sent, base, lost
<1>6. NackedId(CheckpointId(sent % Word, LowByte(base % Word)), LowByte(lost % Word))
        = lost % Word
  BY <1>4, NackRecovered
<1>7. i \in DOMAIN feedback.lost
  BY <1>1
<1> QED
  BY <1>5, <1>6, <1>7 DEF Nacked, ByteOf, IdOf, sent, base, lost

LEMMA TodoPreserved == Inv /\ [Next]_vars => TodoInv'
<1> SUFFICES ASSUME Inv, [Next]_vars PROVE TodoInv'
  OBVIOUS
<1> SUFFICES ASSUME npc' = "resend" PROVE TodoInv'
  BY DEF TodoInv
<1>1. CASE TakeLock
  <2>1. PICK last \in lastSent : todo' = Nacked(last)
    BY <1>1 DEF TakeLock
  <2>2. npc = "lock" /\ UNCHANGED <<feedback, wire>>
    BY <1>1 DEF TakeLock
  <2>3. feedback.lost \in Seq(1..Len(wire))
    BY <2>2 DEF Inv, FeedbackInv
  <2>4. Len(feedback.lost) \in Nat /\ DOMAIN feedback.lost = 1..Len(feedback.lost)
    BY <2>3
  <2>5. DOMAIN todo' = 1..Len(feedback.lost)
    BY <2>1, <2>4 DEF Nacked
  <2>6. Len(todo') = Len(feedback.lost)
    BY <2>4, <2>5, TypedPreserved DEF Typed
  <2>7. Age < Bytes => \A i \in 1..Len(feedback.lost) : todo'[i] = IdOf(feedback.lost[i])
    BY <2>1, <2>2, ExpandedRight
  <2> QED
    BY <2>2, <2>4, <2>6, <2>7 DEF TodoInv, Age, IdOf
<1>2. CASE PassOver \/ ResendFails \/ \E k \in DOMAIN slots : \E p \in slots[k] : Resend(p)
  <2>1. /\ npc = "resend" /\ todo # <<>> /\ todo' = Tail(todo) /\ UNCHANGED <<feedback, wire>>
    BY <1>2 DEF PassOver, ResendFails, Resend
  <2>2. /\ Len(todo) \in Nat \ {0} /\ Len(todo') = Len(todo) - 1
        /\ \A i \in 1..Len(todo)-1 : todo'[i] = todo[i + 1]
    BY <2>1, Dropped DEF Inv, Typed
  <2>3. Len(feedback.lost) \in Nat /\ Len(todo) <= Len(feedback.lost)
    BY <2>1 DEF Inv, TodoInv, FeedbackInv
  <2>4. ASSUME Age < Bytes, NEW i \in 1..Len(todo')
        PROVE todo'[i] = IdOf(feedback.lost[Len(feedback.lost) - Len(todo') + i])
    <3>1. i + 1 \in 1..Len(todo) /\ todo'[i] = todo[i + 1]
      BY <2>2, <2>4
    <3>2. Len(feedback.lost) - Len(todo') + i = Len(feedback.lost) - Len(todo) + (i + 1)
      <4> DEFINE l == Len(feedback.lost)
                 t == Len(todo)
                 u == Len(todo')
      <4>1. i \in Int /\ u \in Int /\ t \in Int /\ u = t - 1
        BY <2>2, <2>4
      <4>2. l \in Int
        BY <2>3
      <4> HIDE DEF l, t, u
      <4>3. l - u + i = l - t + (i + 1)
        BY <4>1, <4>2
      <4> QED
        BY <4>3, Zenon DEF l, t, u
    <3> QED
      BY <2>1, <2>4, <3>1, <3>2 DEF Inv, TodoInv
  <2> QED
    BY <2>1, <2>2, <2>3, <2>4 DEF TodoInv, Age, IdOf
<1>3. CASE /\ ~TakeLock /\ ~PassOver /\ ~ResendFails
           /\ ~\E k \in DOMAIN slots : \E p \in slots[k] : Resend(p)
  <2>1. npc = "resend" /\ UNCHANGED <<feedback, todo>>
    BY <1>3 DEF Next, Sender, SendTo, SendToFails, Record, Advance, NackThread,
       CheckNackStop, ReceiveNothing, ReleaseLock, ReportThread, SendReport,
       ReportWaitEnds, Stop, BeginStop, JoinRtcp, JoinNack, Receiver, ReceiveFeedback, Tick,
       nackVars, vars
  <2>2. Len(wire) \in Nat /\ Len(wire') \in Nat /\ Len(wire) <= Len(wire')
    BY WireGrows, Counted
  <2>3. feedback.checkpoint \in Nat
    BY <2>1, Counted DEF Inv, FeedbackInv
  <2>4. Age' < Bytes => Age < Bytes
    BY <2>1, <2>2, <2>3, ConstantsTyped DEF Age
  <2> QED
    BY <2>1, <2>4 DEF Inv, TodoInv, IdOf
<1> QED
  BY <1>1, <1>2, <1>3

(* No two frames have the same payload, nor do two slots hold the same.    *)
LEMMA PayloadsDiffer ==
  ASSUME Inv, NEW m \in 1..Len(wire), NEW n \in 1..Len(wire),
         wire[m].payload = wire[n].payload
  PROVE m = n
<1>1. \A i \in 1..Len(wire) : wire[i] \in SentFrame
  BY DEF Inv, Typed
<1>2. \A i \in 1..Len(wire) : wire[i].payload \in Nat
  BY <1>1, ConstantsTyped DEF SentFrame
<1>3. ~(m < n) /\ ~(n < m)
  BY <1>2 DEF Inv, WireInv
<1> QED
  BY <1>3, Counted

LEMMA OneSlotEach ==
  ASSUME Inv, NEW j \in 0..HistoryFrames-1, NEW k \in 0..HistoryFrames-1,
         NEW p \in slots[j], NEW q \in slots[k], p.payload = q.payload
  PROVE j = k
<1>1. PICK m \in 1..Recorded : Holds(p, m)
  BY DEF Inv, HistoryInv
<1>2. PICK n \in 1..Recorded : Holds(q, n)
  BY DEF Inv, HistoryInv
<1>3. m = n
  BY <1>1, <1>2, PayloadsDiffer, Counted DEF Holds
<1> QED
  BY <1>1, <1>2, <1>3 DEF Holds, Inv, HistoryInv

SpacingParts == SpacingInv /\ ResendsSpaced

LEMMA SpacingPreserved == Inv /\ [Next]_vars => SpacingParts'
<1> SUFFICES ASSUME Inv, [Next]_vars PROVE SpacingParts'
  OBVIOUS
<1>1. ASSUME NEW i \in 1..Len(resent)
      PROVE \E n \in 1..Recorded' : wire'[n].payload = resent[i].payload
  <2>1. PICK n \in 1..Recorded : wire[n].payload = resent[i].payload
    BY DEF Inv, SpacingInv
  <2> QED
    BY <2>1, WireGrows, Counted
<1>2. resent \in Seq(SentAgain) /\ Len(resent) \in Nat /\ DOMAIN resent = 1..Len(resent)
  BY DEF Inv, SpacingInv
<1>3. now' \in Nat /\ nackNow' \in Nat
  <2>1. CASE Tick
    BY <2>1 DEF Tick, nackVars, Inv, SpacingInv
  <2>2. CASE TakeLock \/ ReleaseLock
    BY <2>2 DEF TakeLock, ReleaseLock, Inv, SpacingInv
  <2>3. CASE Sender \/ Stop \/ ReportThread
    BY <2>3 DEF Sender, SendTo, SendToFails, Record, Advance, Stop, BeginStop, JoinRtcp,
       JoinNack, ReportThread, SendReport, ReportWaitEnds, nackVars, Inv, SpacingInv
  <2>4. CASE CheckNackStop \/ ReceiveNothing \/ PassOver \/ ResendFails \/ Receiver
    BY <2>4 DEF CheckNackStop, ReceiveNothing, PassOver, ResendFails, Receiver,
       ReceiveFeedback, Inv, SpacingInv
  <2>5. CASE \E k \in DOMAIN slots : \E q \in slots[k] : Resend(q)
    BY <2>5 DEF Resend, Inv, SpacingInv
  <2>6. CASE UNCHANGED vars
    BY <2>6 DEF vars, nackVars, Inv, SpacingInv
  <2> QED
    BY <2>1, <2>2, <2>3, <2>4, <2>5, <2>6 DEF Next, NackThread
<1>4. CASE \E k \in DOMAIN slots : \E q \in slots[k] : Resend(q)
  <2>0. PICK k \in DOMAIN slots : \E q \in slots[k] : Resend(q)
    BY <1>4
  <2>1. PICK q \in slots[k] : Resend(q)
    BY <2>0
  <2> DEFINE id == Head(todo)  e == [q EXCEPT !.sentAt = nackNow]
             r == [id |-> q.id, payload |-> q.payload, at |-> nackNow]
  <2>2. /\ q \in slots[Slot(id)] /\ q.id = id /\ nackNow - q.sentAt >= MinResendInterval
        /\ slots' = [slots EXCEPT ![Slot(id)] = {e}] /\ resent' = Append(resent, r)
        /\ todo # <<>> /\ UNCHANGED <<wire, spc>>
    <3>1. /\ q \in slots[Slot(id)] /\ q.id = id /\ ~(nackNow - q.sentAt < MinResendInterval)
      BY <2>1 DEF Resend, Due, Held, TooSoon
    <3>2. Slot(id) \in 0..HistoryFrames-1
      BY <2>1, Dropped, SlotTyped DEF Resend, Inv, Typed
    <3>3. q.sentAt \in Nat /\ nackNow \in Nat
      BY <3>1, <3>2 DEF Inv, HistoryInv, HeldPacket, SpacingInv
    <3>4. nackNow - q.sentAt >= MinResendInterval
      BY <3>1, <3>3, ConstantsTyped
    <3> QED
      BY <2>1, <3>1, <3>4 DEF Resend, senderVars
  <2>3. Slot(id) \in 0..HistoryFrames-1
    BY <2>2, Dropped, SlotTyped DEF Inv, Typed
  <2>4. q \in HeldPacket /\ nackNow \in Nat
    BY <2>2, <2>3 DEF Inv, HistoryInv, SpacingInv
  <2>5. e.payload = q.payload /\ e.sentAt = nackNow /\ q.sentAt \in Nat
    BY <2>4 DEF HeldPacket
  <2>6. r \in SentAgain /\ r.payload = q.payload /\ r.at = nackNow
    BY <2>4 DEF HeldPacket, SentAgain
  <2> HIDE DEF e, r, id
  <2>7. /\ resent' \in Seq(SentAgain) /\ Len(resent') = Len(resent) + 1
        /\ \A i \in 1..Len(resent) : resent'[i] = resent[i]
        /\ resent'[Len(resent) + 1] = r
    BY <1>2, <2>2, <2>6, Appended
  <2>8. DOMAIN resent' = 1..Len(resent')
    BY <2>7
  <2>9. \A i \in 1..Len(resent) : resent[i].payload = q.payload => resent[i].at <= q.sentAt
    BY <2>2, <2>3 DEF Inv, SpacingInv
  <2>10. \A i \in 1..Len(resent) : resent[i].at \in Nat
    <3>1. \A i \in 1..Len(resent) : resent[i] \in SentAgain
      BY <1>2
    <3>2. \A a \in SentAgain : a.at \in Nat
      BY DEF SentAgain
    <3> QED
      BY <3>1, <3>2
  <2>11. q.sentAt <= nackNow
    BY <2>2, <2>4, <2>5, ConstantsTyped
  <2>12. \A i \in 1..Len(resent') : \E n \in 1..Recorded' : wire'[n].payload = resent'[i].payload
    <3>1. PICK n \in 1..Recorded : Holds(q, n)
      BY <2>2, <2>3 DEF Inv, HistoryInv
    <3>2. Recorded' = Recorded
      BY <2>2 DEF Recorded
    <3>3. \E n1 \in 1..Recorded' : wire'[n1].payload = r.payload
      BY <2>2, <2>6, <3>1, <3>2 DEF Holds
    <3> QED
      BY <1>1, <1>2, <2>7, <3>3
  <2>13. ASSUME NEW i \in 1..Len(resent'), NEW j \in 0..HistoryFrames-1, NEW p \in slots'[j],
                p.payload = resent'[i].payload
         PROVE resent'[i].at <= p.sentAt
    <3>1. slots \in [0..HistoryFrames-1 -> SUBSET HeldPacket]
      BY DEF Inv, HistoryInv
    <3>2. CASE j = Slot(id)
      <4>1. p = e
        BY <2>2, <2>3, <3>1, <3>2
      <4>2. CASE i = Len(resent) + 1
        BY <2>4, <2>5, <2>6, <2>7, <4>1, <4>2
      <4>3. CASE i \in 1..Len(resent)
        BY <2>4, <2>5, <2>7, <2>9, <2>10, <2>11, <2>13, <4>1, <4>3
      <4> QED
        BY <1>2, <2>7, <4>2, <4>3
    <3>3. CASE j # Slot(id)
      <4>1. p \in slots[j]
        BY <2>2, <2>3, <3>1, <3>3
      <4>2. p.payload # q.payload
        BY <2>2, <2>3, <3>3, <4>1, OneSlotEach
      <4>3. i \in 1..Len(resent)
        BY <1>2, <2>6, <2>7, <2>13, <4>2
      <4> QED
        BY <2>7, <2>13, <4>1, <4>3 DEF Inv, SpacingInv
    <3> QED
      BY <3>2, <3>3
  <2>14. ASSUME NEW i \in 1..Len(resent'), NEW j \in 1..Len(resent'), i < j,
                resent'[i].payload = resent'[j].payload
         PROVE resent'[j].at - resent'[i].at >= MinResendInterval
    <3>1. i \in 1..Len(resent)
      BY <1>2, <2>7, <2>14
    <3>2. CASE j \in 1..Len(resent)
      BY <1>2, <2>7, <2>14, <3>1, <3>2 DEF Inv, ResendsSpaced
    <3>3. CASE j = Len(resent) + 1
      <4>1. resent'[j].at = nackNow /\ resent[i].payload = q.payload /\ resent'[i] = resent[i]
        BY <2>6, <2>7, <2>14, <3>1, <3>3
      <4>2. resent[i].at <= q.sentAt /\ resent[i].at \in Nat
        BY <2>9, <2>10, <3>1, <4>1
      <4> QED
        BY <2>2, <2>4, <2>5, <4>1, <4>2, ConstantsTyped
    <3> QED
      BY <1>2, <2>7, <3>2, <3>3
  <2>15. SpacingInv'
    BY <1>3, <2>7, <2>12, <2>13 DEF SpacingInv
  <2>16. ResendsSpaced'
    BY <2>8, <2>14 DEF ResendsSpaced
  <2> QED
    BY <2>15, <2>16 DEF SpacingParts
<1>5. ASSUME UNCHANGED resent,
             \A k \in 0..HistoryFrames-1 : \A p \in slots'[k] :
               p \in slots[k] \/ \A i \in 1..Len(resent) : resent[i].payload # p.payload
      PROVE SpacingParts'
  <2>1. SpacingInv'
    BY <1>1, <1>3, <1>5 DEF Inv, SpacingInv
  <2>2. ResendsSpaced'
    BY <1>5 DEF Inv, ResendsSpaced
  <2> QED
    BY <2>1, <2>2 DEF SpacingParts
<1>6. CASE Record
  <2> DEFINE e == [id |-> frameId, payload |-> Payload, sentAt |-> now]
  <2>1. /\ slots' = [slots EXCEPT ![Slot(frameId)] = {e}] /\ UNCHANGED resent
        /\ e.payload = calls + 1 /\ UnderWay /\ Recorded = Len(wire) - 1
    BY <1>6 DEF Record, Payload, UnderWay, Recorded
  <2> HIDE DEF e
  <2>2. Slot(frameId) \in 0..HistoryFrames-1
    BY SlotTyped DEF Inv, Typed
  <2>3. \A i \in 1..Len(resent) : resent[i].payload # e.payload
    <3> SUFFICES ASSUME NEW i \in 1..Len(resent), resent[i].payload = e.payload PROVE FALSE
      OBVIOUS
    <3>1. PICK n \in 1..Recorded : wire[n].payload = resent[i].payload
      BY DEF Inv, SpacingInv
    <3>2. wire[Len(wire)].payload = calls + 1 /\ Len(wire) \in 1..Len(wire)
      BY <2>1, Counted DEF Inv, WireInv
    <3>3. n = Len(wire)
      BY <2>1, <3>1, <3>2, PayloadsDiffer, Counted
    <3> QED
      BY <2>1, <3>3, Counted
  <2>4. \A k \in 0..HistoryFrames-1 : \A p \in slots'[k] : p \in slots[k] \/ p = e
    BY <2>1, <2>2 DEF Inv, HistoryInv
  <2> QED
    BY <1>5, <2>1, <2>3, <2>4
<1>7. CASE ~Record /\ ~\E k \in DOMAIN slots : \E q \in slots[k] : Resend(q)
  <2>1. UNCHANGED <<slots, resent>>
    BY <1>7 DEF Next, Sender, SendTo, SendToFails, Advance, NackThread, CheckNackStop,
       ReceiveNothing, TakeLock, PassOver, ReleaseLock, ResendFails, ReportThread,
       SendReport, ReportWaitEnds, Stop, BeginStop, JoinRtcp, JoinNack, Receiver,
       ReceiveFeedback, Tick, historyVars, vars
  <2> QED
    BY <1>5, <2>1
<1> QED
  BY <1>4, <1>6, <1>7

LEMMA Invariance == Spec => []Inv
<1>1. Inv /\ [Next]_vars => Inv'
  BY TypedPreserved, WirePreserved, HistoryPreserved, FeedbackPreserved, TodoPreserved,
     SpacingPreserved DEF Inv, SpacingParts
<1> QED
  BY <1>1, InitInv, PTL DEF Spec

-----------------------------------------------------------------------------
(* The theorems.                                                           *)

(* The variables keep their types, and a slot of the history holds a       *)
(* packet that was sent, under its own ID (cast_rtp.rs:82).                *)
THEOREM TypeCorrect == Spec => []TypeOK
<1>1. Inv => TypeOK
  <2> SUFFICES ASSUME Inv PROVE TypeOK
    OBVIOUS
  <2>1. ASSUME NEW i \in 0..HistoryFrames-1, NEW p \in slots[i]
        PROVE Slot(p.id) = i /\ [id |-> p.id, payload |-> p.payload] \in ToSet(wire)
    <3>1. PICK n \in 1..Recorded : Holds(p, n)
      BY DEF Inv, HistoryInv
    <3>2. n \in 1..Len(wire) /\ n \in DOMAIN wire /\ wire[n] \in SentFrame
      BY Counted DEF Inv, Typed
    <3>3. wire[n] = [id |-> p.id, payload |-> p.payload]
      BY <3>1, <3>2 DEF Holds, SentFrame
    <3> QED
      BY <3>2, <3>3 DEF ToSet, Inv, HistoryInv
  <2>2. lastSent \subseteq FrameId
    BY Counted, IdNext DEF Inv, HistoryInv
  <2>3. {stopTx, nackStop} \subseteq BOOLEAN
    BY Zenon DEF Inv, Typed
  <2> QED
    BY <2>1, <2>2, <2>3, Zenon DEF Inv, Typed, TypeOK
<1> QED
  BY <1>1, Invariance, PTL

(* Whatever sends fail, the frame IDs on the wire have neither a gap nor a *)
(* repetition (cast_rtp.rs:165-170).                                       *)
THEOREM IdsContiguous == Spec => []WireContiguous
<1>1. Inv => WireContiguous
  BY DEF Inv, Typed, WireInv, WireContiguous, IdOf
<1> QED
  BY <1>1, Invariance, PTL

(* The failures of send_to are counted.                                   *)
FaultsTyped == faults \in Nat

LEMMA FaultsCounted == Spec => []FaultsTyped
<1>1. Init => FaultsTyped
  BY DEF Init, FaultsTyped
<1>2. ASSUME FaultsTyped, [Next]_vars
      PROVE FaultsTyped'
  <2>1. CASE SendToFails \/ ResendFails
    BY <1>2, <2>1 DEF SendToFails, ResendFails, FaultsTyped
  <2>2. CASE ~SendToFails /\ ~ResendFails
    <3>1. faults' = faults
      BY <1>2, <2>2 DEF Next, Sender, SendTo, Record, Advance, NackThread, CheckNackStop,
         ReceiveNothing, TakeLock, PassOver, ReleaseLock, Resend, ReportThread, SendReport,
         ReportWaitEnds, Stop, BeginStop, JoinRtcp, JoinNack, Receiver, ReceiveFeedback,
         Tick, vars
    <3> QED
      BY <1>2, <3>1 DEF FaultsTyped
  <2> QED
    BY <2>1, <2>2
<1> QED
  BY <1>1, <1>2, PTL DEF Spec

(* What the history holds of a frame is in the frame's own slot, where the *)
(* NACK thread looks for it.                                               *)
LEMMA ResendableIsDue ==
  ASSUME Inv, NEW id, Resendable(id)
  PROVE Due(id) # {}
<1>1. PICK k \in DOMAIN slots : \E p \in slots[k] :
              p.id = id /\ nackNow - p.sentAt >= MinResendInterval
  BY DEF Resendable
<1>2. PICK p \in slots[k] : p.id = id /\ nackNow - p.sentAt >= MinResendInterval
  BY <1>1
<1>3. k \in 0..HistoryFrames-1 /\ Slot(p.id) = k /\ p \in HeldPacket
  BY <1>1, <1>2 DEF Inv, HistoryInv
<1>4. p \in Held(id)
  BY <1>2, <1>3 DEF Held
<1>5. ~TooSoon(p)
  <2>1. p.sentAt \in Nat /\ nackNow \in Nat /\ MinResendInterval \in Nat
    BY <1>3, ConstantsTyped DEF HeldPacket, Inv, SpacingInv
  <2> QED
    BY <1>2, <2>1 DEF TooSoon
<1> QED
  BY <1>4, <1>5 DEF Due

(* A feedback less than a byte's range old is understood: its list is all  *)
(* the frames it reports lost, and no other, whatever is sent meanwhile;   *)
(* and the NACK thread leaves none of them out (cast_rtp.rs:302-316,       *)
(* 320-372).                                                               *)
THEOREM FreshFeedbackUnderstood == Spec => NacksUnderstood
<1> DEFINE WholeList ==
             npc = "lock" /\ npc' = "resend" /\ Age < Bytes => todo' = IdsLost
           KeptUp ==
             npc = "resend" => \/ npc' = "resend" /\ todo' = todo
                               \/ DealsWithHead
                               \/ todo = <<>> /\ todo' = <<>>
<1>1. ASSUME Inv, [Next]_vars PROVE WholeList
  <2> SUFFICES ASSUME npc = "lock", npc' = "resend", Age < Bytes
               PROVE todo' = IdsLost
    OBVIOUS
  <2>1. TakeLock
    BY <1>1 DEF Next, Sender, SendTo, SendToFails, Record, Advance, NackThread,
       CheckNackStop, ReceiveNothing, PassOver, ReleaseLock, ResendFails, Resend,
       ReportThread, SendReport, ReportWaitEnds, Stop, BeginStop, JoinRtcp, JoinNack,
       Receiver, ReceiveFeedback, Tick, nackVars, vars
  <2>2. PICK last \in lastSent : todo' = Nacked(last)
    BY <2>1 DEF TakeLock
  <2>3. DOMAIN feedback.lost = 1..Len(feedback.lost)
    BY <1>1 DEF Inv, FeedbackInv
  <2>4. \A i \in DOMAIN feedback.lost : Nacked(last)[i] = IdOf(feedback.lost[i])
    BY <1>1, <2>3, ExpandedRight
  <2>5. Nacked(last) = [i \in DOMAIN feedback.lost |-> Nacked(last)[i]]
    BY DEF Nacked
  <2> QED
    BY <2>2, <2>4, <2>5 DEF IdsLost, IdOf
<1>2. ASSUME Inv, FaultsTyped, [Next]_vars PROVE KeptUp
  <2> SUFFICES ASSUME npc = "resend" PROVE KeptUp
    OBVIOUS
  <2>1. CASE PassOver
    <3>1. /\ npc' = "resend" /\ todo # <<>> /\ todo' = Tail(todo)
          /\ Due(Head(todo)) = {}
      BY <2>1 DEF PassOver
    <3>2. ~Resendable(Head(todo))
      BY <1>2, <3>1, ResendableIsDue
    <3> QED
      BY <3>1, <3>2 DEF DealsWithHead
  <2>2. CASE ResendFails
    BY <1>2, <2>2 DEF ResendFails, DealsWithHead, FaultsTyped
  <2>3. ASSUME NEW p, Resend(p) PROVE KeptUp
    <3>1. /\ npc' = "resend" /\ todo # <<>> /\ todo' = Tail(todo)
          /\ resent' = Append(resent, [id |-> p.id, payload |-> p.payload, at |-> nackNow])
      BY <2>3 DEF Resend
    <3>2. resent \in Seq(SentAgain)
      BY <1>2 DEF Inv, SpacingInv
    <3> DEFINE again == [id |-> p.id, payload |-> p.payload, at |-> nackNow]
    <3> HIDE DEF again
    <3>3. resent' = Append(resent, again)
      BY <3>1 DEF again
    <3>4. Len(resent') > Len(resent)
      BY <3>2, <3>3
    <3> QED
      BY <3>1, <3>4 DEF DealsWithHead
  <2>4. CASE ReleaseLock
    BY <2>4 DEF ReleaseLock
  <2>5. CASE /\ ~PassOver /\ ~ResendFails /\ ~ReleaseLock
             /\ ~\E k \in DOMAIN slots : \E p \in slots[k] : Resend(p)
    <3>1. npc' = "resend" /\ todo' = todo
      BY <1>2, <2>5 DEF Next, Sender, SendTo, SendToFails, Record, Advance, NackThread,
         CheckNackStop, ReceiveNothing, TakeLock, ReportThread, SendReport, ReportWaitEnds,
         Stop, BeginStop, JoinRtcp, JoinNack, Receiver, ReceiveFeedback, Tick, nackVars,
         vars
    <3> QED
      BY <3>1
  <2> QED
    BY <2>1, <2>2, <2>3, <2>4, <2>5
<1>3. Inv /\ FaultsTyped /\ [Next]_vars => [WholeList /\ KeptUp]_vars
  BY <1>1, <1>2
<1> QED
  BY <1>3, Invariance, FaultsCounted, PTL DEF Spec, NacksUnderstood

(* stop() tells each thread to end before it joins it, no thread ends      *)
(* before it is told, and once stop() has returned both are gone and       *)
(* nothing is sent any more, or sent again (cast_rtp.rs:194-220, 241-262,  *)
(* 286-289).                                                               *)
StopInv ==
  /\ spc = "joinRtcp" => stopTx
  /\ spc \in {"joinNack", "stopped"} => stopTx /\ nackStop /\ rtcp = "done"
  /\ spc = "stopped" => npc = "done"
  /\ rtcp = "done" => stopTx
  /\ npc = "done" => nackStop
  /\ nackStop \/ stopTx => spc \in {"joinRtcp", "joinNack", "stopped"}

THEOREM StopIsFinal ==
  Spec => []StopInv /\ [][spc = "stopped" => UNCHANGED <<wire, resent>>]_vars
<1>1. Init => StopInv
  BY DEF Init, StopInv
<1>2. ASSUME StopInv, [Next]_vars
      PROVE StopInv' /\ (spc = "stopped" => UNCHANGED <<wire, resent>>)
  <2> USE <1>2 DEF StopInv, senderVars, historyVars, nackVars, stopVars
  <2>1. CASE SendTo
    BY <2>1 DEF SendTo
  <2>2. CASE SendToFails
    BY <2>2 DEF SendToFails
  <2>3. CASE Record
    BY <2>3 DEF Record
  <2>4. CASE Advance
    BY <2>4 DEF Advance
  <2>5. CASE CheckNackStop \/ ReceiveNothing
    BY <2>5 DEF CheckNackStop, ReceiveNothing
  <2>6. CASE TakeLock
    BY <2>6 DEF TakeLock
  <2>7. CASE PassOver \/ ReleaseLock \/ ResendFails
    BY <2>7 DEF PassOver, ReleaseLock, ResendFails
  <2>8. ASSUME NEW p, Resend(p)
        PROVE StopInv' /\ (spc = "stopped" => UNCHANGED <<wire, resent>>)
    BY <2>8 DEF Resend
  <2>9. CASE ReportThread
    BY <2>9 DEF ReportThread, SendReport, ReportWaitEnds
  <2>10. CASE Stop
    BY <2>10 DEF Stop, BeginStop, JoinRtcp, JoinNack
  <2>11. CASE Receiver
    BY <2>11 DEF Receiver, ReceiveFeedback
  <2>12. CASE Tick \/ UNCHANGED vars
    BY <2>12 DEF Tick, vars
  <2> QED
    BY <2>1, <2>2, <2>3, <2>4, <2>5, <2>6, <2>7, <2>8, <2>9, <2>10, <2>11, <2>12
    DEF Next, Sender, NackThread
<1> QED
  BY <1>1, <1>2, PTL DEF Spec

(* However NACKs repeat, resends of a frame are MIN_RESEND_INTERVAL apart  *)
(* (cast_rtp.rs:306-311).                                                  *)
THEOREM ResendsApart == Spec => []ResendsSpaced
BY Invariance, PTL DEF Inv

-----------------------------------------------------------------------------
(* The window in which the receiver expands an ID, while each ID is used   *)
(* for one frame only.                                                     *)

(* HistoryFrames numbers on, the slot is the same.                         *)
LEMMA SameSlot ==
  ASSUME NEW x \in Int
  PROVE Slot(x + HistoryFrames) = Slot(x)
<1> DEFINE d == x \div HistoryFrames  r == x % HistoryFrames
<1>1. HistoryFrames \in Nat \ {0}
  BY ConstantsTyped
<1>2. d \in Int /\ r \in 0..HistoryFrames-1 /\ x = HistoryFrames * d + r
  BY <1>1, DivMod
<1> HIDE DEF d, r
<1>3. d + 1 \in Int /\ r \in Int /\ 0 <= r /\ r < HistoryFrames /\ x + HistoryFrames \in Int
  BY <1>1, <1>2
<1>4. x + HistoryFrames = HistoryFrames * (d + 1) + r
  BY <1>1, <1>2
<1>5. (x + HistoryFrames) % HistoryFrames = r
  BY <1>1, <1>3, <1>4, ModUnique
<1> QED
  BY <1>5 DEF Slot, r

LEMMA OwnId ==
  ASSUME MaxFrames <= Word, Inv, NEW n \in 1..Len(wire)
  PROVE IdOf(n) = n - 1
<1>1. Len(wire) <= MaxFrames
  BY ConstantsTyped DEF Inv, WireInv, Typed, Tried
<1>2. n - 1 \in Int /\ 0 <= n - 1 /\ n - 1 < Word
  BY <1>1, Counted, ConstantsTyped
<1> QED
  BY <1>2, ConstantsTyped, OwnRemainder DEF IdOf

LEMMA WindowPreserved ==
  ASSUME MaxFrames <= Word, Inv, WindowInv, [Next]_vars
  PROVE WindowInv'
<1> DEFINE Near(p) == \A n \in 1..Recorded' :
                        wire'[n].id = p.id /\ wire'[n].payload = p.payload
                          => Recorded' - n < HistoryFrames
<1>0. /\ \A k \in 0..HistoryFrames-1 : \A p \in slots[k] : \E n \in 1..Recorded : Holds(p, n)
      /\ slots \in [0..HistoryFrames-1 -> SUBSET HeldPacket]
  BY DEF Inv, HistoryInv
<1>1. CASE Record
  <2> DEFINE e == [id |-> frameId, payload |-> Payload, sentAt |-> now]  N == Len(wire)
  <2>1. /\ slots' = [slots EXCEPT ![Slot(frameId)] = {e}] /\ UNCHANGED wire
        /\ UnderWay /\ Recorded = N - 1 /\ Recorded' = N /\ N \in Nat \ {0}
    BY <1>1, Counted DEF Record, UnderWay, Recorded
  <2>2. /\ frameId = IdOf(N) /\ wire[N].payload = Payload /\ e.payload = Payload
    BY <2>1 DEF Inv, WireInv, Payload
  <2>3. Slot(frameId) \in 0..HistoryFrames-1
    BY SlotTyped DEF Inv, Typed
  <2> HIDE DEF e
  <2>4. Near(e)
    <3> SUFFICES ASSUME NEW n \in 1..N, wire[n].payload = wire[N].payload
                 PROVE N - n < HistoryFrames
      BY <2>1, <2>2
    <3>1. n = N
      BY <2>1, PayloadsDiffer
    <3> QED
      BY <2>1, <3>1, ConstantsTyped
  <2>5. ASSUME NEW k \in 0..HistoryFrames-1, k # Slot(frameId), NEW p \in slots[k]
        PROVE Near(p)
    <3> SUFFICES ASSUME NEW n \in 1..N, wire[n].id = p.id, wire[n].payload = p.payload
                 PROVE N - n < HistoryFrames
      BY <2>1
    <3>1. PICK m \in 1..Recorded : Holds(p, m)
      BY <1>0
    <3>2. m \in 1..N /\ m = n
      BY <2>1, <3>1, PayloadsDiffer DEF Holds
    <3>3. n \in 1..Recorded /\ Recorded - n < HistoryFrames
      BY <3>1, <3>2 DEF WindowInv
    <3>4. N - n # HistoryFrames
      <4> SUFFICES ASSUME N - n = HistoryFrames PROVE FALSE
        OBVIOUS
      <4>1. IdOf(n) = n - 1 /\ IdOf(N) = N - 1
        BY <2>1, OwnId
      <4>2. p.id = n - 1
        BY <4>1 DEF Inv, WireInv
      <4>3. n - 1 \in Int /\ N - 1 = (n - 1) + HistoryFrames
        BY <2>1, ConstantsTyped
      <4>4. Slot(n - 1) = Slot(N - 1)
        BY <4>3, SameSlot
      <4>5. Slot(p.id) = k
        BY DEF Inv, HistoryInv
      <4> QED
        BY <2>2, <2>5, <4>1, <4>2, <4>4, <4>5
    <3> QED
      BY <2>1, <3>3, <3>4, ConstantsTyped
  <2> HIDE DEF Near
  <2>6. ASSUME NEW k \in 0..HistoryFrames-1, NEW p \in slots'[k]
        PROVE Near(p)
    <3>1. CASE k = Slot(frameId)
      BY <1>0, <2>1, <2>3, <2>4, <2>6, <3>1
    <3>2. CASE k # Slot(frameId)
      BY <1>0, <2>1, <2>3, <2>5, <2>6, <3>2
    <3> QED
      BY <3>1, <3>2
  <2> QED
    BY <2>6 DEF Near, WindowInv, Holds
<1>2. ASSUME Recorded' = Recorded, NEW p, NEW k \in 0..HistoryFrames-1, NEW q \in slots[k],
             p.id = q.id, p.payload = q.payload
      PROVE Near(p)
  <2> SUFFICES ASSUME NEW n \in 1..Recorded, wire'[n].id = q.id, wire'[n].payload = q.payload
               PROVE Recorded - n < HistoryFrames
    BY <1>2
  <2>1. wire'[n] = wire[n]
    BY WireGrows, Counted
  <2> QED
    BY <2>1 DEF WindowInv, Holds
<1>3. CASE \E k \in DOMAIN slots : \E q \in slots[k] : Resend(q)
  <2>0. PICK k \in DOMAIN slots : \E q \in slots[k] : Resend(q)
    BY <1>3
  <2>1. PICK q \in slots[k] : Resend(q)
    BY <2>0
  <2> DEFINE id == Head(todo)  e == [q EXCEPT !.sentAt = nackNow]
  <2>2. /\ q \in slots[Slot(id)]
        /\ slots' = [slots EXCEPT ![Slot(id)] = {e}] /\ todo # <<>>
    BY <2>1 DEF Resend, Due, Held
  <2>3. Slot(id) \in 0..HistoryFrames-1
    BY <2>2, Dropped, SlotTyped DEF Inv, Typed
  <2>4. q \in HeldPacket
    BY <1>0, <2>2, <2>3
  <2>5. e.id = q.id /\ e.payload = q.payload
    BY <2>4 DEF HeldPacket
  <2>6. Recorded' = Recorded
    BY <2>1 DEF Resend, senderVars, Recorded
  <2> HIDE DEF e, id, Near
  <2>7. ASSUME NEW j \in 0..HistoryFrames-1, NEW p \in slots'[j]
        PROVE Near(p)
    <3>1. CASE j = Slot(id)
      <4>1. p = e
        BY <1>0, <2>2, <2>3, <2>7, <3>1
      <4> QED
        BY <1>2, <2>2, <2>3, <2>5, <2>6, <4>1
    <3>2. CASE j # Slot(id)
      <4>1. p \in slots[j]
        BY <1>0, <2>2, <2>3, <2>7, <3>2
      <4> QED
        BY <1>2, <2>6, <4>1
    <3> QED
      BY <3>1, <3>2
  <2> QED
    BY <2>7 DEF Near, WindowInv, Holds
<1>4. ASSUME UNCHANGED slots, Recorded' = Recorded
      PROVE WindowInv'
  <2> HIDE DEF Near
  <2>1. \A k \in 0..HistoryFrames-1 : \A p \in slots'[k] : Near(p)
    BY <1>2, <1>4
  <2> QED
    BY <2>1 DEF Near, WindowInv, Holds
<1>5. CASE SendTo
  <2>1. Recorded' = Recorded
    BY <1>5, Counted, Appended DEF SendTo, Recorded, Inv, Typed
  <2> QED
    BY <1>4, <1>5, <2>1 DEF SendTo, historyVars
<1>6. CASE SendToFails \/ Advance
  BY <1>4, <1>6 DEF SendToFails, Advance, historyVars, Recorded
<1>7. CASE ~Sender /\ ~\E k \in DOMAIN slots : \E q \in slots[k] : Resend(q)
  <2>1. UNCHANGED slots
    BY <1>7 DEF Next, NackThread, CheckNackStop, ReceiveNothing, TakeLock, PassOver,
       ReleaseLock, ResendFails, ReportThread, SendReport, ReportWaitEnds, Stop, BeginStop,
       JoinRtcp, JoinNack, Receiver, ReceiveFeedback, Tick, historyVars, vars
  <2> QED
    BY <1>4, <1>7, <2>1, OthersLeaveWire
<1> QED
  BY <1>1, <1>3, <1>5, <1>6, <1>7 DEF Sender

LEMMA WindowHolds ==
  ASSUME MaxFrames <= Word
  PROVE Spec => [](Inv /\ WindowInv)
<1>1. Init => WindowInv
  <2>1. Init => Recorded = 0
    BY DEF Init, Recorded
  <2> QED
    BY <2>1 DEF WindowInv
<1>2. Inv /\ WindowInv /\ [Next]_vars => WindowInv'
  BY WindowPreserved
<1> QED
  BY <1>1, <1>2, Invariance, PTL DEF Spec

(* What a step adds to the resends is a frame that was sent, of the window *)
(* in which the receiver expands its ID, and one reported lost.            *)
LEMMA ResendIsOfWindow ==
  ASSUME MaxFrames <= Word, Inv, WindowInv, [Next]_vars, resent' # resent
  PROVE AskedForInWindow(Last(resent'))
<1>1. \E k \in DOMAIN slots : \E q \in slots[k] : Resend(q)
  BY DEF Next, Sender, SendTo, SendToFails, Record, Advance, NackThread,
     CheckNackStop, ReceiveNothing, TakeLock, PassOver, ReleaseLock, ResendFails,
     ReportThread, SendReport, ReportWaitEnds, Stop, BeginStop, JoinRtcp, JoinNack, Receiver,
     ReceiveFeedback, Tick, vars
<1>2. PICK k \in DOMAIN slots : \E q \in slots[k] : Resend(q)
  BY <1>1
<1>3. PICK q \in slots[k] : Resend(q)
  BY <1>2
<1> DEFINE id == Head(todo)  r == [id |-> q.id, payload |-> q.payload, at |-> nackNow]
<1>4. /\ q \in slots[Slot(id)] /\ q.id = id /\ npc = "resend" /\ todo # <<>>
      /\ resent' = Append(resent, r)
  BY <1>3 DEF Resend, Due, Held
<1>5. /\ id = todo[1] /\ id \in FrameId /\ Len(todo) \in Nat \ {0}
  BY <1>4, Dropped DEF Inv, Typed
<1>6. Slot(id) \in 0..HistoryFrames-1
  BY <1>5, SlotTyped
<1>7. q \in HeldPacket /\ nackNow \in Nat
  BY <1>4, <1>6 DEF Inv, HistoryInv, SpacingInv
<1>8. r \in SentAgain /\ r.id = q.id /\ r.payload = q.payload
  BY <1>7 DEF HeldPacket, SentAgain
<1> HIDE DEF r, id
<1>9. Last(resent') = r
  <2>1. resent \in Seq(SentAgain)
    BY DEF Inv, SpacingInv
  <2>2. Len(resent') = Len(resent) + 1 /\ resent'[Len(resent) + 1] = r
    BY <1>4, <1>8, <2>1, Appended
  <2> QED
    BY <2>2 DEF Last
<1>10. PICK n \in 1..Recorded : Holds(q, n)
  BY <1>4, <1>6 DEF Inv, HistoryInv
<1>11. n \in 1..Len(wire) /\ DOMAIN wire = 1..Len(wire) /\ wire[n] \in SentFrame
  BY Counted DEF Inv, Typed
<1>12. wire[n] = [id |-> r.id, payload |-> r.payload]
  BY <1>8, <1>10, <1>11 DEF Holds, SentFrame
<1>13. Len(wire) - n < ExpandWindow
  <2>1. Recorded - n < HistoryFrames
    BY <1>4, <1>6, <1>10 DEF WindowInv
  <2>2. Len(wire) \in Nat /\ Len(wire) <= Recorded + 1 /\ Recorded \in Nat
    BY Counted DEF Recorded
  <2> QED
    BY <2>1, <2>2, ConstantsTyped
<1>14. ASSUME Age < Bytes
       PROVE n \in ToSet(feedback.lost)
  <2> DEFINE j == Len(feedback.lost) - Len(todo) + 1
  <2>1. feedback.lost \in Seq(1..Len(wire)) /\ Len(todo) <= Len(feedback.lost)
    BY <1>4 DEF Inv, FeedbackInv, TodoInv
  <2>2. Len(feedback.lost) \in Nat /\ DOMAIN feedback.lost = 1..Len(feedback.lost)
    BY <2>1
  <2>3. j \in 1..Len(feedback.lost)
    BY <1>5, <2>1, <2>2
  <2>4. id = IdOf(feedback.lost[j])
    <3>1. 1 \in 1..Len(todo)
      BY <1>5
    <3> QED
      BY <1>4, <1>5, <1>14, <3>1 DEF Inv, TodoInv
  <2>5. feedback.lost[j] \in 1..Len(wire)
    BY <2>1, <2>3
  <2>6. id = IdOf(n)
    BY <1>4, <1>10, <1>11 DEF Holds, Inv, WireInv
  <2>7. IdOf(n) = n - 1 /\ IdOf(feedback.lost[j]) = feedback.lost[j] - 1
    BY <1>11, <2>5, OwnId
  <2>8. n = feedback.lost[j]
    <3>1. n - 1 = feedback.lost[j] - 1
      BY <2>4, <2>6, <2>7, Zenon
    <3>3. n \in Int /\ feedback.lost[j] \in Int
      BY <1>11, <2>5, Counted
    <3>2. \A x, y \in Int : x - 1 = y - 1 => x = y
      OBVIOUS
    <3> QED
      BY <3>1, <3>2, <3>3, Zenon
  <2> QED
    BY <2>2, <2>3, <2>8 DEF ToSet
<1> QED
  BY <1>9, <1>11, <1>12, <1>13, <1>14 DEF AskedForInWindow

(* Whatever the feedback, a resend is a frame as it was sent, reported     *)
(* lost if the feedback is recent, and of the window in which the receiver *)
(* expands its ID (cast_rtp.rs:24), as long as frame_id has not wrapped    *)
(* around, which takes 2^32 frames: over a year of 10 ms frames.           *)
THEOREM ResendsFaithful ==
  ASSUME MaxFrames <= Word
  PROVE Spec => ResendsWhatWasSent
<1>1. Inv /\ WindowInv /\ [Next]_vars
        => [resent' # resent => AskedForInWindow(Last(resent'))]_vars
  BY ResendIsOfWindow
<1> QED
  BY <1>1, WindowHolds, PTL DEF Spec, ResendsWhatWasSent

-----------------------------------------------------------------------------
(* The parser of the feedback (RtcpFeedback), over the same frame IDs.  Its *)
(* inductive invariant compares what it keeps with the newest of the       *)
(* feedbacks it has looked at so far, taken by their places before they are *)
(* reduced to a word.                                                      *)

(* The packets that have been looked at; the ID, not yet reduced to a      *)
(* word, of a packet's checkpoint; the losses of its first n fields; what  *)
(* the parser keeps.                                                       *)
Seen == IF pc = "fields" THEN at + 1 ELSE at
Place(i) == CheckpointOf(compound[i])
LostUpTo(i, n) ==
  {LostId(compound[i], compound[i].losses[j].frame) :
     j \in {j \in 1..n : NamesPacket0(compound[i].losses[j])}}
Kept == {nacked[i] : i \in DOMAIN nacked}

ParserTyped ==
  /\ compound \in Seq(Packet) /\ reference \in FrameId
  /\ at \in 0..Len(compound) /\ Seen <= Len(compound)
  /\ pc \in {"packet", "fields", "returned"}
  /\ nacked \in Seq(FrameId)

NoFaultSeen ==
  \A i \in 1..Seen :
    /\ compound[i].kind \notin Malformed
    /\ i \in Newest => ~compound[i].overstates

NothingTaken ==
  /\ \A i \in 1..Seen : i \notin Ours
  /\ checkpoint = {} /\ nacked = <<>> /\ pc = "packet"

(* The last of the newest feedbacks so far is packet l.                    *)
IsNewestSeen(l) ==
  /\ l \in Newest /\ l <= Seen
  /\ \A i \in Ours : i <= Seen => Place(i) <= Place(l)
  /\ \A i \in Newest : i <= Seen => i <= l

HasTaken(l) ==
  /\ IsNewestSeen(l)
  /\ checkpoint = {Place(l) % Word}
  /\ pc = "packet" => Kept = LostUpTo(l, Len(compound[l].losses))
  /\ pc = "fields" => /\ l = at + 1 /\ taken \in 0..Len(compound[l].losses)
                      /\ Kept = LostUpTo(l, taken)

Progress == NoFaultSeen /\ (NothingTaken \/ \E l \in Ours : HasTaken(l))

ParserInv ==
  /\ ParserTyped
  /\ pc # "returned" => Progress
  /\ ReturnsWhatIsMeant

-----------------------------------------------------------------------------
(* What a packet holds, by its kind.                                       *)
LEMMA PacketFields ==
  ASSUME NEW p \in Packet
  PROVE /\ p.kind \in Malformed \cup NotOurs \cup {"feedback"}
        /\ p.kind = "feedback" =>
             /\ p.checkpoint \in Byte /\ p.losses \in Seq(LossField)
             /\ p.overstates \in BOOLEAN
<1>1. CASE p \in [kind : Malformed \cup NotOurs]
  <2>1. p.kind \in Malformed \cup NotOurs
    BY <1>1
  <2>2. p.kind # "feedback"
    BY <2>1 DEF Malformed, NotOurs
  <2> QED
    BY <2>1, <2>2
<1>2. CASE p \in Feedback
  <2>1. p.kind = "feedback" /\ p.checkpoint \in Checkpoints /\ p.overstates \in BOOLEAN
    BY <1>2 DEF Feedback
  <2>2. p.losses \in LossLists \cup {<<>>}
    BY <1>2 DEF Feedback
  <2>3. p.checkpoint \in Byte /\ LossLists \subseteq Seq(LossField)
    BY <2>1, FeedbackAssumption
  <2>4. <<>> \in Seq(LossField)
    OBVIOUS
  <2>5. p.losses \in Seq(LossField)
    BY <2>2, <2>3, <2>4, Zenon
  <2> QED
    BY <2>1, <2>3, <2>5
<1> QED
  BY <1>1, <1>2 DEF Packet

(* The byte of a checkpoint stands for an ID up to the last one sent, and  *)
(* the parser reads it as that ID.                                         *)
LEMMA CheckpointRead ==
  ASSUME reference \in FrameId, NEW p, p.checkpoint \in Byte
  PROVE /\ CheckpointOf(p) \in reference - Bytes + 1 .. reference
        /\ CheckpointId(reference, p.checkpoint) = CheckpointOf(p) % Word
<1> DEFINE x == CheckpointOf(p)
<1>1. reference \in Int /\ Bytes \in Nat \ {0}
  BY IdAssumption DEF FrameId
<1>2. \E y \in reference - Bytes + 1 .. reference : LowByte(y) = p.checkpoint
  BY <1>1, WindowHasByte
<1>3. x \in reference - Bytes + 1 .. reference /\ LowByte(x) = p.checkpoint
  BY <1>2 DEF CheckpointOf
<1> HIDE DEF x
<1>4. x \in Int /\ x <= reference /\ reference - x < Bytes
  BY <1>1, <1>3
<1>5. ExpandLe(reference, LowByte(x)) = x % Word
  BY <1>1, <1>4, StepBack
<1>6. CheckpointId(reference, p.checkpoint) = x % Word
  BY <1>3, <1>5 DEF CheckpointId
<1> QED
  BY <1>3, <1>6 DEF x

(* The byte of a loss field stands for one of the IDs past the checkpoint, *)
(* and the parser reads it as that ID.                                     *)
LEMMA LossRead ==
  ASSUME reference \in FrameId, NEW p, p.checkpoint \in Byte, NEW b \in Byte
  PROVE /\ LostId(p, b) \in FrameId
        /\ NackedId(CheckpointOf(p) % Word, b) = LostId(p, b)
<1> DEFINE c == CheckpointOf(p)
           P(x) == x \in c + 1 .. c + Bytes /\ LowByte(x) = b
           y == CHOOSE x \in c + 1 .. c + Bytes : LowByte(x) = b
<1>1. Bytes \in Nat \ {0} /\ Word \in Nat \ {0} /\ reference \in Int
  BY IdAssumption DEF FrameId
<1>2. c \in Int
  BY <1>1, CheckpointRead
<1> HIDE DEF c
<1>3. c + Bytes \in Int /\ (c + Bytes) - Bytes + 1 = c + 1
  BY <1>1, <1>2
<1>4. \E x \in c + 1 .. c + Bytes : LowByte(x) = b
  <2>1. \E x \in (c + Bytes) - Bytes + 1 .. c + Bytes : LowByte(x) = b
    BY <1>3, WindowHasByte
  <2> QED
    BY <1>3, <2>1
<1>5. y \in c + 1 .. c + Bytes /\ LowByte(y) = b
  BY <1>4
<1>6. LostId(p, b) = y % Word
  BY DEF LostId, c
<1> HIDE DEF y
<1>7. y \in Int /\ c < y /\ y <= c + Bytes
  BY <1>1, <1>2, <1>5
<1>8. NackedId(c % Word, LowByte(y)) = y % Word
  BY <1>2, <1>7, NackedIdReads
<1>9. y % Word \in FrameId
  BY <1>1, <1>7, DivMod DEF FrameId
<1> QED
  BY <1>5, <1>6, <1>8, <1>9 DEF c

(* The compound and the reference do not change, nor what is said of them. *)
LEMMA Frozen ==
  ASSUME UNCHANGED <<compound, reference>>
  PROVE /\ \A i : Place(i)' = Place(i)
        /\ \A i, n : LostUpTo(i, n)' = LostUpTo(i, n)
        /\ Ours' = Ours
        /\ Newest' = Newest
        /\ Meant' = Meant
<1>1. \A p : CheckpointOf(p)' = CheckpointOf(p)
  BY DEF CheckpointOf
<1>2. \A p, b : LostId(p, b)' = LostId(p, b)
  BY <1>1 DEF LostId
<1>3. \A i : Place(i)' = Place(i)
  BY <1>1 DEF Place
<1>4. \A i, n : LostUpTo(i, n)' = LostUpTo(i, n)
  BY <1>2 DEF LostUpTo
<1>5. Ours' = Ours
  BY DEF Ours
<1>6. Newest' = Newest
  BY <1>1, <1>5 DEF Newest
<1>7. Void' <=> Void
  BY <1>6 DEF Void
<1>8. Meant' = Meant
  BY <1>2, <1>6, <1>7 DEF Meant
<1> QED
  BY <1>3, <1>4, <1>5, <1>6, <1>8

(* A compound with a fault in it means nothing.                            *)
LEMMA VoidMeansNothing ==
  ASSUME Void
  PROVE Meant = {}
BY DEF Meant

(* A feedback of ours has its fields, and its checkpoint is read as the one *)
(* frame in a byte's range up to the last sent that has its low byte.      *)
LEMMA OursFields ==
  ASSUME ParserTyped, NEW i \in Ours
  PROVE /\ i \in 1..Len(compound) /\ compound[i] \in Packet
        /\ compound[i].checkpoint \in Byte
        /\ compound[i].losses \in Seq(LossField)
        /\ Place(i) \in reference - Bytes + 1 .. reference /\ Place(i) \in Int
        /\ CheckpointId(reference, compound[i].checkpoint) = Place(i) % Word
<1>1. i \in 1..Len(compound) /\ compound[i].kind = "feedback"
  BY DEF Ours, ParserTyped
<1>2. compound[i] \in Packet
  BY <1>1 DEF ParserTyped
<1>3. compound[i].checkpoint \in Byte /\ compound[i].losses \in Seq(LossField)
  BY <1>1, <1>2, PacketFields
<1>4. reference \in FrameId /\ reference \in Int /\ Bytes \in Nat
  BY IdAssumption DEF ParserTyped, FrameId
<1>5. /\ CheckpointOf(compound[i]) \in reference - Bytes + 1 .. reference
      /\ CheckpointId(reference, compound[i].checkpoint)
           = CheckpointOf(compound[i]) % Word
  BY <1>3, <1>4, CheckpointRead
<1> QED
  BY <1>1, <1>2, <1>3, <1>4, <1>5 DEF Place

(* Whether the parser passes a feedback over depends on whether the last   *)
(* one it took has a later checkpoint.                                     *)
LEMMA StaleMeans ==
  ASSUME ParserTyped, NEW k \in Ours, k = at + 1,
         NEW l \in Ours, checkpoint = {Place(l) % Word}
  PROVE Stale <=> Place(k) < Place(l)
<1>1. /\ Place(k) \in reference - Bytes + 1 .. reference /\ Place(k) \in Int
      /\ Place(l) \in reference - Bytes + 1 .. reference /\ Place(l) \in Int
      /\ reference \in Int /\ Bytes \in Nat
  BY OursFields, IdAssumption DEF ParserTyped, FrameId
<1>2. Place(k) - Place(l) < Bytes /\ Place(l) - Place(k) < Bytes
  BY <1>1, SMT
<1>3. ck = Place(k) % Word
  BY OursFields DEF ck, packet
<1>4. Stale <=> Older(Place(k) % Word, Place(l) % Word)
  BY <1>3 DEF Stale
<1>5. Older(Place(k) % Word, Place(l) % Word) <=> Place(k) < Place(l)
  BY <1>1, <1>2, OlderCompares
<1> QED
  BY <1>4, <1>5

(* A feedback that is taken is the newest so far.                          *)
LEMMA TakenIsNewest ==
  ASSUME ParserTyped, Progress, pc = "packet",
         NEW k \in Ours, k = at + 1, ~Stale
  PROVE /\ k \in Newest
        /\ \A i \in Ours : i <= k => Place(i) <= Place(k)
<1>1. \A i \in Ours : i \in Nat /\ i >= 1 /\ Place(i) \in Int
  BY OursFields
<1>2. Seen = at /\ at \in Nat
  BY DEF Seen, ParserTyped
<1>3. \A i \in Ours : i <= k => Place(i) <= Place(k)
  <2> SUFFICES ASSUME NEW i \in Ours, i <= k
               PROVE Place(i) <= Place(k)
    OBVIOUS
  <2>1. CASE NothingTaken
    <3>1. i \notin 1..at
      BY <1>2, <2>1 DEF NothingTaken
    <3>2. i = k
      BY <1>1, <1>2, <3>1
    <3> QED
      BY <1>1, <3>2
  <2>2. ASSUME NEW l \in Ours, HasTaken(l)
        PROVE Place(i) <= Place(k)
    <3>1. checkpoint = {Place(l) % Word} /\ IsNewestSeen(l)
      BY <2>2 DEF HasTaken
    <3>2. ~(Place(k) < Place(l))
      BY <3>1, StaleMeans
    <3>3. i <= at => Place(i) <= Place(l)
      BY <1>2, <3>1 DEF IsNewestSeen
    <3>4. i <= at \/ i = k
      BY <1>1, <1>2
    <3>5. Place(i) \in Int /\ Place(k) \in Int /\ Place(l) \in Int
      BY <1>1
    <3> QED
      BY <3>2, <3>3, <3>4, <3>5
  <2> QED
    BY <2>1, <2>2 DEF Progress
<1>4. \A j \in Ours : j < k =>
        CheckpointOf(compound[j]) <= CheckpointOf(compound[k])
  <2>1. \A j \in Ours : j < k => j <= k
    BY <1>1
  <2> QED
    BY <1>3, <2>1 DEF Place
<1> QED
  BY <1>3, <1>4 DEF Newest

-----------------------------------------------------------------------------
(* One lemma per action.                                                   *)

(* The packet looked at.                                                   *)
LEMMA PacketAt ==
  ASSUME ParserTyped, Parsing
  PROVE /\ at \in Nat /\ at + 1 \in 1..Len(compound) /\ at + 1 \in DOMAIN compound
        /\ packet = compound[at + 1] /\ compound[at + 1] \in Packet
        /\ pc = "packet" /\ Seen = at
        /\ compound[at + 1].kind = "feedback" => at + 1 \in Ours
        /\ at + 1 \in Ours => compound[at + 1].kind = "feedback"
BY DEF ParserTyped, Parsing, packet, Seen, Ours

(* What voids the compound ends the parsing with nothing kept.             *)
LEMMA VoidReturns ==
  ASSUME ParserTyped, Parsing, Void,
         UNCHANGED <<compound, reference, at>>, nacked' = <<>>, pc' = "returned"
  PROVE ParserInv'
<1>1. Meant' = {}
  BY Frozen, VoidMeansNothing
<1>2. Kept' = {}
  BY DEF Kept
<1>3. ReturnsWhatIsMeant'
  BY <1>1, <1>2 DEF ReturnsWhatIsMeant, Kept
<1>4. ParserTyped'
  <2>1. nacked' \in Seq(FrameId)
    OBVIOUS
  <2> QED
    BY <2>1, PacketAt DEF ParserTyped, Seen
<1> QED
  BY <1>3, <1>4 DEF ParserInv

(* A malformed packet is a fault of the compound, which is meant to give   *)
(* nothing.                                                                *)
LEMMA RejectKeepsInv ==
  ASSUME ParserInv, RejectMalformed
  PROVE ParserInv'
<1>1. Parsing /\ ParserTyped
  BY DEF ParserInv, RejectMalformed
<1>2. Void
  BY <1>1, PacketAt DEF RejectMalformed, Void
<1> QED
  BY <1>1, <1>2, VoidReturns DEF RejectMalformed

(* A feedback that is passed over is older than the one taken.             *)
LEMMA PassedOverIsOlder ==
  ASSUME ParserTyped, Progress, Parsing,
         at + 1 \in Ours, Stale
  PROVE \E l \in Ours : HasTaken(l) /\ Place(at + 1) < Place(l)
<1>1. checkpoint # {}
  BY DEF Stale
<1>2. PICK l \in Ours : HasTaken(l)
  BY <1>1 DEF Progress, NothingTaken
<1> QED
  BY <1>2, StaleMeans DEF HasTaken

(* A packet that is not ours, or is stale, leaves the newest the newest.   *)
LEMMA SkipKeepsInv ==
  ASSUME ParserInv, SkipPacket
  PROVE ParserInv'
<1> DEFINE k == at + 1
<1>1. /\ ParserTyped /\ Parsing /\ Progress
      /\ pc = "packet" /\ pc' = "packet"
  BY DEF ParserInv, SkipPacket, Parsing
<1>2. /\ at \in Nat /\ k \in 1..Len(compound) /\ packet = compound[k]
      /\ compound[k] \in Packet /\ Seen = at
      /\ k \in Ours <=> compound[k].kind = "feedback"
  BY <1>1, PacketAt
<1>3. /\ UNCHANGED <<compound, reference, taken, checkpoint, nacked>>
      /\ at' = k /\ Seen' = k
  BY <1>1 DEF SkipPacket, Seen
<1>4. compound[k].kind \in NotOurs \/ (k \in Ours /\ Stale)
  BY <1>2 DEF SkipPacket
<1>5. compound[k].kind \notin Malformed
  BY <1>2, <1>4 DEF Malformed, NotOurs
<1>6. k \in Ours =>
        \E l \in Ours : HasTaken(l) /\ Place(k) < Place(l)
  <2>1. k \in Ours => Stale
    BY <1>2, <1>4 DEF NotOurs
  <2> QED
    BY <1>1, <2>1, PassedOverIsOlder
<1>7. \A i \in Ours : i \in Nat /\ i >= 1 /\ Place(i) \in Int
  BY <1>1, OursFields
<1> HIDE DEF k
<1>8. \A l \in Ours : HasTaken(l) => l \in Nat /\ l < k
  BY <1>2, <1>7 DEF HasTaken, IsNewestSeen, k
<1>9. k \notin Newest
  <2> SUFFICES ASSUME k \in Newest PROVE FALSE
    OBVIOUS
  <2>1. k \in Ours
    BY DEF Newest
  <2>2. PICK l \in Ours : HasTaken(l) /\ Place(k) < Place(l)
    BY <1>6, <2>1
  <2>3. Place(l) <= Place(k)
    BY <1>8, <2>2 DEF Newest, Place
  <2> QED
    BY <1>7, <2>1, <2>2, <2>3
<1>10. ParserTyped'
  BY <1>1, <1>2, <1>3 DEF ParserTyped
<1>11. NoFaultSeen'
  <2>1. \A i \in 1..k : i \in 1..at \/ i = k
    BY <1>2 DEF k
  <2> QED
    BY <1>1, <1>2, <1>3, <1>5, <1>9, <2>1, Frozen DEF Progress, NoFaultSeen
<1>12. CASE NothingTaken
  <2>1. k \notin Ours
    BY <1>6, <1>12 DEF HasTaken, NothingTaken
  <2>2. \A i \in 1..k : i \in 1..at \/ i = k
    BY <1>2 DEF k
  <2>3. NothingTaken'
    BY <1>1, <1>2, <1>3, <1>12, <2>1, <2>2, Frozen DEF NothingTaken
  <2> QED
    BY <1>1, <1>10, <1>11, <2>3 DEF ParserInv, Progress, ReturnsWhatIsMeant
<1>13. ASSUME NEW l \in Ours, HasTaken(l)
       PROVE ParserInv'
  <2>1. k \in Ours => Place(k) <= Place(l)
    <3>1. k \in Ours => Stale
      BY <1>2, <1>4 DEF NotOurs
    <3>2. k \in Ours => Place(k) < Place(l)
      BY <1>1, <1>13, <3>1, StaleMeans DEF HasTaken, k
    <3> QED
      BY <1>7, <3>2
  <2>2. \A i \in Nat : i >= 1 /\ i <= k => i <= at \/ i = k
    BY <1>2 DEF k
  <2>3. l \in Newest /\ l <= k
    BY <1>8, <1>2, <1>13 DEF HasTaken, IsNewestSeen, k
  <2>4. \A i \in Ours : i <= k => Place(i) <= Place(l)
    BY <1>2, <1>7, <1>13, <2>1, <2>2 DEF HasTaken, IsNewestSeen
  <2>5. \A i \in Newest : i <= k => i <= l
    <3>1. \A i \in Newest : i \in Ours
      BY DEF Newest
    <3> QED
      BY <1>2, <1>7, <1>9, <1>13, <2>2, <3>1 DEF HasTaken, IsNewestSeen
  <2>6. IsNewestSeen(l)'
    BY <1>3, <2>3, <2>4, <2>5, Frozen DEF IsNewestSeen
  <2>7. Kept' = Kept
    BY <1>3 DEF Kept
  <2>8. HasTaken(l)'
    BY <1>1, <1>3, <1>13, <2>6, <2>7, Frozen DEF HasTaken
  <2>9. Progress'
    BY <1>3, <1>11, <2>8, Frozen DEF Progress
  <2> QED
    BY <1>1, <1>10, <2>9 DEF ParserInv, ReturnsWhatIsMeant
<1> QED
  BY <1>1, <1>12, <1>13 DEF Progress

(* What holds of the newest feedback seen holds as long as no other is.    *)
LEMMA NewestSeenKept ==
  ASSUME UNCHANGED <<compound, reference>>, Seen' = Seen, NEW l
  PROVE IsNewestSeen(l)' <=> IsNewestSeen(l)
BY Frozen DEF IsNewestSeen

(* A feedback that is not stale becomes the newest, with no field read yet; *)
(* one that overstates is a fault of the compound.                         *)
LEMMA TakeFeedbackKeepsInv ==
  ASSUME ParserInv, TakeFeedback
  PROVE ParserInv'
<1>1. ParserTyped /\ Parsing /\ Progress /\ ~Stale
  BY DEF ParserInv, TakeFeedback, Parsing
<1>0. PICK k \in Nat : k = at + 1
  BY <1>1 DEF ParserTyped
<1>2. /\ at \in Nat /\ k \in 1..Len(compound) /\ k \in DOMAIN compound
      /\ packet = compound[k] /\ pc = "packet" /\ Seen = at
      /\ k \in Ours /\ compound[k].kind = "feedback"
  BY <1>0, <1>1, PacketAt DEF TakeFeedback
<1>3. /\ k \in Newest
      /\ \A i \in Ours : i <= k => Place(i) <= Place(k)
  BY <1>0, <1>1, <1>2, TakenIsNewest
<1>4. CASE compound[k].overstates
  <2>1. Void
    BY <1>3, <1>4 DEF Void
  <2>2. /\ UNCHANGED <<compound, reference, at>>
        /\ nacked' = <<>> /\ pc' = "returned"
    BY <1>2, <1>4 DEF TakeFeedback
  <2> QED
    BY <1>1, <2>1, <2>2, VoidReturns
<1>5. CASE ~compound[k].overstates
  <2>1. /\ UNCHANGED <<compound, reference, at>>
        /\ nacked' = <<>> /\ pc' = "fields" /\ taken' = 0
        /\ checkpoint' = {ck}
    BY <1>2, <1>5 DEF TakeFeedback, Cleared
  <2>2. ck = Place(k) % Word /\ compound[k].losses \in Seq(LossField)
    BY <1>0, <1>1, <1>2, OursFields DEF ck
  <2>3. Seen' = k
    BY <1>0, <2>1 DEF Seen
  <2>4. ParserTyped'
    <3>1. nacked' \in Seq(FrameId)
      BY <2>1
    <3> QED
      BY <1>1, <1>2, <2>1, <2>3, <3>1 DEF ParserTyped
  <2>5. NoFaultSeen'
    <3>1. \A i \in 1..k : i \in 1..at \/ i = k
      BY <1>0, <1>2
    <3>2. compound[k].kind \notin Malformed
      BY <1>2 DEF Malformed
    <3> QED
      BY <1>1, <1>2, <1>5, <2>1, <2>3, <3>1, <3>2, Frozen DEF Progress, NoFaultSeen
  <2>6. IsNewestSeen(k)'
    <3>1. k \in Nat
      BY <1>0
    <3> QED
      BY <1>3, <2>1, <2>3, <3>1, Frozen DEF IsNewestSeen
  <2>7. Kept' = {} /\ LostUpTo(k, 0) = {}
    BY <2>1 DEF Kept, LostUpTo
  <2>8. HasTaken(k)'
    <3>1. k = at' + 1 /\ pc' = "fields" /\ taken' = 0
      BY <1>0, <2>1
    <3>2. 0 \in 0..Len(compound[k].losses)
      BY <2>2
    <3>3. Kept' = LostUpTo(k, 0)' /\ Place(k)' = Place(k) /\ compound' = compound
      BY <2>1, <2>7, Frozen
    <3>4. checkpoint' = {Place(k) % Word}
      BY <2>1, <2>2
    <3>5. LostUpTo(k, taken)' = LostUpTo(k, 0)'
      BY <3>1 DEF LostUpTo
    <3> QED
      BY <2>6, <3>1, <3>2, <3>3, <3>4, <3>5 DEF HasTaken
  <2>9. Progress'
    <3> QED
      BY <1>2, <2>1, <2>5, <2>8, Frozen DEF Progress
  <2> QED
    BY <2>1, <2>4, <2>9 DEF ParserInv, ReturnsWhatIsMeant
<1> QED
  BY <1>4, <1>5

(* The losses read so far, with one field more.                            *)
LEMMA LostByOneMore ==
  ASSUME NEW i, NEW n \in Nat
  PROVE LostUpTo(i, n + 1)
          = LostUpTo(i, n) \cup
            (IF NamesPacket0(compound[i].losses[n + 1])
               THEN {LostId(compound[i], compound[i].losses[n + 1].frame)} ELSE {})
<1>1. \A j : j \in 1..n+1 <=> j \in 1..n \/ j = n + 1
  OBVIOUS
<1> QED
  BY <1>1 DEF LostUpTo

(* A loss field adds the loss it names, if it names packet 0 or the frame. *)
LEMMA TakeFieldKeepsInv ==
  ASSUME ParserInv, TakeField
  PROVE ParserInv'
<1> DEFINE field == packet.losses[taken + 1]
<1>1. ParserTyped /\ Progress /\ pc = "fields"
  BY DEF ParserInv, TakeField
<1>2. PICK l \in Ours : HasTaken(l)
  BY <1>1 DEF Progress, NothingTaken
<1>3. /\ l = at + 1 /\ packet = compound[l] /\ taken \in 0..Len(compound[l].losses)
      /\ taken < Len(compound[l].losses) /\ Kept = LostUpTo(l, taken)
      /\ IsNewestSeen(l) /\ checkpoint = {Place(l) % Word}
  BY <1>1, <1>2 DEF HasTaken, TakeField, packet
<1>4. /\ UNCHANGED <<compound, reference, at, pc, checkpoint>> /\ taken' = taken + 1
      /\ nacked' = IF NamesPacket0(field)
                     THEN Append(nacked, NackedId(ck, field.frame))
                     ELSE nacked
  BY DEF TakeField
<1>5. /\ compound[l].checkpoint \in Byte /\ compound[l].losses \in Seq(LossField)
      /\ ck = Place(l) % Word
  BY <1>1, <1>3, OursFields DEF ck
<1>6. taken \in Nat /\ taken + 1 \in 1..Len(compound[l].losses)
  BY <1>3, <1>5
<1>7. field.frame \in Byte
  <2>1. field \in LossField
    BY <1>3, <1>5, <1>6
  <2> QED
    BY <2>1 DEF LossField
<1> HIDE DEF field
<1>8. /\ NackedId(ck, field.frame) = LostId(compound[l], field.frame)
      /\ LostId(compound[l], field.frame) \in FrameId
  BY <1>1, <1>5, <1>7, LossRead DEF Place, ParserTyped
<1>9. Kept' = Kept \cup (IF NamesPacket0(field)
                           THEN {LostId(compound[l], field.frame)} ELSE {})
  <2>1. CASE ~NamesPacket0(field)
    BY <1>4, <2>1 DEF Kept
  <2>2. CASE NamesPacket0(field)
    <3> DEFINE n == Len(nacked)  id == LostId(compound[l], field.frame)
    <3>1. nacked \in Seq(FrameId) /\ n \in Nat /\ DOMAIN nacked = 1..n
      BY <1>1 DEF ParserTyped
    <3>2. nacked' = Append(nacked, id)
      BY <1>4, <1>8, <2>2
    <3> HIDE DEF id
    <3>3. /\ DOMAIN nacked' = 1..n+1 /\ nacked'[n + 1] = id
          /\ \A i \in 1..n : nacked'[i] = nacked[i]
      BY <3>1, <3>2
    <3> HIDE DEF n
    <3>4. \A i : i \in 1..n+1 <=> i \in 1..n \/ i = n + 1
      BY <3>1
    <3>5. Kept' = Kept \cup {id}
      BY <3>1, <3>3, <3>4 DEF Kept
    <3> QED
      BY <2>2, <3>5 DEF id
  <2> QED
    BY <2>1, <2>2
<1>10. Kept' = LostUpTo(l, taken + 1)
  BY <1>3, <1>6, <1>9, LostByOneMore DEF field
<1>11. ParserTyped'
  <2>1. nacked' \in Seq(FrameId)
    BY <1>1, <1>4, <1>8 DEF ParserTyped
  <2> QED
    BY <1>1, <1>4, <2>1 DEF ParserTyped, Seen
<1>12. Seen' = Seen
  BY <1>4 DEF Seen
<1>13. HasTaken(l)'
  <2>1. IsNewestSeen(l)'
    BY <1>3, <1>4, <1>12, NewestSeenKept
  <2>2. taken' \in 0..Len(compound[l].losses) /\ pc' = "fields" /\ l = at' + 1
    BY <1>1, <1>3, <1>4, <1>5, <1>6
  <2>3. LostUpTo(l, taken)' = LostUpTo(l, taken + 1)
    BY <1>4, Frozen DEF LostUpTo
  <2>4. checkpoint' = {Place(l)' % Word} /\ compound' = compound
    BY <1>3, <1>4, Frozen
  <2> QED
    BY <1>10, <2>1, <2>2, <2>3, <2>4 DEF HasTaken
<1>14. NoFaultSeen'
  BY <1>1, <1>4, <1>12, Frozen DEF Progress, NoFaultSeen
<1>15. Progress'
  BY <1>4, <1>13, <1>14, Frozen DEF Progress
<1> QED
  BY <1>1, <1>4, <1>11, <1>15 DEF ParserInv, ReturnsWhatIsMeant

(* After the last field the losses kept are those of the whole packet.     *)
LEMMA FieldsDoneKeepsInv ==
  ASSUME ParserInv, FieldsDone
  PROVE ParserInv'
<1>1. ParserTyped /\ Progress /\ pc = "fields"
  BY DEF ParserInv, FieldsDone
<1>2. PICK l \in Ours : HasTaken(l)
  BY <1>1 DEF Progress, NothingTaken
<1>3. /\ l = at + 1 /\ taken = Len(compound[l].losses) /\ Kept = LostUpTo(l, taken)
      /\ IsNewestSeen(l) /\ checkpoint = {Place(l) % Word}
  BY <1>1, <1>2 DEF HasTaken, FieldsDone, packet
<1>4. /\ UNCHANGED <<compound, reference, taken, checkpoint, nacked>>
      /\ at' = at + 1 /\ pc' = "packet"
  BY DEF FieldsDone
<1>5. Seen' = Seen /\ Seen = at + 1
  BY <1>1, <1>4 DEF Seen
<1>6. ParserTyped'
  BY <1>1, <1>4, <1>5 DEF ParserTyped
<1>7. HasTaken(l)'
  <2>1. IsNewestSeen(l)'
    BY <1>3, <1>4, <1>5, NewestSeenKept
  <2>2. Kept' = Kept /\ LostUpTo(l, taken) = LostUpTo(l, Len(compound[l].losses))
    BY <1>3, <1>4 DEF Kept
  <2>3. LostUpTo(l, Len(compound[l].losses))' = LostUpTo(l, Len(compound[l].losses))
    BY <1>4, Frozen DEF LostUpTo
  <2>4. checkpoint' = {Place(l)' % Word}
    BY <1>3, <1>4, Frozen
  <2> QED
    BY <1>3, <1>4, <2>1, <2>2, <2>3, <2>4 DEF HasTaken
<1>8. NoFaultSeen'
  BY <1>1, <1>4, <1>5, Frozen DEF Progress, NoFaultSeen
<1>9. Progress'
  BY <1>4, <1>7, <1>8, Frozen DEF Progress
<1> QED
  BY <1>4, <1>6, <1>9 DEF ParserInv, ReturnsWhatIsMeant

(* At the end of the compound, what is kept is what it means.              *)
LEMMA ReturnKeepsInv ==
  ASSUME ParserInv, Return
  PROVE ParserInv'
<1>1. ParserTyped /\ Progress /\ pc = "packet" /\ at = Len(compound) /\ Seen = at
  BY DEF ParserInv, Return, Seen
<1>2. UNCHANGED <<compound, reference, at, taken, checkpoint, nacked>> /\ pc' = "returned"
  BY DEF Return
<1>3. \A i \in Ours : i \in 1..Seen /\ i <= Seen
  BY <1>1, OursFields
<1>4. \A i \in Newest : i \in Ours
  BY DEF Newest
<1>5. ~Void
  <2>1. DOMAIN compound = 1..Seen
    BY <1>1 DEF ParserTyped
  <2> QED
    BY <1>1, <1>3, <1>4, <2>1 DEF Void, Progress, NoFaultSeen
<1>6. Kept = Meant
  <2>1. CASE NothingTaken
    <3>1. Newest = {}
      BY <1>3, <1>4, <2>1 DEF NothingTaken
    <3> QED
      BY <2>1, <3>1 DEF NothingTaken, Kept, Meant
  <2>2. ASSUME NEW l \in Ours, HasTaken(l)
        PROVE Kept = Meant
    <3> DEFINE last == CHOOSE i \in Newest : \A j \in Newest : j <= i
    <3>1. l \in Newest /\ \A i \in Newest : i <= l
      BY <1>3, <1>4, <2>2 DEF HasTaken, IsNewestSeen
    <3>2. last \in Newest /\ \A i \in Newest : i <= last
      BY <3>1
    <3> HIDE DEF last
    <3>3. l \in Int /\ last \in Int
      BY <1>1, <1>4, <3>2, OursFields
    <3>4. last = l
      BY <3>1, <3>2, <3>3
    <3>5. Kept = LostUpTo(l, Len(compound[l].losses))
      BY <1>1, <2>2 DEF HasTaken
    <3>6. DOMAIN compound[l].losses = 1..Len(compound[l].losses)
      BY <1>1, OursFields
    <3> QED
      BY <1>5, <3>1, <3>4, <3>5, <3>6 DEF Meant, LostUpTo, last
  <2> QED
    BY <1>1, <2>1, <2>2 DEF Progress
<1>7. Kept' = Meant'
  <2>1. Kept' = Kept
    BY <1>2 DEF Kept
  <2> QED
    BY <1>2, <1>6, <2>1, Frozen
<1>8. ParserTyped'
  BY <1>1, <1>2 DEF ParserTyped, Seen
<1> QED
  BY <1>2, <1>7, <1>8 DEF ParserInv, ReturnsWhatIsMeant, Kept

(* Before the first packet nothing is kept and no fault is seen.           *)
LEMMA ParserInitInv ==
  ASSUME ParserInit
  PROVE ParserInv
<1>1. PICK n \in 0..MaxPackets : compound \in [1..n -> Packet]
  BY DEF ParserInit
<1>2. n \in Nat /\ MaxPackets \in Nat
  BY FeedbackAssumption
<1>3. compound \in Seq(Packet) /\ Len(compound) = n
  BY <1>1, <1>2
<1>4. reference \in FrameId
  BY FeedbackAssumption DEF ParserInit
<1>5. at = 0 /\ pc = "packet" /\ checkpoint = {} /\ nacked = <<>> /\ Seen = 0
  BY DEF ParserInit, Seen
<1>6. nacked \in Seq(FrameId)
  BY <1>5
<1>7. ParserTyped
  BY <1>2, <1>3, <1>4, <1>5, <1>6 DEF ParserTyped
<1> QED
  BY <1>5, <1>7 DEF ParserInv, Progress, NoFaultSeen, NothingTaken, ReturnsWhatIsMeant

(* A step of something else changes nothing of it.                         *)
LEMMA ParserStutters ==
  ASSUME ParserInv, UNCHANGED parserVars
  PROVE ParserInv'
<1>1. /\ UNCHANGED <<compound, reference, at, pc, taken, checkpoint, nacked>>
      /\ Seen' = Seen
  BY DEF parserVars, Seen
<1>2. Kept' = Kept
  BY <1>1 DEF Kept
<1>3. \A l : HasTaken(l)' <=> HasTaken(l)
  <2>1. \A l : IsNewestSeen(l)' <=> IsNewestSeen(l)
    BY <1>1, NewestSeenKept
  <2>2. \A l : LostUpTo(l, taken)' = LostUpTo(l, taken)
    BY <1>1, Frozen DEF LostUpTo
  <2>3. \A l : LostUpTo(l, Len(compound[l].losses))' = LostUpTo(l, Len(compound[l].losses))
    BY <1>1, Frozen DEF LostUpTo
  <2> QED
    BY <1>1, <1>2, <2>1, <2>2, <2>3, Frozen DEF HasTaken
<1>4. ParserTyped' <=> ParserTyped
  BY <1>1 DEF ParserTyped
<1>5. Progress' <=> Progress
  BY <1>1, <1>3, Frozen DEF Progress, NoFaultSeen, NothingTaken
<1>6. ReturnsWhatIsMeant' <=> ReturnsWhatIsMeant
  BY <1>1, Frozen DEF ReturnsWhatIsMeant
<1> QED
  BY <1>1, <1>4, <1>5, <1>6 DEF ParserInv

(* The parser returns the losses of the newest feedback in the compound    *)
(* and of no other, each the ID after its checkpoint that the byte stands  *)
(* for, and nothing from a compound with a fault in it, whatever the ID    *)
(* last sent, the packets and their number (cast_rtp.rs:325-373).          *)
THEOREM ParserFaithful == ParserSpec => []ReturnsWhatIsMeant
<1>1. ParserInit => ParserInv
  BY ParserInitInv
<1>2. ParserInv /\ [ParserNext]_parserVars => ParserInv'
  BY RejectKeepsInv, SkipKeepsInv, TakeFeedbackKeepsInv, TakeFieldKeepsInv,
     FieldsDoneKeepsInv, ReturnKeepsInv, ParserStutters DEF ParserNext
<1>3. ParserInv => ReturnsWhatIsMeant
  BY DEF ParserInv
<1> QED
  BY <1>1, <1>2, <1>3, PTL DEF ParserSpec

(* Read as a compound of one packet, what reached the NACK thread of       *)
(* CastRtp.                                                                *)
AsPacket ==
  [kind |-> "feedback", checkpoint |-> ByteOf(feedback.checkpoint), overstates |-> FALSE,
   losses |-> [i \in DOMAIN feedback.lost |->
                 [frame |-> ByteOf(feedback.lost[i]), packet |-> "first"]]]

(* What travels of a frame's ID is a byte.                                 *)
LEMMA ByteOfIsByte ==
  ASSUME NEW n \in Nat
  PROVE ByteOf(n) \in Byte
<1>1. Bytes \in Nat \ {0} /\ Word \in Nat \ {0} /\ n - 1 \in Int
  BY IdAssumption
<1>2. (n - 1) % Word \in Int
  BY <1>1, DivMod
<1> QED
  BY <1>1, <1>2, DivMod DEF ByteOf, LowByte, Byte

(* The list that the NACK thread goes through in CastRtp is what the       *)
(* parser returns of that feedback, recent or not (cast_rtp.rs:303).       *)
THEOREM FeedbackReadAsParsed ==
  ASSUME reference \in FrameId, feedback.checkpoint \in Nat, feedback.lost \in Seq(Nat),
         compound = <<AsPacket>>
  PROVE Meant = ToSet(Nacked(reference))
<1> DEFINE base == CheckpointId(reference, ByteOf(feedback.checkpoint))
           last == CHOOSE i \in Newest : \A j \in Newest : j <= i
<1>1. /\ compound[1] = AsPacket /\ DOMAIN compound = {1}
      /\ AsPacket.kind = "feedback" /\ AsPacket.overstates = FALSE
      /\ AsPacket.checkpoint = ByteOf(feedback.checkpoint)
      /\ DOMAIN AsPacket.losses = DOMAIN feedback.lost
      /\ \A i \in DOMAIN feedback.lost :
           /\ AsPacket.losses[i].frame = ByteOf(feedback.lost[i])
           /\ AsPacket.losses[i].packet = "first"
  BY DEF AsPacket
<1>2. Ours = {1} /\ Newest = {1}
  <2>1. Ours = {1}
    BY <1>1 DEF Ours
  <2> QED
    BY <2>1 DEF Newest
<1>3. ~Void
  BY <1>1, <1>2 DEF Void, Malformed
<1>4. last = 1
  BY <1>2
<1> HIDE DEF last
<1>5. Meant = {LostId(AsPacket, ByteOf(feedback.lost[i])) :
                        i \in DOMAIN feedback.lost}
  <2>1. Meant =
          {LostId(AsPacket, AsPacket.losses[i].frame) :
             i \in {i \in DOMAIN AsPacket.losses : NamesPacket0(AsPacket.losses[i])}}
    <3>1. Meant =
            {LostId(compound[last], compound[last].losses[i].frame) :
               i \in {i \in DOMAIN compound[last].losses :
                       NamesPacket0(compound[last].losses[i])}}
      <4>1. Newest # {}
        BY <1>2
      <4> QED
        BY <1>3, <4>1, Zenon DEF Meant, last
    <3>2. compound[last] = AsPacket
      BY <1>1, <1>4
    <3> QED
      BY <3>1, <3>2, Zenon
  <2>2. {i \in DOMAIN AsPacket.losses : NamesPacket0(AsPacket.losses[i])}
          = DOMAIN feedback.lost
    BY <1>1 DEF NamesPacket0
  <2> QED
    BY <1>1, <2>1, <2>2
<1>6. ASSUME NEW i \in DOMAIN feedback.lost
      PROVE LostId(AsPacket, ByteOf(feedback.lost[i])) = Nacked(reference)[i]
  <2>1. feedback.lost[i] \in Nat
    OBVIOUS
  <2>2. AsPacket.checkpoint \in Byte /\ ByteOf(feedback.lost[i]) \in Byte
    BY <1>1, <2>1, ByteOfIsByte
  <2>3. base = CheckpointOf(AsPacket) % Word
    BY <1>1, <2>2, CheckpointRead
  <2>4. NackedId(base, ByteOf(feedback.lost[i]))
          = LostId(AsPacket, ByteOf(feedback.lost[i]))
    BY <2>2, <2>3, LossRead
  <2> QED
    BY <2>4 DEF Nacked
<1>7. DOMAIN Nacked(reference) = DOMAIN feedback.lost
  BY DEF Nacked
<1> QED
  BY <1>5, <1>6, <1>7 DEF ToSet
=============================================================================
