------------------------- MODULE CaptureLoop_proofs -------------------------
(***************************************************************************)
(* Machine-checked proofs about CaptureLoop, for every ring, threshold and *)
(* batch size that the assertion of run() admits.                          *)
(***************************************************************************)
EXTENDS CaptureLoop, TLAPS

-----------------------------------------------------------------------------
(* The inductive invariant.                                                *)

(* The consumer stays behind the producer, and reserved is in bounds.      *)
RingOrdered ==
  /\ taken <= written
  /\ written + inflight <= MaxWritten
  /\ inflight <= MaxQuantum

(* What the snapshot still says of the ring: the backlog has only grown    *)
(* since, by nothing if no batch was under way, and by less than a quantum *)
(* if there was one.                                                       *)
SnapshotHolds ==
  /\ overlaps = 0 => inflight = 0
  /\ pc = "branch" =>
       /\ avail <= written - taken
       /\ overlaps = 0 => written - taken = avail
       /\ overlaps = 1 => written + inflight - taken <= avail + MaxQuantum

(* The outage began with the first of the failures, all of which are past. *)
OutageOldest ==
  /\ frameTime <= now
  /\ \A f \in failed : f <= frameTime
  /\ \A s \in outage, f \in failed : s <= f
  /\ \A s, t \in outage : s = t

Inv == TypeOK /\ RingOrdered /\ SnapshotHolds /\ OutageOldest /\ OutageIsFatal

-----------------------------------------------------------------------------
LEMMA ConstantsTyped ==
  /\ Capacity \in Nat /\ FrameSize \in Nat /\ FrameSize > 0 /\ Threshold \in Nat
  /\ Target \in Nat /\ MaxQuantum \in Nat /\ MaxWritten \in Nat /\ MaxTime \in Nat
  /\ OutageFatal \in Nat /\ OutageFatal > 0
BY CaptureAssumption

LEMMA InitInv == Init => Inv
<1> SUFFICES ASSUME Init PROVE Inv
  OBVIOUS
<1>0. /\ written = 0 /\ taken = 0 /\ inflight = 0 /\ avail = 0 /\ overlaps = 0
      /\ now = 0 /\ frameTime = 0 /\ failed = {} /\ outage = {}
      /\ pc = "start" /\ closed = FALSE /\ stop = FALSE
  BY DEF Init, Ring!Init
<1>1. TypeOK
  <2>1. {written, taken, inflight, avail} \subseteq 0..MaxWritten
    BY <1>0, ConstantsTyped
  <2>2. {now, frameTime} \subseteq 0..MaxTime
    BY <1>0, ConstantsTyped
  <2>3. {closed, stop} \subseteq BOOLEAN
    BY <1>0, Zenon
  <2>4. overlaps \in 0..2
    BY <1>0
  <2> QED
    BY <1>0, <2>1, <2>2, <2>3, <2>4, Zenon DEF TypeOK
<1>2. RingOrdered /\ SnapshotHolds
  BY <1>0, ConstantsTyped DEF RingOrdered, SnapshotHolds
<1>3. OutageOldest /\ OutageIsFatal
  BY <1>0 DEF OutageOldest, OutageIsFatal
<1> QED
  BY <1>1, <1>2, <1>3 DEF Inv

(* A step that leaves the ring and the snapshot, or the outage, alone      *)
(* keeps what is known of them.                                            *)
LEMMA RingPartKept ==
  ASSUME Inv, UNCHANGED <<written, taken, inflight, avail, overlaps>>, pc' # "branch"
  PROVE (RingOrdered /\ SnapshotHolds)'
BY DEF Inv, RingOrdered, SnapshotHolds

LEMMA OutagePartKept ==
  ASSUME Inv, UNCHANGED <<frameTime, failed, outage>>, now' >= now, now' \in Nat,
         (pc = "outage") <=> (pc' = "outage")
  PROVE (OutageOldest /\ OutageIsFatal)'
<1>1. now \in Nat /\ frameTime \in Nat
  BY ConstantsTyped DEF Inv, TypeOK
<1> QED
  BY <1>1 DEF Inv, OutageOldest, OutageIsFatal

-----------------------------------------------------------------------------
(* Every step keeps the invariant.                                         *)

LEMMA TypePreserved == Inv /\ [Next]_vars => TypeOK'
<1> SUFFICES ASSUME Inv, [Next]_vars PROVE TypeOK'
  OBVIOUS
<1> USE ConstantsTyped DEF Inv, RingOrdered, TypeOK
<1>1. ASSUME NEW n \in Batches, ReserveBatch(n) PROVE TypeOK'
  BY <1>1, CaptureAssumption DEF ReserveBatch, Least, loopVars, Returns
<1>2. CASE PublishBatch
  BY <1>2 DEF PublishBatch, Ring!Publish, loopVars, Returns
<1>3. CASE CloseRing
  BY <1>3 DEF CloseRing, Ring!Close, loopVars, Returns
<1>4. CASE RequestStop
  BY <1>4 DEF RequestStop, loopVars, Returns
<1>5. CASE Tick
  BY <1>5 DEF Tick, loopVars, Returns
<1>6. CASE LoadAvail("start", "skip") \/ LoadAvail("avail", "branch")
  <2>1. avail' \in 0..MaxWritten /\ overlaps' \in 0..2
    BY <1>6 DEF LoadAvail
  <2>2. pc' \in {"skip", "branch"}
    BY <1>6 DEF LoadAvail
  <2>3. UNCHANGED <<written, taken, closed, inflight, frameTime, outage, now, stop, failed>>
    BY <1>6 DEF LoadAvail, ringQuiet
  <2> QED
    BY <2>1, <2>2, <2>3
<1>7. CASE SkipBacklog \/ Drain
  <2>1. PICK n \in 0..(written - taken) :
          /\ taken' = taken + n /\ pc' = "stop?"
          /\ UNCHANGED <<written, closed, inflight, avail, frameTime, outage, now, stop,
                         overlaps, failed>>
    BY <1>7 DEF SkipBacklog, Drain, SkipFrames, Ring!Skip
  <2>2. taken + n \in 0..MaxWritten
    BY <2>1
  <2> QED
    <3>1. {written, taken, inflight, avail}' \subseteq 0..MaxWritten
      BY <2>1, <2>2
    <3> QED
      BY <2>1, <3>1, Zenon
<1>8. CASE CheckStop \/ CheckClosed \/ SleepForMore \/ ReadRefused \/ EncodeFails
  BY <1>8 DEF CheckStop, CheckClosed, SleepForMore, ReadRefused, EncodeFails, ringQuiet,
              Returns
<1>9. CASE ReadFrame
  BY <1>9 DEF ReadFrame, Ring!Take, Returns
<1>10. CASE SendSucceeds
  BY <1>10 DEF SendSucceeds, AfterSuccess, ringQuiet, Returns
<1>11. CASE SendFails
  BY <1>11 DEF SendFails, AfterFailure, ringQuiet, Returns
<1>12. CASE UNCHANGED vars
  BY <1>12 DEF vars, loopVars
<1> QED
  BY <1>1, <1>2, <1>3, <1>4, <1>5, <1>6, <1>7, <1>8, <1>9, <1>10, <1>11, <1>12
  DEF Next, Loop, Environment, Returned

LEMMA RingPreserved == Inv /\ [Next]_vars => (RingOrdered /\ SnapshotHolds)'
<1> SUFFICES ASSUME Inv, [Next]_vars PROVE (RingOrdered /\ SnapshotHolds)'
  OBVIOUS
<1>0. /\ written \in Nat /\ taken \in Nat /\ inflight \in Nat /\ avail \in Nat
      /\ overlaps \in 0..2
  BY ConstantsTyped DEF Inv, TypeOK
<1> USE ConstantsTyped DEF RingOrdered, SnapshotHolds
<1>1. ASSUME NEW n \in Batches, ReserveBatch(n) PROVE (RingOrdered /\ SnapshotHolds)'
  BY <1>0, <1>1, CaptureAssumption DEF ReserveBatch, Least, loopVars, Inv
<1>2. CASE PublishBatch
  BY <1>0, <1>2 DEF PublishBatch, Ring!Publish, loopVars, Inv
<1>3. CASE CloseRing \/ RequestStop \/ Tick \/ UNCHANGED vars
  BY <1>0, <1>3 DEF CloseRing, Ring!Close, RequestStop, Tick, loopVars, vars, Inv
<1>4. CASE LoadAvail("start", "skip") \/ LoadAvail("avail", "branch")
  BY <1>0, <1>4 DEF LoadAvail, ringQuiet, Inv
<1>5. CASE SkipBacklog \/ Drain
  BY <1>0, <1>5 DEF SkipBacklog, Drain, SkipFrames, Ring!Skip, Inv
<1>6. CASE CheckStop \/ CheckClosed \/ SleepForMore \/ ReadRefused \/ EncodeFails
  BY <1>0, <1>6, RingPartKept
  DEF CheckStop, CheckClosed, SleepForMore, ReadRefused, EncodeFails, ringQuiet
<1>7. CASE ReadFrame
  BY <1>0, <1>7 DEF ReadFrame, Ring!Take, Inv
<1>8. CASE SendSucceeds \/ SendFails
  BY <1>0, <1>8, RingPartKept DEF SendSucceeds, SendFails, ringQuiet
<1> QED
  BY <1>1, <1>2, <1>3, <1>4, <1>5, <1>6, <1>7, <1>8 DEF Next, Loop, Environment, Returned

LEMMA OutagePreserved == Inv /\ [Next]_vars => (OutageOldest /\ OutageIsFatal)'
<1> SUFFICES ASSUME Inv, [Next]_vars PROVE (OutageOldest /\ OutageIsFatal)'
  OBVIOUS
<1>0. /\ now \in Nat /\ frameTime \in Nat /\ failed \subseteq Nat /\ outage \subseteq failed
      /\ outage = {} <=> failed = {}
  BY ConstantsTyped DEF Inv, TypeOK
<1>1. CASE Environment \/ Returned \/ UNCHANGED vars
  BY <1>0, <1>1, OutagePartKept
  DEF Environment, Returned, ReserveBatch, PublishBatch, CloseRing, RequestStop, Tick,
      loopVars, vars
<1>2. CASE \/ LoadAvail("start", "skip") \/ LoadAvail("avail", "branch")
           \/ SkipBacklog \/ Drain \/ CheckStop \/ CheckClosed \/ SleepForMore
           \/ ReadRefused \/ EncodeFails
  BY <1>0, <1>2, OutagePartKept
  DEF LoadAvail, SkipBacklog, Drain, SkipFrames, CheckStop, CheckClosed, SleepForMore,
      ReadRefused, EncodeFails
<1>3. CASE ReadFrame
  BY <1>0, <1>3 DEF ReadFrame, Inv, OutageOldest, OutageIsFatal
<1>4. CASE SendSucceeds
  BY <1>0, <1>4 DEF SendSucceeds, AfterSuccess, Inv, OutageOldest, OutageIsFatal
<1>5. CASE SendFails
  <2>1. OutageOldest'
    BY <1>0, <1>5 DEF SendFails, AfterFailure, Inv, OutageOldest
  <2>2. PICK s \in outage' : /\ s \in failed' /\ frameTime \in failed'
                             /\ \A f \in failed' : s <= f /\ f <= frameTime
    BY <1>0, <1>5 DEF SendFails, AfterFailure, Inv, OutageOldest
  <2>3. pc' = "outage" <=> frameTime - s >= OutageFatal
    BY <1>5, <2>1, <2>2 DEF SendFails, Fatal, OutageOldest
  <2>4. failed' \subseteq Nat
    BY <1>0, <1>5 DEF SendFails
  <2>5. OutageIsFatal'
    BY <1>0, <2>2, <2>3, <2>4, ConstantsTyped DEF OutageIsFatal
  <2> QED
    BY <2>1, <2>5
<1> QED
  BY <1>1, <1>2, <1>3, <1>4, <1>5 DEF Next, Loop

LEMMA Invariance == Spec => []Inv
<1>1. Inv /\ [Next]_vars => Inv'
  BY TypePreserved, RingPreserved, OutagePreserved DEF Inv
<1> QED
  BY <1>1, InitInv, PTL DEF Spec

-----------------------------------------------------------------------------
(* The theorems.                                                           *)

(* The variables keep their types, and an outage under way began with a    *)
(* frame that failed.                                                      *)
THEOREM TypeCorrect == Spec => []TypeOK
BY Invariance, PTL DEF Inv

(* The run ends in an outage exactly when frames have failed over          *)
(* OUTAGE_FATAL with none sent in between (capture.rs:103-131).            *)
THEOREM OutageFatalExactly == Spec => []OutageIsFatal
BY Invariance, PTL DEF Inv

(* Whatever the producer does between the snapshot and the skip, a drain   *)
(* leaves the newest DRAIN_TARGET_MS in the ring, and no more unless a     *)
(* batch was under way since the snapshot (capture.rs:69-73).              *)
THEOREM DrainLeavesTarget == Spec => DrainKeepsTarget
<1>1. ASSUME Inv, Next, pc = "branch", pc' = "stop?", taken' # taken
      PROVE /\ written' - taken' >= Target
            /\ overlaps = 0 => written' - taken' = Target
  <2>1. /\ written \in Nat /\ taken \in Nat /\ avail \in Nat /\ avail <= written - taken
        /\ overlaps = 0 => written - taken = avail
    BY <1>1, ConstantsTyped DEF Inv, TypeOK, SnapshotHolds
  <2>2. Drain
    BY <1>1 DEF Next, Loop, Environment, Returned, ReserveBatch, PublishBatch, CloseRing,
      RequestStop, Tick, loopVars, vars, LoadAvail, SkipBacklog, SkipFrames, CheckStop,
      CheckClosed, SleepForMore, ReadRefused, ReadFrame, EncodeFails, SendSucceeds,
      SendFails, ringQuiet, Ring!Publish, Ring!Close
  <2>3. taken' = taken + Excess /\ written' = written
    BY <2>1, <2>2, ConstantsTyped, CaptureAssumption
    DEF Drain, MustDrain, Excess, SkipFrames, Ring!Skip, Least
  <2> QED
    BY <2>1, <2>3, ConstantsTyped DEF Excess
<1>2. Inv /\ [Next]_vars =>
        [pc = "branch" /\ pc' = "stop?" /\ taken' # taken
           => /\ written' - taken' >= Target
              /\ overlaps = 0 => written' - taken' = Target]_vars
  BY <1>1
<1> QED
  BY <1>2, Invariance, PTL DEF Spec, DrainKeepsTarget

(* With the headroom that run() asserts, a read is refused only if two     *)
(* batches were under way since the snapshot (capture.rs:15, 39, 89).      *)
THEOREM HeadroomSuffices == Spec => OneBatchNeverLaps
<1>1. ASSUME Inv, Next, pc = "branch", pc' = "stop?", taken' = taken, avail >= FrameSize
      PROVE overlaps >= 2
  <2>1. /\ written \in Nat /\ taken \in Nat /\ avail \in Nat /\ inflight \in Nat
        /\ avail <= written - taken /\ overlaps \in 0..2
    BY <1>1, ConstantsTyped DEF Inv, TypeOK, SnapshotHolds
  <2>2. Drain \/ ReadRefused
    BY <1>1, <2>1, ConstantsTyped
    DEF Next, Loop, Environment, Returned, ReserveBatch, PublishBatch, CloseRing,
      RequestStop, Tick, loopVars, vars, LoadAvail, SkipBacklog, SkipFrames, CheckStop,
      CheckClosed, SleepForMore, ReadFrame, EncodeFails, SendSucceeds, SendFails,
      Running, Returns
  <2>3. ~Drain
    <3> SUFFICES ASSUME Drain PROVE FALSE
      OBVIOUS
    <3>1. Excess \in Nat /\ Excess > 0 /\ Excess <= written - taken
      BY <2>1, ConstantsTyped, CaptureAssumption DEF Drain, MustDrain, Excess
    <3>2. taken' = taken + Excess
      BY <2>1, <3>1 DEF Drain, SkipFrames, Ring!Skip, Least
    <3> QED
      BY <1>1, <2>1, <3>1, <3>2
  <2>4. avail <= Threshold /\ written + inflight - taken > Capacity
    BY <2>1, <2>2, <2>3, ConstantsTyped DEF ReadRefused, MustDrain, Lapped
  <2>5. overlaps # 0 /\ overlaps # 1
    BY <1>1, <2>1, <2>4, ConstantsTyped, CaptureAssumption DEF Inv, SnapshotHolds
  <2> QED
    BY <2>1, <2>5
<1>2. Inv /\ [Next]_vars =>
        [pc = "branch" /\ pc' = "stop?" /\ taken' = taken /\ avail >= FrameSize
           => overlaps >= 2]_vars
  BY <1>1
<1> QED
  BY <1>2, Invariance, PTL DEF Spec, OneBatchNeverLaps
=============================================================================
