---------------------------- MODULE CaptureLoop ----------------------------
(***************************************************************************)
(* capture.rs: the loop that keeps the ring's backlog short, encodes one   *)
(* frame at a time and sends it, giving up when the socket has failed for  *)
(* too long.  The ring is the abstract LossyRing, refined by AudioRing,    *)
(* with one thing added: a batch is reserved before it is published, and a *)
(* read that the reservation laps is refused.                              *)
(***************************************************************************)
EXTENDS Integers

CONSTANTS
  Capacity,      (* ring.capacity_frames(), in samples per channel          *)
  FrameSize,     (* OPUS_SAMPLES_PER_FRAME                                  *)
  Threshold,     (* frames_for_ms(DRAIN_THRESHOLD_MS)                       *)
  Target,        (* frames_for_ms(DRAIN_TARGET_MS)                          *)
  MaxQuantum,    (* MAX_EXPECTED_QUANTUM                                    *)
  Batches,       (* sizes of the batches the audio server delivers          *)
  OutageFatal,   (* OUTAGE_FATAL, in ticks of the clock                     *)
  MaxWritten,    (* bound: samples per channel delivered in a behaviour     *)
  MaxTime        (* bound: ticks of the clock                               *)

(* run() asserts the headroom; the audio server keeps its quantum.         *)
ASSUME CaptureAssumption ==
  /\ {Capacity, FrameSize, Threshold, Target, OutageFatal} \subseteq Nat \ {0}
  /\ {MaxQuantum, MaxWritten, MaxTime} \subseteq Nat
  /\ Threshold + FrameSize + MaxQuantum <= Capacity
  /\ FrameSize <= Threshold /\ Target <= Threshold
  /\ Batches \subseteq 1..MaxQuantum

VARIABLES
  written,       (* the ring: published ...                                 *)
  taken,         (*   ... and consumed indices ...                          *)
  delivered,     (*   ... the buffer pcm of the last successful read ...    *)
  closed,        (*   ... and the flag                                      *)
  inflight,      (* size of the batch reserved and not yet published        *)
  pc,            (* where run() is                                          *)
  avail,         (* its local avail                                         *)
  now,           (* the clock                                               *)
  frameTime,     (* its local now, read after read_frames                   *)
  outage,        (* its Option<Outage>: none, or the time it began          *)
  stop,          (* the flag shared with the signal handler and monitor     *)
  overlaps,      (* batches under way at some point since the last snapshot *)
  failed         (* frameTimes of the frames that failed since one was sent *)

Ring == INSTANCE LossyRing WITH Channels <- 1, Requests <- {FrameSize}

loopVars == <<pc, avail, frameTime, outage>>
vars == <<written, taken, delivered, closed, inflight, loopVars, now, stop,
          overlaps, failed>>

Least(a, b) == IF a <= b THEN a ELSE b
Running == pc \notin {"stopped", "closed", "outage", "encoder"}

-----------------------------------------------------------------------------
(* The audio server's thread, the threads that stop or close, and time,    *)
(* for as long as run() does.                                              *)

ReserveBatch(n) ==
  /\ Running /\ inflight = 0 /\ written + n <= MaxWritten
  /\ inflight' = n
  /\ overlaps' = Least(overlaps + 1, 2)
  /\ UNCHANGED <<written, taken, delivered, closed, loopVars, now, stop, failed>>

PublishBatch ==
  /\ Running /\ inflight > 0
  /\ Ring!Publish(inflight)
  /\ inflight' = 0
  /\ UNCHANGED <<loopVars, now, stop, overlaps, failed>>

CloseRing ==
  /\ Running /\ ~closed /\ Ring!Close
  /\ UNCHANGED <<inflight, loopVars, now, stop, overlaps, failed>>

RequestStop ==
  /\ Running /\ ~stop /\ stop' = TRUE
  /\ UNCHANGED <<written, taken, delivered, closed, inflight, loopVars, now,
                 overlaps, failed>>

Tick ==
  /\ Running /\ now < MaxTime
  /\ now' = now + 1
  /\ UNCHANGED <<written, taken, delivered, closed, inflight, loopVars, stop,
                 overlaps, failed>>

-----------------------------------------------------------------------------
(* run().                                                                  *)

ringQuiet == UNCHANGED <<written, taken, delivered, closed, inflight>>

(* available_frames(), to skip what arrived during the negotiation or to   *)
(* take the snapshot of an iteration.                                      *)
LoadAvail(from, to) ==
  /\ pc = from
  /\ avail' = written - taken
  /\ pc' = to
  /\ overlaps' = IF inflight > 0 THEN 1 ELSE 0
  /\ ringQuiet /\ UNCHANGED <<frameTime, outage, now, stop, failed>>

SkipFrames(n, from) ==
  /\ pc = from
  /\ Ring!Skip(Least(n, written - taken))
  /\ pc' = "stop?"
  /\ UNCHANGED <<inflight, avail, frameTime, outage, now, stop, overlaps, failed>>

SkipBacklog == SkipFrames(avail, "skip")

(* mutant: the flag is only looked at before the first frame *)
StopSeen_Once == stop /\ frameTime = 0
StopSeen == stop

CheckStop ==
  /\ pc = "stop?"
  /\ pc' = IF StopSeen THEN "stopped" ELSE "closed?"
  /\ ringQuiet /\ UNCHANGED <<avail, frameTime, outage, now, stop, overlaps, failed>>

(* mutant: a closed ring is only noticed once it is empty *)
ClosedSeen_Drained == closed /\ written = taken
ClosedSeen == closed

CheckClosed ==
  /\ pc = "closed?"
  /\ pc' = IF ClosedSeen THEN "closed" ELSE "avail"
  /\ ringQuiet /\ UNCHANGED <<avail, frameTime, outage, now, stop, overlaps, failed>>

(* mutant: drops the whole backlog *)
Excess_All == avail
(* mutant: drops one frame *)
Excess_OneFrame == FrameSize
(* mutant: the backlog is never drained *)
MustDrain_Never == FALSE

Excess == avail - Target
MustDrain == avail > Threshold

(* Fell behind: drop down to the target.                                   *)
Drain == MustDrain /\ SkipFrames(Excess, "branch")

(* Less than a frame: sleep for what is missing, then look again.          *)
SleepForMore ==
  /\ pc = "branch" /\ ~MustDrain /\ avail < FrameSize
  /\ pc' = "stop?"
  /\ ringQuiet /\ UNCHANGED <<avail, frameTime, outage, now, stop, overlaps, failed>>

(* read_frames: refused if the reservation laps the read index.            *)
Lapped == written + inflight - taken > Capacity

ReadRefused ==
  /\ pc = "branch" /\ ~MustDrain /\ avail >= FrameSize
  /\ Lapped
  /\ pc' = "stop?"
  /\ ringQuiet /\ UNCHANGED <<avail, frameTime, outage, now, stop, overlaps, failed>>

ReadFrame ==
  /\ pc = "branch" /\ ~MustDrain /\ avail >= FrameSize
  /\ ~Lapped
  /\ Ring!Take(FrameSize)
  /\ frameTime' = now
  /\ pc' = "send"
  /\ UNCHANGED <<inflight, avail, outage, now, stop, overlaps, failed>>

EncodeFails ==
  /\ pc = "send"
  /\ pc' = "encoder"
  /\ ringQuiet /\ UNCHANGED <<avail, frameTime, outage, now, stop, overlaps, failed>>

(* mutant: a success leaves the outage open *)
AfterSuccess_Kept == outage
AfterSuccess == {}

SendSucceeds ==
  /\ pc = "send"
  /\ outage' = AfterSuccess
  /\ failed' = {}
  /\ pc' = "stop?"
  /\ ringQuiet /\ UNCHANGED <<avail, frameTime, now, stop, overlaps>>

(* The outage a failed send leaves: the one under way, or a new one.       *)
AfterFailure == IF outage = {} THEN {frameTime} ELSE outage

(* mutant: an outage of exactly OUTAGE_FATAL is let pass *)
Fatal_Beyond(since) == frameTime - since > OutageFatal
Fatal(since) == frameTime - since >= OutageFatal

SendFails ==
  /\ pc = "send"
  /\ outage' = AfterFailure
  /\ failed' = failed \cup {frameTime}
  /\ pc' = IF \E since \in AfterFailure : Fatal(since) THEN "outage" ELSE "stop?"
  /\ ringQuiet /\ UNCHANGED <<avail, frameTime, now, stop, overlaps>>

-----------------------------------------------------------------------------
Init ==
  /\ Ring!Init
  /\ inflight = 0 /\ overlaps = 0
  /\ pc = "start" /\ avail = 0 /\ frameTime = 0 /\ outage = {}
  /\ now = 0 /\ stop = FALSE /\ failed = {}

Loop ==
  \/ LoadAvail("start", "skip") \/ SkipBacklog
  \/ CheckStop \/ CheckClosed
  \/ LoadAvail("avail", "branch")
  \/ Drain \/ SleepForMore
  \/ ReadRefused \/ ReadFrame
  \/ EncodeFails \/ SendSucceeds \/ SendFails

Environment ==
  \/ \E n \in Batches : ReserveBatch(n)
  \/ PublishBatch
  \/ CloseRing
  \/ RequestStop
  \/ Tick

(* run() has returned, and the rest of the program is quiet.               *)
Returned == ~Running /\ UNCHANGED vars

Next == Loop \/ Environment \/ Returned

(* The loop's thread is scheduled, and no call it makes blocks for good.   *)
Spec == Init /\ [][Next]_vars /\ WF_vars(Loop)

-----------------------------------------------------------------------------
(* Properties.                                                             *)

Returns == {"stopped", "closed", "outage", "encoder"}

(* Types; the outage under way began with a frame that failed.             *)
TypeOK ==
  /\ {written, taken, inflight, avail} \subseteq 0..MaxWritten
  /\ {now, frameTime} \subseteq 0..MaxTime
  /\ pc \in {"start", "skip", "stop?", "closed?", "avail", "branch", "send"} \cup Returns
  /\ {closed, stop} \subseteq BOOLEAN
  /\ overlaps \in 0..2
  /\ failed \subseteq 0..MaxTime /\ outage \subseteq failed
  /\ outage = {} <=> failed = {}

(* The run ends in an outage exactly when frames have failed over          *)
(* OUTAGE_FATAL or more with none sent in between: neither a blip after a  *)
(* success nor two separate blips end it (capture.rs:18-19, 103-131).      *)
OutageIsFatal ==
  pc = "outage" <=> \E a, b \in failed : b - a >= OutageFatal

(* A drain leaves the newest DRAIN_TARGET_MS in the ring, although the     *)
(* producer writes between the snapshot and the skip; and it leaves no     *)
(* more than that, and what arrived meanwhile (capture.rs:69-73).          *)
DrainKeepsTarget ==
  [][pc = "branch" /\ pc' = "stop?" /\ taken' # taken
       => /\ written' - taken' >= Target
          /\ overlaps = 0 => written' - taken' = Target]_vars

(* The headroom run() asserts is enough: a batch under way at the snapshot *)
(* or started since never reaches the region being copied; it takes two    *)
(* of them before a read is refused (capture.rs:15, 39, 89).               *)
OneBatchNeverLaps ==
  [][pc = "branch" /\ pc' = "stop?" /\ taken' = taken /\ avail >= FrameSize
       => overlaps >= 2]_vars

(* Whatever overruns the ring, the loop gets back inside it or returns: it *)
(* is not refused for ever (capture.rs:71-80, 89-91).                      *)
OverrunRecovers == Lapped ~> (~Lapped \/ ~Running)

(* A stop request, and a sink that stops delivering, end the run, whatever *)
(* is still in the ring (capture.rs:62-68).                                *)
EndReturns == (stop \/ closed) ~> ~Running
=============================================================================
