----------------------------- MODULE LossyRing -----------------------------
(***************************************************************************)
(* What audio_ring.rs promises its two endpoints, with every call atomic:  *)
(* the producer publishes batches and is never blocked; the consumer takes *)
(* frames that were published and are still next in line, whole and        *)
(* unmixed with any other lap of the ring, or takes nothing.  AudioRing    *)
(* implements this specification; CaptureLoop is built on it.              *)
(***************************************************************************)
EXTENDS Integers

CONSTANTS
  Capacity,     (* AudioRing::capacity, in frames                          *)
  Channels,     (* AudioRing::channels                                     *)
  Requests,     (* the lengths, in frames, a caller passes to read_frames  *)
  MaxWritten    (* bound: frames published in a behaviour                  *)

VARIABLES
  written,      (* frames published by the producer so far                 *)
  taken,        (* the consumer's read index                               *)
  delivered,    (* the last buffer read_frames filled and returned true on *)
  closed        (* RingProducer or a RingCloser called close()             *)

ringVars == <<written, taken, delivered, closed>>

(* The samples of n consecutive frames from index `from`, channel by       *)
(* channel.  The sample of a frame is identified with the frame's index.   *)
Whole(from, n) ==
  [from |-> from,
   pcm  |-> [p \in (0..n-1) \X (0..Channels-1) |-> from + p[1]]]

Init ==
  /\ written = 0
  /\ taken = 0
  /\ delivered = Whole(0, 0)
  /\ closed = FALSE

Publish(n) ==
  /\ n \in 1..Capacity
  /\ written + n <= MaxWritten
  /\ written' = written + n
  /\ UNCHANGED <<taken, delivered, closed>>

Take(n) ==
  /\ taken + n <= written
  /\ delivered' = Whole(taken, n)
  /\ taken' = taken + n
  /\ UNCHANGED <<written, closed>>

Skip(n) ==
  /\ n \in 0..(written - taken)
  /\ taken' = taken + n
  /\ UNCHANGED <<written, delivered, closed>>

Close ==
  /\ closed' = TRUE
  /\ UNCHANGED <<written, taken, delivered>>

Next ==
  \/ \E n \in 1..Capacity : Publish(n)
  \/ \E n \in Requests : Take(n)
  \/ \E n \in 0..(written - taken) : Skip(n)
  \/ Close

Spec == Init /\ [][Next]_ringVars
=============================================================================
