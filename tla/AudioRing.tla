----------------------------- MODULE AudioRing -----------------------------
(***************************************************************************)
(* audio_ring.rs: the lock-free ring between the realtime audio callback   *)
(* (producer) and the capture loop (consumer).  Producer and consumer run  *)
(* store by store and load by load, under the Rust (C++20) memory model.   *)
(*                                                                         *)
(* Every location the consumer loads is stored by the producer alone, so   *)
(* the memory is the log of the producer's stores in program order.  A     *)
(* view is a prefix of the log, named by its length: all the stores in it  *)
(* happen before what holds the view.  A load returns any store of its     *)
(* location that coherence and the consumer's view do not rule out, not    *)
(* just the newest.  The producer loads nothing the consumer stores.       *)
(*                                                                         *)
(* Indices are counted without wrapping; the code's wrapping_sub is taken  *)
(* modulo Word, and since Word is a multiple of Capacity * Channels,       *)
(* `base.wrapping_add(i) & sample_mask` picks the slot of the frame's      *)
(* index modulo Capacity whether or not the index has wrapped.             *)
(***************************************************************************)
EXTENDS Integers, Sequences

CONSTANTS
  Capacity,     (* capacity_frames of channel()                            *)
  Channels,     (* channels of channel()                                   *)
  Word,         (* 2^w for the w-bit usize of the target                   *)
  Batches,      (* the lengths, in whole frames, of the byte slices written *)
  Requests,     (* the lengths, in frames, a caller passes to read_frames  *)
  Skips,        (* the lengths a caller passes to skip_frames              *)
  MaxWritten    (* bound: frames written in a behaviour                    *)

IsPowerOfTwo(n) == \E k \in 0..n : n = 2^k

(* channel() asserts the two powers of two; Word is one by nature, and the *)
(* Box that holds Capacity * Channels samples fits the address space.      *)
ASSUME RingAssumption ==
  /\ Capacity \in Nat \ {0} /\ IsPowerOfTwo(Capacity)
  /\ Channels \in Nat \ {0} /\ IsPowerOfTwo(Channels)
  /\ Word \in Nat /\ Word > Capacity /\ Word % (Capacity * Channels) = 0
  /\ Batches \subseteq Nat
  /\ Requests \subseteq Nat
  /\ Skips \subseteq Nat
  /\ MaxWritten \in Nat

VARIABLES
  log,          (* the producer's stores: location, value, released view   *)
  ppc,          (* producer: between calls, storing samples, publishing    *)
  base,         (* producer: `write` as the call in progress loaded it     *)
  pframe,       (* producer: frame of the next sample to store             *)
  pchan,        (* producer: channel of the next sample to store           *)
  end,          (* producer: index the batch in flight ends at             *)
  fenced,       (* producer: view at its last release fence                *)
  seen,         (* consumer: the view that happens before its next load    *)
  acq,          (* consumer: join of the views of its relaxed loads        *)
  last,         (* consumer: the newest store it has loaded, per location  *)
  cpc,          (* consumer: between calls, copying, about to check        *)
  read,         (* the `read` index, stored and loaded by the consumer     *)
  need,         (* consumer: frames asked of the read_frames in progress   *)
  rframe,       (* consumer: frame of the next sample to copy              *)
  rchan,        (* consumer: channel of the next sample to copy            *)
  out,          (* consumer: the caller's buffer                           *)
  ret,          (* how the last read_frames ended                          *)
  delivered,    (* the last buffer read_frames returned true on            *)
  closed,       (* the `closed` flag                                       *)
  closeView,    (* the view that the store of `closed` released            *)
  sawClosed     (* the consumer has loaded TRUE from `closed`              *)

producerVars == <<ppc, base, pframe, pchan, end, fenced>>
viewVars == <<seen, acq, last>>
readVars == <<cpc, read, need, rframe, rchan, out, ret, delivered>>
closeVars == <<closed, closeView, sawClosed>>
vars == <<log, producerVars, viewVars, readVars, closeVars>>

-----------------------------------------------------------------------------
(* The memory.                                                             *)

Reserved == <<"reserved", 0, 0>>
Write == <<"write", 0, 0>>
Slot(f, c) == <<"slot", f % Capacity, c>>
SlotLocations == {"slot"} \X (0..Capacity-1) \X (0..Channels-1)
Locations == {Reserved, Write} \cup SlotLocations

(* A sample is identified with the index of its frame; Silence is the zero *)
(* every slot is created with.                                             *)
Silence == -1
Initial(loc) == IF loc \in SlotLocations THEN Silence ELSE 0

Later(a, b) == IF a >= b THEN a ELSE b
Least(a, b) == IF a <= b THEN a ELSE b

(* Store number 0 of a location is its value at creation.                  *)
Stores(loc) == {0} \cup {t \in 1..Len(log) : log[t].loc = loc}
ValueAt(loc, t) == IF t = 0 THEN Initial(loc) ELSE log[t].val
ViewAt(t) == IF t = 0 THEN 0 ELSE log[t].rel

(* What a load of loc may return to a consumer whose view is `view`.       *)
Readable(loc, view) ==
  {t \in Stores(loc) : /\ t >= last[loc]
                       /\ \A u \in Stores(loc) : u <= view => u <= t}

(* A relaxed store releases what the last release fence released; a        *)
(* release store, everything before it.                                    *)
StoreRelaxed(loc, val) ==
  log' = Append(log, [loc |-> loc, val |-> val, rel |-> fenced])
StoreRelease(loc, val) ==
  log' = Append(log, [loc |-> loc, val |-> val, rel |-> Len(log) + 1])

AcquiredFrom(t) == Later(seen, ViewAt(t))

LoadAcquire(loc, t) ==
  /\ t \in Readable(loc, seen)
  /\ last' = [last EXCEPT ![loc] = t]
  /\ seen' = AcquiredFrom(t)
  /\ UNCHANGED acq

WrapSub(a, b) == (a - b) % Word

-----------------------------------------------------------------------------
(* The producer: write_s16le.  A call with no whole frame returns at once. *)

Kept(n) == Least(n, Capacity)      \* a longer slice loses its oldest frames

(* Bounds: MaxWritten, and less than Word frames ahead of the consumer (it *)
(* would take a 64-bit producer 12 million years to get there).            *)
WithinBounds(e) == e <= MaxWritten /\ e - read < Word

(* mutant: the release fence between the reservation and the slot stores   *)
(* is left out                                                             *)
FenceView_NoRelease == fenced
FenceView == Len(log) + 1

(* `reserved` first, then the release fence that orders it before the slot *)
(* stores.                                                                 *)
Reserve(n) ==
  /\ ppc = "idle"
  /\ n > 0
  /\ WithinBounds(pframe + Kept(n))
  /\ base' = pframe
  /\ end' = pframe + Kept(n)
  /\ StoreRelaxed(Reserved, end')
  /\ fenced' = FenceView
  /\ ppc' = "store"
  /\ UNCHANGED <<pframe, pchan, viewVars, readVars, closeVars>>

(* mutant: the channel counter is not reset at the end of a frame *)
StoreSample_NoChannelReset ==
  /\ ppc = "store"
  /\ StoreRelaxed(Slot(pframe, pchan), pframe)
  /\ pchan' = pchan + 1
  /\ pframe' = IF pchan + 1 = Channels THEN pframe + 1 ELSE pframe
  /\ ppc' = IF pframe' = end THEN "publish" ELSE "store"
  /\ UNCHANGED <<base, end, fenced, viewVars, readVars, closeVars>>

StoreSample ==
  /\ ppc = "store"
  /\ StoreRelaxed(Slot(pframe, pchan), pframe)
  /\ pchan' = (pchan + 1) % Channels
  /\ pframe' = IF pchan + 1 = Channels THEN pframe + 1 ELSE pframe
  /\ ppc' = IF pframe' = end THEN "publish" ELSE "store"
  /\ UNCHANGED <<base, end, fenced, viewVars, readVars, closeVars>>

PublishBatch ==
  /\ ppc = "publish"
  /\ StoreRelease(Write, end)
  /\ ppc' = "idle"
  /\ UNCHANGED <<base, pframe, pchan, end, fenced, viewVars, readVars, closeVars>>

-----------------------------------------------------------------------------
(* The consumer: read_frames, in three steps.                              *)

(* Every call of the consumer starts by loading `write`: Available(t) is   *)
(* how far ahead of `read` the loaded store t puts it.                     *)
Available(t) == WrapSub(ValueAt(Write, t), read)

Blank(n) == [p \in (0..n-1) \X (0..Channels-1) |-> Silence]

ReadFrames(n) ==
  /\ cpc = "idle"
  /\ n > 0
  /\ \E t \in Readable(Write, seen) :
       /\ LoadAcquire(Write, t)
       /\ \/ /\ Available(t) < n
             /\ ret' = "short"
             /\ UNCHANGED <<cpc, need, rframe, rchan, out>>
          \/ /\ Available(t) >= n
             /\ ret' = "none"
             /\ cpc' = "copy"
             /\ need' = n
             /\ rframe' = read
             /\ rchan' = 0
             /\ out' = Blank(n)
  /\ UNCHANGED <<log, producerVars, read, delivered, closeVars>>

CopySample ==
  /\ cpc = "copy"
  /\ \E t \in Readable(Slot(rframe, rchan), seen) :
       /\ last' = [last EXCEPT ![Slot(rframe, rchan)] = t]
       /\ acq' = Later(acq, ViewAt(t))
       /\ out' = [out EXCEPT ![<<rframe - read, rchan>>] =
                                ValueAt(Slot(rframe, rchan), t)]
  /\ rchan' = (rchan + 1) % Channels
  /\ rframe' = IF rchan + 1 = Channels THEN rframe + 1 ELSE rframe
  /\ cpc' = IF rframe' = read + need THEN "check" ELSE "copy"
  /\ UNCHANGED <<log, producerVars, seen, read, need, ret, delivered, closeVars>>

(* mutant: no acquire fence between the slot loads and the `reserved` load *)
AcquireFence_None == seen

(* fence(Acquire): what the relaxed loads so far released happens before   *)
(* every later load.                                                       *)
AcquireFence == Later(seen, acq)

(* mutant: a reservation that ends exactly one lap ahead counts as a lap   *)
Lapped_AtCapacity(reserved) == WrapSub(reserved, read) >= Capacity

Lapped(reserved) == WrapSub(reserved, read) > Capacity

CheckReserved ==
  /\ cpc = "check"
  /\ seen' = AcquireFence
  /\ \E t \in Readable(Reserved, AcquireFence) :
       /\ last' = [last EXCEPT ![Reserved] = t]
       /\ \/ /\ Lapped(ValueAt(Reserved, t))
             /\ ret' = "lapped"
             /\ UNCHANGED <<read, delivered>>
          \/ /\ ~Lapped(ValueAt(Reserved, t))
             /\ ret' = "ok"
             /\ read' = read + need
             /\ delivered' = [from |-> read, pcm |-> out]
  /\ cpc' = "idle"
  /\ UNCHANGED <<log, producerVars, acq, need, rframe, rchan, out, closeVars>>

AvailableFrames ==
  /\ cpc = "idle"
  /\ \E t \in Readable(Write, seen) : LoadAcquire(Write, t)
  /\ UNCHANGED <<log, producerVars, readVars, closeVars>>

(* mutant: skip_frames takes its caller's word for how much there is       *)
SkipTo_Unclamped(frames, t) == read + frames

SkipTo(frames, t) == read + Least(frames, Available(t))

SkipFrames(frames) ==
  /\ cpc = "idle"
  /\ \E t \in Readable(Write, seen) :
       /\ LoadAcquire(Write, t)
       /\ read' = SkipTo(frames, t)
  /\ UNCHANGED <<log, producerVars, cpc, need, rframe, rchan, out, ret,
                 delivered, closeVars>>

-----------------------------------------------------------------------------
(* close() and is_closed().  RingProducer::close runs on the producer's    *)
(* thread, after the batches it wrote; a RingCloser belongs to another     *)
(* thread and releases nothing of them.  The flag never goes back, so a    *)
(* load may still return FALSE after the store, never the reverse.  Only   *)
(* the first store counts: a load that returns a second one knows no less. *)

Close(onProducerThread) ==
  /\ ~closed
  /\ onProducerThread => ppc = "idle"
  /\ closed' = TRUE
  /\ closeView' = IF onProducerThread THEN Len(log) ELSE 0
  /\ UNCHANGED <<log, producerVars, viewVars, readVars, sawClosed>>

(* mutant: `closed` loaded with Ordering::Relaxed                          *)
CloseAcquired_Relaxed == seen
CloseAcquired == Later(seen, closeView)

IsClosed ==
  /\ cpc = "idle"
  /\ closed
  /\ sawClosed' = TRUE
  /\ seen' = CloseAcquired
  /\ UNCHANGED <<log, producerVars, acq, last, readVars, closed, closeView>>

-----------------------------------------------------------------------------
Init ==
  /\ log = <<>>
  /\ ppc = "idle" /\ base = 0 /\ pframe = 0 /\ pchan = 0 /\ end = 0 /\ fenced = 0
  /\ seen = 0 /\ acq = 0 /\ last = [loc \in Locations |-> 0]
  /\ cpc = "idle" /\ read = 0 /\ need = 0 /\ rframe = 0 /\ rchan = 0
  /\ out = Blank(0) /\ ret = "none"
  /\ delivered = [from |-> 0, pcm |-> Blank(0)]
  /\ closed = FALSE /\ closeView = 0 /\ sawClosed = FALSE

Producer ==
  \/ \E n \in Batches : Reserve(n)
  \/ StoreSample
  \/ PublishBatch

Consumer ==
  \/ \E n \in Requests : ReadFrames(n)
  \/ CopySample
  \/ CheckReserved
  \/ AvailableFrames
  \/ \E n \in Skips : SkipFrames(n)
  \/ IsClosed

Next == Producer \/ Consumer \/ \E own \in BOOLEAN : Close(own)

Spec == Init /\ [][Next]_vars

-----------------------------------------------------------------------------
(* Properties.                                                             *)

Samples == {Silence} \cup (0..MaxWritten-1)
Views == 0..Len(log)
Stored == [loc : Locations, val : 0..MaxWritten, rel : Nat]
Buffers == UNION {[(0..n-1) \X (0..Channels-1) -> Samples] : n \in Requests \cup {0}}

(* Types; what a store releases is never newer than the store itself.      *)
TypeOK ==
  /\ log \in Seq(Stored) /\ \A t \in 1..Len(log) : log[t].rel <= t
  /\ ppc \in {"idle", "store", "publish"}
  /\ base \in 0..MaxWritten /\ pframe \in 0..MaxWritten /\ end \in 0..MaxWritten
  /\ pchan \in 0..Channels-1
  /\ fenced \in Views /\ seen \in Views /\ acq \in Views
  /\ last \in [Locations -> Views]
  /\ cpc \in {"idle", "copy", "check"}
  /\ read \in Nat /\ need \in Nat /\ rframe \in Nat
  /\ rchan \in 0..Channels-1
  /\ out \in Buffers
  /\ ret \in {"none", "short", "lapped", "ok"}
  /\ delivered \in [from : Nat, pcm : Buffers]
  /\ closed \in BOOLEAN /\ closeView \in Views /\ sawClosed \in BOOLEAN

(* A buffer read_frames returned true on holds, in every channel of every  *)
(* frame, the sample of the frame the read index stood for: no sample of a *)
(* later lap, of the previous one, or of a batch in flight, whatever the   *)
(* weakly ordered loads returned (audio_ring.rs:98-108).                   *)
NoTornRead ==
  \A p \in DOMAIN delivered.pcm : delivered.pcm[p] = delivered.from + p[1]

(* The frames in the newest store of `write`.                              *)
Published == IF ppc = "idle" THEN end ELSE base

(* The consumer's index never overtakes the producer's, neither by reading *)
(* nor by skipping over a stale load of `write` (audio_ring.rs:107, 115).  *)
ReadNeverPassesWrite == read <= Published

(* read_frames refuses a buffer as lapped only if the producer has really  *)
(* reserved past the oldest frame the consumer wants: a ring that is       *)
(* exactly full is still read (audio_ring.rs:104).                         *)
RefusedOnlyWhenLapped ==
  [][ret' = "lapped" /\ ret # "lapped" => end - read > Capacity]_vars

(* A consumer that has seen `closed` from the producer's own thread sees   *)
(* every batch written before it: the tail a consumer drains after closing *)
(* cannot be hidden from it (audio_ring.rs:48, 52; the loop of the test at *)
(* line 294 relies on it).                                                 *)
CloseSeesTail ==
  sawClosed =>
    \A t \in Readable(Write, seen) : \A u \in Stores(Write) : u <= closeView => u <= t

(* Step by step, this ring does what the abstract one does in single steps. *)
Ring == INSTANCE LossyRing WITH written <- Published, taken <- read
ImplementsLossyRing == Ring!Spec
=============================================================================
