-------------------------- MODULE AudioRing_proofs --------------------------
(***************************************************************************)
(* Machine-checked proofs about AudioRing, for every capacity, channel     *)
(* count, word size and batch size.                                        *)
(***************************************************************************)
EXTENDS AudioRing, TLAPS

-----------------------------------------------------------------------------
(* The inductive invariant.                                                *)

SlotStore(s) == \E c \in 0..Channels-1 : s.loc = Slot(s.val, c)

(* Store s put the sample of frame f, channel c, into its slot.            *)
Puts(s, f, c) == s.loc = Slot(f, c) /\ s.val = f

(* Every store is of an index or of a frame in the frame's own slot.       *)
StoresShaped ==
  \A t \in 1..Len(log) :
    log[t].loc \in {Reserved, Write} \/ (SlotStore(log[t]) /\ log[t].val < MaxWritten)

(* The values stored in a location never go down, nor past the producer.   *)
StoresOrdered ==
  \A t, u \in 1..Len(log) :
    t < u /\ log[t].loc = log[u].loc => log[t].val <= log[u].val
StoresBounded ==
  \A t \in 1..Len(log) :
    /\ log[t].val <= end
    /\ log[t].loc = Write => log[t].val <= Published
    /\ SlotStore(log[t]) => log[t].val <= pframe

(* A slot store releases a reservation that reaches past its frame.        *)
StoresReserved ==
  \A t \in 1..Len(log) :
    SlotStore(log[t]) =>
      \E r \in 1..log[t].rel : log[r].loc = Reserved /\ log[r].val > log[t].val

(* A store of `write` releases everything before it, which is all the      *)
(* samples of the frames it publishes.                                     *)
PublishedStored ==
  \A t \in 1..Len(log) :
    log[t].loc = Write =>
      /\ log[t].rel = t
      /\ \A f \in 0..log[t].val-1, c \in 0..Channels-1 : \E u \in 1..t : Puts(log[u], f, c)

(* So are those the producer has passed since.                             *)
PassedStored ==
  \A f \in 0..pframe, c \in 0..Channels-1 :
    f < pframe \/ c < pchan => \E u \in 1..Len(log) : Puts(log[u], f, c)

ProducerAt ==
  /\ ppc # "idle" => base < end /\ end <= base + Capacity /\ base <= pframe
  /\ ppc = "idle" => pframe = end /\ pchan = 0
  /\ ppc = "store" => pframe < end
  /\ ppc = "publish" => pframe = end /\ pchan = 0
  /\ ppc # "idle" => \E r \in 1..fenced : log[r].loc = Reserved /\ log[r].val = end

(* The consumer's index is at most the newest `write` it has loaded, which *)
(* is less than a word's range behind the producer.                        *)
IndexKnown ==
  /\ last[Write] \in Stores(Write)
  /\ read <= ValueAt(Write, last[Write])
  /\ end - read < Word

ConsumerAt ==
  /\ cpc # "idle" =>
       /\ need > 0 /\ need \in Requests
       /\ read <= rframe
       /\ DOMAIN out = (0..need-1) \X (0..Channels-1)
       /\ last[Write] \in 1..seen
       /\ log[last[Write]].loc = Write /\ log[last[Write]].val >= read + need
  /\ cpc = "copy" => rframe < read + need
  /\ cpc = "check" => rframe = read + need

(* A copied sample comes from a store of a frame in the same slot, no      *)
(* older than the wanted one, whose view the acquire fence will join.      *)
Copied(i, c) ==
  /\ out[<<i, c>>] >= read + i
  /\ \E t \in 1..Len(log) : /\ log[t].loc = Slot(read + i, c)
                            /\ log[t].val = out[<<i, c>>]
                            /\ log[t].rel <= acq
CopiedFromStores ==
  cpc # "idle" =>
    \A i \in 0..need-1, c \in 0..Channels-1 :
      read + i < rframe \/ (read + i = rframe /\ c < rchan) => Copied(i, c)

LogInv == /\ StoresShaped /\ StoresOrdered /\ StoresBounded /\ StoresReserved
          /\ PublishedStored /\ PassedStored
ConsumerInv == IndexKnown /\ ConsumerAt /\ CopiedFromStores

Inv == TypeOK /\ LogInv /\ ProducerAt /\ ConsumerInv /\ NoTornRead

-----------------------------------------------------------------------------
(* Arithmetic of the slot index.                                           *)

(* Division with remainder.                                                *)
LEMMA DivMod ==
  ASSUME NEW f \in Nat, NEW N \in Nat \ {0}
  PROVE /\ f \div N \in Nat
        /\ f % N \in 0..N-1
        /\ f = N * (f \div N) + (f % N)
BY SMT

(* The index arithmetic is exact below the word size.                      *)
LEMMA ModIdentity ==
  ASSUME NEW x \in Nat, NEW N \in Nat \ {0}, x < N
  PROVE x % N = x
BY SMT

(* A reservation above an index and not past the end is close to it.       *)
LEMMA Between ==
  ASSUME NEW index \in Nat, NEW v \in Nat, NEW r \in Nat, NEW top \in Nat, NEW N \in Nat,
         index <= v, v < r, r <= top, top - index < N
  PROVE r - index \in Nat /\ r - index < N
BY SMT

(* The only multiple of N from 0 up to N is 0.                             *)
LEMMA SmallMultiple ==
  ASSUME NEW a \in Int, NEW N \in Nat \ {0}, 0 <= N * a, N * a < N
  PROVE a = 0
<1>1. CASE a <= -1
  <2>1. N * a <= N * (-1) BY <1>1, SMT
  <2> QED BY <2>1, SMT
<1>2. CASE a >= 1
  <2>1. N * a >= N BY <1>2, SMT
  <2> QED BY <2>1, SMT
<1> QED BY <1>1, <1>2, SMT

(* Two frames of one slot less than a lap apart are the same frame.        *)
LEMMA SameLap ==
  ASSUME NEW f \in Nat, NEW g \in Nat, NEW N \in Nat \ {0},
         f % N = g % N, g <= f, f - g < N
  PROVE f = g
<1>1. PICK q \in Nat : f = N * q + (f % N)
  BY DivMod
<1>2. PICK r \in Nat : g = N * r + (g % N)
  BY DivMod
<1>3. f % N \in Nat
  BY DivMod
<1>4. f - g = N * q - N * r
  BY <1>1, <1>2, <1>3, SMT
<1>5. N * q - N * r = N * (q - r)
  BY SMT
<1>6. q - r = 0
  BY <1>4, <1>5, SmallMultiple, SMT
<1> QED
  BY <1>4, <1>5, <1>6, SMT

-----------------------------------------------------------------------------
(* The memory.                                                             *)

(* A slot is a location, and neither index.                                *)
LEMMA SlotTyped ==
  ASSUME NEW f \in Nat, NEW c \in 0..Channels-1
  PROVE /\ Slot(f, c) \in SlotLocations
        /\ Slot(f, c) \in Locations
        /\ Slot(f, c) # Write
        /\ Slot(f, c) # Reserved
BY RingAssumption, DivMod DEF Slot, SlotLocations, Locations, Write, Reserved

(* So are the indices, and they differ.                                    *)
LEMMA IndexTyped ==
  /\ Reserved \in Locations /\ Write \in Locations /\ Reserved # Write
  /\ Initial(Reserved) = 0 /\ Initial(Write) = 0
BY DEF Reserved, Write, Locations, Initial, SlotLocations

(* One slot location, one channel and one residue.                         *)
LEMMA SlotSame ==
  ASSUME NEW f, NEW g, NEW c, NEW d, Slot(f, c) = Slot(g, d)
  PROVE c = d /\ f % Capacity = g % Capacity
BY DEF Slot

(* Appending a store changes no earlier one.                               *)
LEMMA Appended ==
  ASSUME NEW S, NEW s \in Seq(S), NEW e \in S
  PROVE /\ Append(s, e) \in Seq(S)
        /\ Len(Append(s, e)) = Len(s) + 1
        /\ \A t \in 1..Len(s) : Append(s, e)[t] = s[t]
        /\ Append(s, e)[Len(s) + 1] = e
BY SMT

(* The fields of a store.                                                  *)
LEMMA StoredTyped ==
  ASSUME NEW s \in Stored
  PROVE s.loc \in Locations /\ s.val \in Nat /\ s.val <= MaxWritten /\ s.rel \in Nat
BY RingAssumption DEF Stored

(* The fields of every store in the log.                                   *)
LEMMA LogTyped ==
  ASSUME TypeOK
  PROVE /\ Len(log) \in Nat
        /\ \A t \in 1..Len(log) :
             /\ log[t] \in Stored /\ log[t].loc \in Locations
             /\ log[t].val \in Nat /\ log[t].rel \in Nat /\ log[t].rel <= t
        /\ MaxWritten \in Nat /\ pframe \in Nat /\ end \in Nat
<1>1. log \in Seq(Stored) /\ \A t \in 1..Len(log) : log[t].rel <= t
  BY DEF TypeOK
<1>2. \A t \in 1..Len(log) : log[t] \in Stored
  BY <1>1
<1> QED
  BY <1>1, <1>2, StoredTyped, RingAssumption DEF TypeOK

-----------------------------------------------------------------------------
(* The producer's steps.  Each appends one store, e.                       *)

(* The types survive any typed store that releases no later one.           *)
LEMMA TypesGrow ==
  ASSUME TypeOK, NEW e \in Stored, log' = Append(log, e), e.rel <= Len(log) + 1,
         ppc' \in {"idle", "store", "publish"},
         base' \in 0..MaxWritten, pframe' \in 0..MaxWritten, end' \in 0..MaxWritten,
         pchan' \in 0..Channels-1,
         fenced' \in {fenced, Len(log) + 1},
         UNCHANGED <<viewVars, readVars, closeVars>>
  PROVE TypeOK'
<1>1. /\ log' \in Seq(Stored) /\ Len(log') = Len(log) + 1 /\ Len(log) \in Nat
      /\ \A t \in 1..Len(log) : log'[t] = log[t]
      /\ log'[Len(log) + 1] = e
  BY Appended DEF TypeOK
<1>2. \A t \in 1..Len(log') : log'[t].rel <= t
  <2>1. \A t \in 1..Len(log) : log[t].rel <= t
    BY DEF TypeOK
  <2>2. ASSUME NEW t \in 1..Len(log')
        PROVE t \in 1..Len(log) \/ t = Len(log) + 1
    BY <1>1
  <2> QED
    BY <1>1, <2>1, <2>2
<1>3. /\ fenced' \in 0..Len(log') /\ seen' \in 0..Len(log') /\ acq' \in 0..Len(log')
      /\ closeView' \in 0..Len(log')
  <2>1. /\ fenced \in 0..Len(log) /\ seen \in 0..Len(log) /\ acq \in 0..Len(log)
        /\ closeView \in 0..Len(log)
    BY DEF TypeOK, Views
  <2>2. 0..Len(log) \subseteq 0..Len(log') /\ Len(log) + 1 \in 0..Len(log')
    BY <1>1
  <2>3. seen' = seen /\ acq' = acq /\ closeView' = closeView
    BY DEF viewVars, closeVars
  <2> QED
    BY <2>1, <2>2, <2>3
<1>4. last' \in [Locations -> 0..Len(log')]
  <2>1. last \in [Locations -> 0..Len(log)]
    BY DEF TypeOK, Views
  <2>2. 0..Len(log) \subseteq 0..Len(log') /\ last' = last
    BY <1>1 DEF viewVars
  <2> QED
    BY <2>1, <2>2
<1>5. UNCHANGED <<readVars, closed, sawClosed>>
  BY DEF closeVars
<1> QED
  BY <1>1, <1>2, <1>3, <1>4, <1>5 DEF TypeOK, Views, readVars, Buffers, Samples

(* The log's invariants survive a store that satisfies them itself.        *)
LEMMA LogGrows ==
  ASSUME Inv, NEW e \in Stored, log' = Append(log, e),
         pframe' \in Nat, end' \in Nat, pframe <= pframe', end <= end',
         Published <= Published', Published' \in Nat,
         e.val <= end', e.loc = Write => e.val <= Published',
         \/ e.loc \in {Reserved, Write}
         \/ /\ \E c \in 0..Channels-1 : e.loc = Slot(e.val, c)
            /\ e.val < MaxWritten /\ e.val <= pframe'
            /\ \E r \in 1..Len(log) :
                 r <= e.rel /\ log[r].loc = Reserved /\ log[r].val > e.val,
         \A t \in 1..Len(log) : log[t].loc = e.loc => log[t].val <= e.val,
         e.loc = Write =>
           /\ e.rel = Len(log) + 1
           /\ \A f \in 0..e.val-1, c \in 0..Channels-1 :
                \E u \in 1..Len(log) : Puts(log[u], f, c),
         \A f \in 0..pframe', c \in 0..Channels-1 :
           f < pframe' \/ c < pchan' =>
             (\E u \in 1..Len(log) : Puts(log[u], f, c)) \/ (e.loc = Slot(f, c) /\ e.val = f)
  PROVE LogInv'
<1> DEFINE N == Len(log) + 1
<1>1. /\ Len(log') = N /\ N \in Nat /\ Len(log) = N - 1
      /\ \A t \in 1..N-1 : log'[t] = log[t]
      /\ log'[N] = e
      /\ \A t \in 1..N-1 : log[t].val \in Nat /\ log[t].rel \in Nat /\ log[t].rel <= t
      /\ e.val \in Nat /\ pframe \in Nat /\ end \in Nat /\ Published \in Nat
  <2>1. TypeOK /\ log \in Seq(Stored)
    BY DEF Inv, TypeOK
  <2>2. /\ Len(log') = Len(log) + 1 /\ Len(log) \in Nat /\ log'[Len(log) + 1] = e
        /\ \A t \in 1..Len(log) : log'[t] = log[t]
    BY <2>1, Appended
  <2>3. N - 1 = Len(log) /\ N \in Nat
    BY <2>2
  <2>4. base \in Nat
    BY <2>1, RingAssumption DEF TypeOK
  <2>5. Published \in Nat
    BY <2>1, <2>4, LogTyped DEF Published
  <2> QED
    BY <2>1, <2>2, <2>3, <2>5, LogTyped, StoredTyped
<1> HIDE DEF N
<1>4. StoresShaped'
  <2>1. ASSUME NEW t \in 1..N-1
        PROVE log[t].loc \in {Reserved, Write} \/ (SlotStore(log[t]) /\ log[t].val < MaxWritten)
    BY <1>1 DEF Inv, LogInv, StoresShaped
  <2>2. e.loc \in {Reserved, Write} \/ (SlotStore(e) /\ e.val < MaxWritten)
    BY DEF SlotStore
  <2>3. ASSUME NEW t \in 1..N
        PROVE t \in 1..N-1 \/ t = N
    BY <1>1
  <2>4. ASSUME NEW t \in 1..N
        PROVE \/ log'[t].loc \in {Reserved, Write}
              \/ SlotStore(log'[t]) /\ log'[t].val < MaxWritten
    BY <1>1, <2>1, <2>2, <2>3
  <2> QED
    BY <1>1, <2>4 DEF StoresShaped, SlotStore, Slot, Reserved, Write
<1>5. StoresOrdered'
  BY <1>1 DEF Inv, LogInv, StoresOrdered
<1>6. StoresBounded'
  <2>1. ASSUME NEW t \in 1..N-1
        PROVE /\ log[t].val <= end'
              /\ log[t].loc = Write => log[t].val <= Published'
              /\ SlotStore(log[t]) => log[t].val <= pframe'
    BY <1>1 DEF Inv, LogInv, StoresBounded
  <2>2. SlotStore(e) => e.val <= pframe'
    BY <1>1, SlotTyped DEF SlotStore
  <2>3. ASSUME NEW t \in 1..N
        PROVE /\ log'[t].val <= end'
              /\ log'[t].loc = Write => log'[t].val <= Published'
              /\ SlotStore(log'[t]) => log'[t].val <= pframe'
    BY <1>1, <2>1, <2>2
  <2> HIDE DEF Write, Published
  <2>4. \A t \in 1..Len(log') :
          /\ log'[t].val <= end'
          /\ log'[t].loc = Write => log'[t].val <= Published'
          /\ SlotStore(log'[t]) => log'[t].val <= pframe'
    BY <1>1, <2>3
  <2> QED
    BY <2>4 DEF StoresBounded, SlotStore, Slot, Write
<1>7. StoresReserved'
  <2>1. ASSUME NEW t \in 1..N-1, SlotStore(log[t])
        PROVE \E r \in 1..log[t].rel : log'[r].loc = Reserved /\ log'[r].val > log[t].val
    <3>1. PICK r \in 1..log[t].rel : log[r].loc = Reserved /\ log[r].val > log[t].val
      BY <1>1, <2>1 DEF Inv, LogInv, StoresReserved
    <3>2. r \in 1..N-1
      <4>1. log[t].rel \in Nat /\ log[t].rel <= t /\ N \in Nat
        BY <1>1
      <4> QED
        BY <3>1, <4>1
    <3> QED
      BY <1>1, <3>1, <3>2
  <2>2. ASSUME SlotStore(e)
        PROVE \E r \in 1..e.rel : log'[r].loc = Reserved /\ log'[r].val > e.val
    <3>1. e.loc # Reserved /\ e.loc # Write
      BY <1>1, <2>2, SlotTyped DEF SlotStore
    <3>2. PICK r \in 1..Len(log) :
            r <= e.rel /\ log[r].loc = Reserved /\ log[r].val > e.val
      BY <3>1
    <3> QED
      BY <1>1, <3>2
  <2>3. ASSUME NEW t \in 1..N, SlotStore(log'[t])
        PROVE \E r \in 1..log'[t].rel : log'[r].loc = Reserved /\ log'[r].val > log'[t].val
    <3>1. CASE t = N
      BY <1>1, <2>2, <2>3, <3>1
    <3>2. CASE t \in 1..N-1
      BY <1>1, <2>1, <2>3, <3>2
    <3>3. t = N \/ t \in 1..N-1
      BY <1>1
    <3> QED
      BY <3>1, <3>2, <3>3, Zenon
  <2> QED
    BY <1>1, <2>3 DEF StoresReserved
<1>9. PublishedStored'
  <2>1. ASSUME NEW t \in 1..N-1, log[t].loc = Write,
               NEW f \in 0..log[t].val-1, NEW c \in 0..Channels-1
        PROVE \E u \in 1..t : Puts(log'[u], f, c)
    <3>1. PICK u \in 1..t : Puts(log[u], f, c)
      BY <1>1, <2>1 DEF Inv, LogInv, PublishedStored
    <3> QED
      BY <1>1, <3>1
  <2>2. ASSUME e.loc = Write, NEW f \in 0..e.val-1, NEW c \in 0..Channels-1
        PROVE \E u \in 1..N : Puts(log'[u], f, c)
    <3>1. PICK u \in 1..Len(log) : Puts(log[u], f, c)
      BY <2>2
    <3> QED
      BY <1>1, <3>1
  <2>3. ASSUME NEW t \in 1..N, log'[t].loc = Write,
               NEW f \in 0..log'[t].val-1, NEW c \in 0..Channels-1
        PROVE \E u \in 1..t : Puts(log'[u], f, c)
    <3>1. CASE t = N
      BY <1>1, <2>2, <2>3, <3>1
    <3>2. CASE t \in 1..N-1
      BY <1>1, <2>1, <2>3, <3>2
    <3>3. t = N \/ t \in 1..N-1
      BY <1>1
    <3> QED
      BY <3>1, <3>2, <3>3, Zenon
  <2>4. \A t \in 1..N : log'[t].loc = Write => log'[t].rel = t
    BY <1>1 DEF Inv, LogInv, PublishedStored
  <2> HIDE DEF Write
  <2>5. \A t \in 1..Len(log') :
          log'[t].loc = Write =>
            /\ log'[t].rel = t
            /\ \A f \in 0..log'[t].val-1, c \in 0..Channels-1 :
                 \E u \in 1..t : Puts(log'[u], f, c)
    BY <1>1, <2>3, <2>4
  <2> QED
    BY <2>5 DEF PublishedStored, Puts, Slot, Write
<1>10. PassedStored'
  <2>1. ASSUME NEW f \in 0..pframe', NEW c \in 0..Channels-1, f < pframe' \/ c < pchan'
        PROVE \E u \in 1..N : Puts(log'[u], f, c)
    <3>1. CASE \E u \in 1..Len(log) : Puts(log[u], f, c)
      BY <1>1, <3>1
    <3>2. CASE e.loc = Slot(f, c) /\ e.val = f
      BY <1>1, <3>2 DEF Puts
    <3> QED
      BY <2>1, <3>1, <3>2
  <2> QED
    BY <1>1, <2>1 DEF PassedStored
<1> QED
  BY <1>4, <1>5, <1>6, <1>7, <1>9, <1>10 DEF LogInv

(* What the consumer knows stays true when the log grows.                  *)
LEMMA ConsumerUnmoved ==
  ASSUME Inv, NEW e \in Stored, log' = Append(log, e),
         UNCHANGED <<viewVars, readVars>>, end' - read < Word
  PROVE ConsumerInv' /\ NoTornRead'
<1>1. /\ Len(log') = Len(log) + 1 /\ Len(log) \in Nat
      /\ \A t \in 1..Len(log) : log'[t] = log[t]
  BY Appended DEF Inv, TypeOK
<1> USE <1>1
<1>2. IndexKnown'
  BY IndexTyped DEF Inv, ConsumerInv, IndexKnown, Stores, ValueAt, viewVars, readVars
<1>3. ConsumerAt'
  <2>1. ConsumerAt /\ seen \in 0..Len(log)
    BY DEF Inv, TypeOK, Views, ConsumerInv
  <2>2. \A t \in 1..seen : log'[t] = log[t]
    BY <2>1
  <2> QED
    BY <2>1, <2>2 DEF ConsumerAt, viewVars, readVars
<1>4. CopiedFromStores'
  <2>1. ASSUME NEW i, NEW c, Copied(i, c)
        PROVE Copied(i, c)'
    BY <2>1 DEF Copied, viewVars, readVars, Slot
  <2> QED
    BY <2>1 DEF Inv, ConsumerInv, CopiedFromStores, readVars
<1>5. NoTornRead'
  BY DEF Inv, NoTornRead, readVars
<1> QED
  BY <1>2, <1>3, <1>4, <1>5 DEF ConsumerInv

(* The reservation: a new end, ahead of every value stored so far.         *)
LEMMA ReserveStep ==
  ASSUME Inv, NEW n \in Batches, Reserve(n)
  PROVE Inv'
<1> DEFINE e == [loc |-> Reserved, val |-> end', rel |-> fenced]
<1>1. /\ end' \in 0..MaxWritten /\ end < end' /\ end' - read < Word
      /\ pframe < end' /\ ppc' = "store" /\ UNCHANGED <<pframe, pchan>>
      /\ base' = pframe /\ pframe \in 0..MaxWritten /\ ppc = "idle" /\ pframe = end
      /\ end' <= pframe + Capacity
      /\ fenced' = Len(log) + 1
      /\ UNCHANGED <<viewVars, readVars, closeVars>>
  BY RingAssumption DEF Inv, TypeOK, ProducerAt, Reserve, WithinBounds, Kept, Least, FenceView
<1>2. /\ e \in Stored /\ e.loc = Reserved /\ e.val = end' /\ e.rel = fenced
      /\ log' = Append(log, e)
      /\ fenced \in Nat /\ fenced <= Len(log) /\ Len(log) \in Nat
  BY <1>1, IndexTyped DEF Inv, TypeOK, Views, Stored, Reserve, StoreRelaxed
<1> HIDE DEF e
<1>3. TypeOK'
  <2>1. pchan' \in 0..Channels-1 /\ pframe' \in 0..MaxWritten
    BY <1>1 DEF Inv, TypeOK
  <2> QED
    BY <1>1, <1>2, <2>1, TypesGrow DEF Inv
<1>4. LogInv'
  <2>1. /\ \A t \in 1..Len(log) : log[t].val <= e.val
        /\ pframe \in Nat /\ end \in Nat
    <3>1. \A t \in 1..Len(log) : log[t].val \in Nat /\ log[t].val <= end
      BY LogTyped DEF Inv, LogInv, StoresBounded
    <3>2. pframe \in Nat /\ end \in Nat /\ e.val \in Nat /\ end < e.val
      BY <1>1, <1>2, LogTyped, RingAssumption DEF Inv
    <3> QED
      BY <3>1, <3>2
  <2>2. \A f \in 0..pframe', c \in 0..Channels-1 :
          f < pframe' \/ c < pchan' => \E u \in 1..Len(log) : Puts(log[u], f, c)
    BY <1>1 DEF Inv, LogInv, PassedStored
  <2>3. Published = end /\ Published' = pframe
    BY <1>1 DEF Published
  <2> QED
    BY <1>1, <1>2, <2>1, <2>2, <2>3, IndexTyped, LogGrows
<1>5. ConsumerInv' /\ NoTornRead'
  BY <1>1, <1>2, ConsumerUnmoved
<1>6. ProducerAt'
  <2>1. /\ Len(log) + 1 \in 1..fenced' /\ log'[Len(log) + 1] = e
    <3>1. log \in Seq(Stored)
      BY DEF Inv, TypeOK
    <3>2. Len(log) + 1 \in 1..fenced'
      BY <1>1, <1>2
    <3> QED
      BY <1>2, <3>1, <3>2, Appended
  <2> QED
    BY <1>1, <1>2, <2>1 DEF ProducerAt, Reserved
<1> QED
  BY <1>3, <1>4, <1>5, <1>6 DEF Inv

(* A sample: its frame is under the reservation the last fence released.   *)
LEMMA StoreStep ==
  ASSUME Inv, StoreSample
  PROVE Inv'
<1> DEFINE e == [loc |-> Slot(pframe, pchan), val |-> pframe, rel |-> fenced]
<1>1. /\ pframe \in Nat /\ end \in 0..MaxWritten /\ pframe < end
      /\ pchan \in 0..Channels-1 /\ Channels \in Nat \ {0}
      /\ end - read < Word
  BY RingAssumption DEF Inv, TypeOK, ConsumerInv, IndexKnown, ProducerAt, StoreSample
<1>2. /\ e \in Stored /\ e.loc = Slot(pframe, pchan) /\ e.val = pframe /\ e.rel = fenced
      /\ log' = Append(log, e)
      /\ fenced \in Nat /\ fenced <= Len(log) /\ Len(log) \in Nat
      /\ base \in 0..MaxWritten
  <2>1. /\ log' = Append(log, e)
        /\ e.loc = Slot(pframe, pchan) /\ e.val = pframe /\ e.rel = fenced
    BY DEF StoreSample, StoreRelaxed
  <2>2. fenced \in 0..Len(log) /\ Len(log) \in Nat /\ base \in 0..MaxWritten
    BY LogTyped DEF Inv, TypeOK, Views
  <2>3. pframe \in 0..MaxWritten /\ Slot(pframe, pchan) \in Locations
    BY <1>1, SlotTyped DEF Inv, TypeOK
  <2>4. e \in Stored
    BY <2>2, <2>3 DEF Stored
  <2> QED
    BY <2>1, <2>2, <2>4
<1> HIDE DEF e
<1>3. \/ pchan + 1 < Channels /\ pchan' = pchan + 1 /\ pframe' = pframe
      \/ pchan + 1 = Channels /\ pchan' = 0 /\ pframe' = pframe + 1
  <2>1. CASE pchan + 1 = Channels
    <3>1. (pchan + 1) % Channels = 0
      BY <1>1, <2>1, SMT
    <3> QED
      BY <2>1, <3>1 DEF StoreSample
  <2>2. CASE pchan + 1 < Channels
    BY <1>1, <2>2, ModIdentity DEF StoreSample
  <2> QED
    BY <1>1, <2>1, <2>2
<1>4. /\ ppc' = IF pframe' = end THEN "publish" ELSE "store"
      /\ UNCHANGED <<base, end, fenced, viewVars, readVars, closeVars>>
  BY DEF StoreSample
<1>5. TypeOK'
  <2>1. pframe' \in 0..MaxWritten /\ pchan' \in 0..Channels-1
    BY <1>1, <1>3, RingAssumption
  <2> QED
    BY <1>1, <1>2, <1>4, <2>1, TypesGrow DEF Inv
<1>6. \E r \in 1..fenced : log[r].loc = Reserved /\ log[r].val = end
  BY DEF Inv, ProducerAt, StoreSample
<1>7. LogInv'
  <2>1. \A t \in 1..Len(log) : log[t].loc = e.loc => log[t].val <= e.val
    BY <1>1, <1>2, SlotTyped DEF Inv, LogInv, StoresShaped, StoresBounded
  <2>2. \A f \in 0..pframe', c \in 0..Channels-1 :
          f < pframe' \/ c < pchan' =>
            (\E u \in 1..Len(log) : Puts(log[u], f, c)) \/ (e.loc = Slot(f, c) /\ e.val = f)
    <3>1. \A f \in 0..pframe, c \in 0..Channels-1 :
            f < pframe \/ c < pchan => \E u \in 1..Len(log) : Puts(log[u], f, c)
      BY DEF Inv, LogInv, PassedStored
    <3>2. \A f \in 0..pframe', c \in 0..Channels-1 :
            f < pframe' \/ c < pchan' =>
              (f \in 0..pframe /\ (f < pframe \/ c < pchan)) \/ (f = pframe /\ c = pchan)
      BY <1>1, <1>3
    <3> QED
      BY <1>2, <3>1, <3>2
  <2>3. \E r \in 1..Len(log) : r <= e.rel /\ log[r].loc = Reserved /\ log[r].val > e.val
    BY <1>1, <1>2, <1>6
  <2>4. /\ e.loc # Write /\ pframe' \in Nat /\ pframe <= pframe'
        /\ end' \in Nat /\ end <= end' /\ e.val <= end'
        /\ \E c \in 0..Channels-1 : e.loc = Slot(e.val, c)
        /\ e.val < MaxWritten /\ e.val <= pframe'
    BY <1>1, <1>2, <1>3, <1>4, SlotTyped, RingAssumption
  <2>5. Published = base /\ Published' = base /\ base \in Nat
    BY <1>2, <1>4, RingAssumption DEF Published, StoreSample
  <2>6. Published \in Nat /\ Published' \in Nat /\ Published <= Published'
    BY <2>5
  <2> QED
    BY <1>2, <2>1, <2>2, <2>3, <2>4, <2>6, LogGrows
<1>8. ConsumerInv' /\ NoTornRead'
  BY <1>1, <1>2, <1>4, ConsumerUnmoved
<1>9. ProducerAt'
  <2>1. \A t \in 1..fenced : log'[t] = log[t]
    BY <1>2, Appended DEF Inv, TypeOK
  <2>2. \E r \in 1..fenced' : log'[r].loc = Reserved /\ log'[r].val = end'
    BY <1>4, <1>6, <2>1
  <2>3. pframe' < end' \/ (pframe' = end' /\ pchan' = 0)
    BY <1>1, <1>3, <1>4
  <2>4. base' < end' /\ end' <= base' + Capacity /\ base' <= pframe'
    BY <1>1, <1>2, <1>3, <1>4 DEF Inv, ProducerAt, StoreSample
  <2> QED
    BY <1>1, <1>4, <2>2, <2>3, <2>4 DEF ProducerAt, Reserved
<1> QED
  BY <1>5, <1>7, <1>8, <1>9 DEF Inv

(* The batch is published: every sample below its end is in the log.       *)
LEMMA PublishStep ==
  ASSUME Inv, PublishBatch
  PROVE Inv'
<1> DEFINE e == [loc |-> Write, val |-> end, rel |-> Len(log) + 1]
<1>1. /\ pframe = end /\ pchan = 0 /\ end \in 0..MaxWritten /\ end - read < Word
      /\ ppc' = "idle" /\ ppc # "idle" /\ base < end /\ base \in 0..MaxWritten
      /\ UNCHANGED <<base, pframe, pchan, end, fenced, viewVars, readVars, closeVars>>
  BY DEF Inv, TypeOK, ConsumerInv, IndexKnown, ProducerAt, PublishBatch
<1>2. /\ e \in Stored /\ e.loc = Write /\ e.val = end /\ e.rel = Len(log) + 1
      /\ log' = Append(log, e)
      /\ Len(log) \in Nat
  BY <1>1, IndexTyped DEF Inv, TypeOK, Stored, PublishBatch, StoreRelease
<1> HIDE DEF e
<1>3. TypeOK'
  BY <1>1, <1>2, TypesGrow DEF Inv, TypeOK
<1>4. LogInv'
  <2>1. \A t \in 1..Len(log) : log[t].val <= e.val
    BY <1>2 DEF Inv, LogInv, StoresBounded
  <2>2. \A f \in 0..pframe', c \in 0..Channels-1 :
          f < pframe' \/ c < pchan' => \E u \in 1..Len(log) : Puts(log[u], f, c)
    BY <1>1 DEF Inv, LogInv, PassedStored
  <2>3. \A f \in 0..e.val-1, c \in 0..Channels-1 : \E u \in 1..Len(log) : Puts(log[u], f, c)
    BY <1>1, <1>2, <2>2
  <2>4. Published = base /\ Published' = end
    BY <1>1 DEF Published
  <2>5. Published \in Nat /\ Published' \in Nat /\ Published <= Published'
    BY <1>1, <2>4, RingAssumption
  <2>6. /\ pframe' \in Nat /\ end' \in Nat /\ pframe <= pframe' /\ end <= end'
        /\ e.val <= end' /\ e.val <= Published'
    BY <1>1, <1>2, <2>4, RingAssumption
  <2> QED
    BY <1>2, <2>1, <2>2, <2>3, <2>5, <2>6, LogGrows
<1>5. ConsumerInv' /\ NoTornRead'
  BY <1>1, <1>2, ConsumerUnmoved
<1>6. ProducerAt'
  BY <1>1 DEF ProducerAt
<1> QED
  BY <1>3, <1>4, <1>5, <1>6 DEF Inv

-----------------------------------------------------------------------------
(* The consumer's steps.                                                   *)

(* They leave the producer and the log alone.                              *)
LEMMA ProducerUnmoved ==
  ASSUME Inv, UNCHANGED <<log, producerVars>>
  PROVE LogInv' /\ ProducerAt'
<1>1. ProducerAt'
  BY DEF Inv, producerVars, ProducerAt, Reserved
<1>2. StoresShaped' /\ StoresOrdered'
  BY DEF Inv, LogInv, StoresShaped, StoresOrdered, SlotStore
<1>5. StoresBounded'
  BY DEF Inv, producerVars, LogInv, StoresBounded, SlotStore, Published, Write
<1>3. StoresReserved'
  BY DEF Inv, LogInv, StoresReserved, SlotStore
<1>4. PublishedStored' /\ PassedStored'
  BY DEF Inv, producerVars, LogInv, PublishedStored, PassedStored, Puts
<1> QED
  BY <1>1, <1>2, <1>3, <1>4, <1>5 DEF LogInv

(* Whatever store of `write` the consumer may load is an index of the past *)
(* at or ahead of its own, so the wrapping difference is the difference;   *)
(* and loading it makes it happen before what follows.                     *)
LEMMA WriteLoaded ==
  ASSUME Inv, NEW t \in Readable(Write, seen)
  PROVE /\ t \in 0..Len(log) /\ t \in Stores(Write)
        /\ ValueAt(Write, t) \in Nat /\ ValueAt(Write, t) <= end
        /\ read <= ValueAt(Write, t)
        /\ Available(t) = ValueAt(Write, t) - read
        /\ AcquiredFrom(t) \in 0..Len(log) /\ seen <= AcquiredFrom(t)
        /\ t > 0 => log[t].loc = Write /\ log[t].val = ValueAt(Write, t)
        /\ t <= AcquiredFrom(t)
<1>1. /\ t \in Stores(Write) /\ t \in 0..Len(log) /\ t >= last[Write]
      /\ last[Write] \in Stores(Write) /\ last[Write] \in 0..Len(log)
  BY LogTyped DEF Inv, Readable, Stores, ConsumerInv, IndexKnown
<1>2. /\ t > 0 => log[t].loc = Write /\ log[t].val = ValueAt(Write, t)
      /\ last[Write] > 0 => log[last[Write]].loc = Write
      /\ t = 0 => ValueAt(Write, t) = 0
  BY <1>1, IndexTyped, LogTyped DEF Inv, Stores, ValueAt
<1>3. ValueAt(Write, t) \in Nat /\ ValueAt(Write, t) <= end /\ end \in Nat
  BY <1>1, <1>2, LogTyped DEF Inv, LogInv, StoresBounded
<1>4. ValueAt(Write, last[Write]) <= ValueAt(Write, t)
  <2>1. CASE last[Write] = 0
    BY <1>3, <2>1, IndexTyped DEF ValueAt
  <2>2. CASE last[Write] > 0
    <3>1. last[Write] \in 1..Len(log) /\ t \in 1..Len(log) /\ log[t].val \in Nat
      BY <1>1, <2>2, LogTyped DEF Inv
    <3>2. log[last[Write]].val <= log[t].val
      BY <1>1, <1>2, <2>2, <3>1 DEF Inv, LogInv, StoresOrdered
    <3> QED
      BY <3>1, <3>2 DEF ValueAt
  <2> QED
    BY <1>1, <2>1, <2>2, LogTyped DEF Inv
<1>5. /\ read <= ValueAt(Write, t) /\ ValueAt(Write, t) - read < Word
      /\ read \in Nat /\ Word \in Nat \ {0}
  <2>1. /\ read \in Nat /\ read <= ValueAt(Write, last[Write]) /\ end - read < Word
        /\ Word \in Nat \ {0}
    BY RingAssumption DEF Inv, TypeOK, ConsumerInv, IndexKnown
  <2>2. ValueAt(Write, last[Write]) \in Nat
    BY <1>1, IndexTyped, LogTyped DEF Inv, ValueAt
  <2> QED
    BY <1>3, <1>4, <2>1, <2>2
<1>6. Available(t) = ValueAt(Write, t) - read
  BY <1>3, <1>5, ModIdentity DEF Available, WrapSub
<1>7. AcquiredFrom(t) \in 0..Len(log) /\ seen <= AcquiredFrom(t) /\ t <= AcquiredFrom(t)
  <2>1. seen \in 0..Len(log)
    BY DEF Inv, TypeOK, Views
  <2>2. ViewAt(t) \in 0..Len(log) /\ t <= ViewAt(t)
    BY <1>1, <1>2, LogTyped DEF Inv, LogInv, PublishedStored, ViewAt
  <2>3. Len(log) \in Nat
    BY LogTyped DEF Inv
  <2> QED
    BY <1>1, <2>1, <2>2, <2>3 DEF AcquiredFrom, Later
<1> QED
  BY <1>1, <1>2, <1>3, <1>5, <1>6, <1>7

(* A load of `write` keeps the types of the consumer's views and what it   *)
(* knows of its index.                                                     *)
LEMMA WriteLoadStep ==
  ASSUME Inv, NEW t \in Readable(Write, seen), LoadAcquire(Write, t),
         UNCHANGED <<log, producerVars>>, read' \in Nat, read <= read',
         read' <= ValueAt(Write, t)
  PROVE /\ seen' \in 0..Len(log) /\ acq' \in 0..Len(log) /\ seen <= seen' /\ acq' = acq
        /\ last' \in [Locations -> 0..Len(log)]
        /\ IndexKnown'
<1>1. /\ seen' = AcquiredFrom(t) /\ last' = [last EXCEPT ![Write] = t] /\ acq' = acq
      /\ seen \in 0..Len(log) /\ acq \in 0..Len(log)
      /\ last \in [Locations -> 0..Len(log)]
  BY DEF LoadAcquire, Inv, TypeOK, Views
<1>2. last'[Write] = t /\ last' \in [Locations -> 0..Len(log)]
  BY <1>1, IndexTyped, WriteLoaded
<1>3. IndexKnown'
  <2>1. end - read < Word /\ end \in Nat /\ read \in Nat /\ Word \in Nat
    BY RingAssumption DEF Inv, TypeOK, ConsumerInv, IndexKnown
  <2>3. end' = end
    BY DEF producerVars
  <2>4. read' \in Nat /\ read <= read'
    OBVIOUS
  <2>5. ASSUME NEW a \in Nat, NEW b \in Nat, NEW c \in Nat, NEW w \in Nat, a - b < w, b <= c
        PROVE a - c < w
    BY <2>5
  <2>2. end' - read' < Word
    BY <2>1, <2>3, <2>4, <2>5
  <2> QED
    BY <1>2, <2>2, WriteLoaded DEF IndexKnown, Stores, ValueAt, Write, Initial, SlotLocations
<1> QED
  BY <1>1, <1>2, <1>3, WriteLoaded

(* A fresh buffer, and one with a sample of the log or silence in it.      *)
LEMMA BlankTyped ==
  ASSUME NEW n \in Requests \cup {0}
  PROVE Blank(n) \in Buffers /\ DOMAIN Blank(n) = (0..n-1) \X (0..Channels-1)
<1>1. Blank(n) \in [(0..n-1) \X (0..Channels-1) -> Samples]
  BY DEF Blank, Samples
<1> QED
  BY <1>1 DEF Blank, Buffers

(* Writing one entry keeps a buffer a buffer of the same size.             *)
LEMMA BufferFilled ==
  ASSUME NEW b \in Buffers, NEW p, NEW x \in Samples
  PROVE [b EXCEPT ![p] = x] \in Buffers /\ DOMAIN [b EXCEPT ![p] = x] = DOMAIN b
<1>1. PICK n \in Requests \cup {0} : b \in [(0..n-1) \X (0..Channels-1) -> Samples]
  BY DEF Buffers
<1>2. [b EXCEPT ![p] = x] \in [(0..n-1) \X (0..Channels-1) -> Samples]
  BY <1>1
<1> QED
  BY <1>1, <1>2 DEF Buffers

(* The types that only the consumer's steps touch.                         *)
LEMMA ConsumerTypes ==
  ASSUME Inv, UNCHANGED <<log, producerVars, closed, closeView>>,
         seen' \in 0..Len(log), acq' \in 0..Len(log), last' \in [Locations -> 0..Len(log)],
         cpc' \in {"idle", "copy", "check"},
         read' \in Nat, need' \in Nat, rframe' \in Nat, rchan' \in 0..Channels-1,
         out' \in Buffers, ret' \in {"none", "short", "lapped", "ok"},
         delivered' \in [from : Nat, pcm : Buffers], sawClosed' \in BOOLEAN
  PROVE TypeOK'
<1>1. UNCHANGED <<log, ppc, base, pframe, pchan, end, fenced, closed, closeView>>
  BY DEF producerVars
<1> QED
  BY <1>1 DEF Inv, TypeOK, Views, Buffers, Samples

(* The start of a read: refused as short, or under way with a blank buffer. *)
LEMMA ReadFramesStep ==
  ASSUME Inv, NEW n \in Requests, ReadFrames(n)
  PROVE Inv'
<1>1. PICK t \in Readable(Write, seen) :
        /\ LoadAcquire(Write, t)
        /\ \/ /\ Available(t) < n
              /\ ret' = "short"
              /\ UNCHANGED <<cpc, need, rframe, rchan, out>>
           \/ /\ Available(t) >= n
              /\ ret' = "none"
              /\ cpc' = "copy"
              /\ need' = n
              /\ rframe' = read
              /\ rchan' = 0
              /\ out' = Blank(n)
  BY DEF ReadFrames
<1>2. /\ cpc = "idle" /\ n > 0 /\ n \in Nat
      /\ UNCHANGED <<log, producerVars, read, delivered, closeVars>>
      /\ read \in Nat
  BY RingAssumption DEF ReadFrames, Inv, TypeOK
<1>3. /\ ValueAt(Write, t) \in Nat /\ read <= ValueAt(Write, t)
      /\ Available(t) = ValueAt(Write, t) - read
      /\ t \in 0..Len(log) /\ t <= AcquiredFrom(t)
      /\ t > 0 => log[t].loc = Write /\ log[t].val = ValueAt(Write, t)
  BY WriteLoaded
<1>4. /\ seen' \in 0..Len(log) /\ acq' \in 0..Len(log)
      /\ last' \in [Locations -> 0..Len(log)]
      /\ seen' = AcquiredFrom(t) /\ last'[Write] = t
      /\ IndexKnown'
  <2>1. read' \in Nat /\ read <= read' /\ read' <= ValueAt(Write, t)
    BY <1>2, <1>3
  <2> QED
    BY <1>1, <1>2, <2>1, IndexTyped, WriteLoadStep DEF LoadAcquire, Inv, TypeOK
<1>5. NoTornRead' /\ LogInv' /\ ProducerAt'
  BY <1>2, ProducerUnmoved DEF Inv, NoTornRead
<1>6. CASE Available(t) < n /\ ret' = "short" /\ UNCHANGED <<cpc, need, rframe, rchan, out>>
  <2>1. TypeOK'
    BY <1>2, <1>4, <1>6, ConsumerTypes DEF Inv, TypeOK, closeVars
  <2>2. ConsumerAt' /\ CopiedFromStores'
    BY <1>2, <1>6 DEF ConsumerAt, CopiedFromStores
  <2> QED
    BY <1>4, <1>5, <2>1, <2>2 DEF Inv, ConsumerInv
<1>7. CASE /\ Available(t) >= n
           /\ ret' = "none" /\ cpc' = "copy" /\ need' = n
           /\ rframe' = read /\ rchan' = 0 /\ out' = Blank(n)
  <2>1. TypeOK'
    <3>1. out' \in Buffers
      BY <1>7, BlankTyped
    <3>2. rchan' \in 0..Channels-1
      BY <1>7, RingAssumption
    <3> QED
      BY <1>2, <1>4, <1>7, <3>1, <3>2, ConsumerTypes DEF Inv, TypeOK, closeVars
  <2>2. t > 0 /\ log[t].val >= read + n /\ t \in 1..Len(log)
    BY <1>2, <1>3, <1>7, IndexTyped DEF ValueAt
  <2>3. ConsumerAt'
    <3>1. /\ last'[Write] \in 1..seen' /\ log'[last'[Write]].loc = Write
          /\ log'[last'[Write]].val >= read' + need'
      BY <1>2, <1>3, <1>4, <1>7, <2>2
    <3>2. DOMAIN out' = (0..need'-1) \X (0..Channels-1)
      BY <1>7, BlankTyped
    <3>3. /\ need' > 0 /\ need' \in Requests /\ read' <= rframe' /\ rframe' < read' + need' /\ cpc' = "copy"
      BY <1>2, <1>7
    <3> QED
      BY <3>1, <3>2, <3>3 DEF ConsumerAt, Write
  <2>4. CopiedFromStores'
    <3>1. \A i \in 0..need'-1, c \in 0..Channels-1 :
            ~(read' + i < rframe' \/ (read' + i = rframe' /\ c < rchan'))
      BY <1>2, <1>7
    <3> QED
      BY <3>1 DEF CopiedFromStores
  <2> QED
    BY <1>4, <1>5, <2>1, <2>3, <2>4 DEF Inv, ConsumerInv
<1> QED
  BY <1>1, <1>6, <1>7

(* The consumer already knows of the frame it copies next: the load        *)
(* returns that frame or one of a later lap.                               *)
LEMMA SlotLoaded ==
  ASSUME Inv, cpc = "copy", NEW t \in Readable(Slot(rframe, rchan), seen)
  PROVE /\ t \in 1..Len(log)
        /\ log[t].loc = Slot(rframe, rchan)
        /\ log[t].val >= rframe /\ log[t].val < MaxWritten
        /\ log[t].rel <= t
<1>1. /\ rframe \in Nat /\ rchan \in 0..Channels-1 /\ read \in Nat /\ need \in Nat
      /\ rframe < read + need /\ seen \in 0..Len(log)
  BY DEF Inv, TypeOK, Views, ConsumerInv, ConsumerAt
<1>2. PICK w \in 1..seen : log[w].loc = Write /\ log[w].val >= read + need
  BY DEF Inv, ConsumerInv, ConsumerAt
<1>3. w \in 1..Len(log) /\ log[w].val \in Nat /\ rframe \in 0..log[w].val-1
  BY <1>1, <1>2, LogTyped DEF Inv
<1>4. PICK u \in 1..w : Puts(log[u], rframe, rchan)
  BY <1>1, <1>2, <1>3 DEF Inv, LogInv, PublishedStored
<1>5. /\ u \in 1..Len(log) /\ u <= seen
      /\ log[u].loc = Slot(rframe, rchan) /\ log[u].val = rframe
  BY <1>1, <1>2, <1>3, <1>4, LogTyped DEF Inv, Puts
<1>6. u \in Stores(Slot(rframe, rchan))
  BY <1>5 DEF Stores
<1>7. u <= t /\ t \in 1..Len(log) /\ log[t].loc = Slot(rframe, rchan)
  BY <1>5, <1>6, LogTyped DEF Inv, Readable, Stores
<1>8. log[t].val >= rframe
  BY <1>5, <1>7, LogTyped DEF Inv, LogInv, StoresOrdered
<1>9. log[t].val < MaxWritten /\ log[t].rel <= t
  BY <1>1, <1>7, SlotTyped, LogTyped DEF Inv, LogInv, StoresShaped
<1> QED
  BY <1>7, <1>8, <1>9

(* One sample copied: see SlotLoaded for what it can be.                   *)
LEMMA CopyStep ==
  ASSUME Inv, CopySample
  PROVE Inv'
<1>1. PICK t \in Readable(Slot(rframe, rchan), seen) :
        /\ last' = [last EXCEPT ![Slot(rframe, rchan)] = t]
        /\ acq' = Later(acq, ViewAt(t))
        /\ out' = [out EXCEPT ![<<rframe - read, rchan>>] =
                                  ValueAt(Slot(rframe, rchan), t)]
  BY DEF CopySample
<1>2. /\ cpc = "copy"
      /\ rframe \in Nat /\ rchan \in 0..Channels-1 /\ read \in Nat /\ need \in Nat
      /\ need > 0 /\ read <= rframe /\ rframe < read + need
      /\ Channels \in Nat \ {0}
      /\ seen \in 0..Len(log) /\ acq \in 0..Len(log) /\ Len(log) \in Nat
      /\ last \in [Locations -> 0..Len(log)]
      /\ out \in Buffers /\ DOMAIN out = (0..need-1) \X (0..Channels-1)
  BY RingAssumption, LogTyped DEF CopySample, Inv, TypeOK, Views, ConsumerInv, ConsumerAt
<1>3. /\ UNCHANGED <<log, producerVars, seen, read, need, ret, delivered, closeVars>>
      /\ cpc' = IF rframe' = read + need THEN "check" ELSE "copy"
  BY DEF CopySample
<1>4. /\ t \in 1..Len(log)
      /\ log[t].loc = Slot(rframe, rchan)
      /\ log[t].val >= rframe /\ log[t].val < MaxWritten
      /\ log[t].rel <= t
      /\ log[t].val \in Nat /\ log[t].rel \in Nat
      /\ ValueAt(Slot(rframe, rchan), t) = log[t].val /\ ViewAt(t) = log[t].rel
  BY <1>2, SlotLoaded, LogTyped DEF Inv, ValueAt, ViewAt
<1>5. \/ rchan + 1 < Channels /\ rchan' = rchan + 1 /\ rframe' = rframe
      \/ rchan + 1 = Channels /\ rchan' = 0 /\ rframe' = rframe + 1
  <2>1. CASE rchan + 1 = Channels
    <3>1. (rchan + 1) % Channels = 0
      BY <1>2, <2>1, SMT
    <3> QED
      BY <2>1, <3>1 DEF CopySample
  <2>2. CASE rchan + 1 < Channels
    <3>3. rchan + 1 \in Nat
      BY <1>2
    <3>1. (rchan + 1) % Channels = rchan + 1
      BY <1>2, <2>2, <3>3, ModIdentity
    <3>2. rchan + 1 # Channels
      BY <1>2, <2>2
    <3> QED
      BY <2>2, <3>1, <3>2 DEF CopySample
  <2> QED
    BY <1>2, <2>1, <2>2
<1>6. acq <= acq' /\ log[t].rel <= acq' /\ acq' \in 0..Len(log)
  BY <1>1, <1>2, <1>4 DEF Later
<1>7. TypeOK'
  <2>1. log[t].val \in Samples
    BY <1>4, RingAssumption DEF Samples
  <2>2. out' \in Buffers
    BY <1>1, <1>2, <1>4, <2>1, BufferFilled
  <2>3. last' \in [Locations -> 0..Len(log)]
    BY <1>1, <1>2, <1>4, SlotTyped
  <2>4. rframe' \in Nat /\ rchan' \in 0..Channels-1
    BY <1>2, <1>5
  <2> QED
    BY <1>2, <1>3, <1>6, <2>2, <2>3, <2>4, ConsumerTypes DEF Inv, TypeOK, closeVars
<1>8. NoTornRead' /\ LogInv' /\ ProducerAt'
  BY <1>3, ProducerUnmoved DEF Inv, NoTornRead
<1>9. IndexKnown'
  <2>1. last'[Write] = last[Write]
    BY <1>1, <1>2, SlotTyped, IndexTyped
  <2>2. UNCHANGED <<log, read, end>>
    BY <1>3 DEF producerVars
  <2>3. IndexKnown
    BY DEF Inv, ConsumerInv
  <2> QED
    BY <2>1, <2>2, <2>3 DEF IndexKnown, Stores, ValueAt, Write, Initial, SlotLocations
<1>10. DOMAIN out' = (0..need'-1) \X (0..Channels-1)
  BY <1>1, <1>2, <1>3
<1>11. ConsumerAt'
  <2>1. /\ last[Write] \in 1..seen /\ log[last[Write]].loc = Write
        /\ log[last[Write]].val >= read + need
    BY <1>2 DEF Inv, ConsumerInv, ConsumerAt
  <2>5. last'[Write] = last[Write]
    BY <1>1, <1>2, SlotTyped, IndexTyped
  <2>2. /\ last'[Write] \in 1..seen' /\ log'[last'[Write]].loc = Write
        /\ log'[last'[Write]].val >= read' + need'
    BY <1>3, <2>1, <2>5
  <2>3. need' > 0 /\ need' \in Requests /\ read' <= rframe'
    BY <1>2, <1>3, <1>5 DEF Inv, ConsumerInv, ConsumerAt
  <2>4. /\ cpc' = "copy" => rframe' < read' + need'
        /\ cpc' = "check" => rframe' = read' + need'
    BY <1>2, <1>3, <1>5
  <2> QED
    BY <1>10, <2>2, <2>3, <2>4 DEF ConsumerAt, Write
<1>12. CopiedFromStores'
  <2>1. ASSUME NEW i \in 0..need-1, NEW c \in 0..Channels-1,
               read + i < rframe' \/ (read + i = rframe' /\ c < rchan')
        PROVE Copied(i, c)'
    <3>1. <<i, c>> \in DOMAIN out
      BY <1>2
    <3>2. CASE i = rframe - read /\ c = rchan
      <4>1. out'[<<i, c>>] = log[t].val /\ read + i = rframe
        BY <1>1, <1>2, <1>4, <3>1, <3>2
      <4> QED
        BY <1>3, <1>4, <1>6, <3>2, <4>1 DEF Copied, Slot
    <3>3. CASE ~(i = rframe - read /\ c = rchan)
      <4>1. read + i < rframe \/ (read + i = rframe /\ c < rchan)
        <5>1. read \in Nat /\ i \in Nat /\ rframe \in Nat /\ c \in Nat /\ rchan \in Nat
          BY <1>2
        <5>2. CASE rchan' = rchan + 1 /\ rframe' = rframe
          BY <2>1, <3>3, <5>1, <5>2
        <5>3. CASE rchan + 1 = Channels /\ rchan' = 0 /\ rframe' = rframe + 1
          <6>1. c <= rchan /\ ~(c < rchan')
            BY <1>2, <5>1, <5>3
          <6> QED
            BY <2>1, <3>3, <5>1, <5>3, <6>1
        <5> QED
          BY <1>5, <5>2, <5>3
      <4>2. Copied(i, c)
        BY <1>2, <4>1 DEF Inv, ConsumerInv, CopiedFromStores
      <4>3. <<i, c>> # <<rframe - read, rchan>>
        BY <3>3
      <4>4. out'[<<i, c>>] = out[<<i, c>>]
        BY <1>1, <1>2, <3>1, <4>3
      <4>5. PICK u \in 1..Len(log) : /\ log[u].loc = Slot(read + i, c)
                                     /\ log[u].val = out[<<i, c>>]
                                     /\ log[u].rel <= acq
        BY <4>2 DEF Copied
      <4>6. log[u].rel <= acq'
        <5>1. log[u].rel \in Nat /\ acq \in Nat /\ acq' \in Nat
          BY <1>2, <1>6, LogTyped DEF Inv
        <5>2. log[u].rel <= acq /\ acq <= acq'
          BY <1>6, <4>5
        <5> QED
          BY <5>1, <5>2
      <4>7. out'[<<i, c>>] >= read + i
        BY <4>2, <4>4 DEF Copied
      <4>8. \E v \in 1..Len(log) : /\ log[v].loc = Slot(read + i, c)
                                   /\ log[v].val = out'[<<i, c>>]
                                   /\ log[v].rel <= acq'
        BY <4>4, <4>5, <4>6
      <4> QED
        BY <1>3, <4>7, <4>8 DEF Copied, Slot
    <3> QED
      BY <3>2, <3>3
  <2> QED
    BY <1>3, <2>1 DEF CopiedFromStores
<1> QED
  BY <1>7, <1>8, <1>9, <1>11, <1>12 DEF Inv, ConsumerInv

(* The heart of the matter: if the reservation the consumer loads after    *)
(* its acquire fence is within a lap of its index, no copied sample is of  *)
(* a later lap.                                                            *)
LEMMA NotLappedMeansWhole ==
  ASSUME Inv, cpc = "check",
         NEW t \in Readable(Reserved, AcquireFence), ~Lapped(ValueAt(Reserved, t)),
         NEW i \in 0..need-1, NEW c \in 0..Channels-1
  PROVE out[<<i, c>>] = read + i
<1>1. /\ read \in Nat /\ need \in Nat /\ need > 0 /\ rframe = read + need
      /\ Capacity \in Nat \ {0} /\ Word \in Nat \ {0}
      /\ seen \in 0..Len(log) /\ acq \in 0..Len(log) /\ Len(log) \in Nat
      /\ end \in Nat /\ end - read < Word
  <2>1. Capacity \in Nat \ {0} /\ Word \in Nat \ {0}
    BY RingAssumption
  <2>2. TypeOK /\ ConsumerAt /\ IndexKnown
    BY DEF Inv, ConsumerInv
  <2>3. seen \in 0..Len(log) /\ acq \in 0..Len(log) /\ Len(log) \in Nat
    BY <2>2, LogTyped DEF TypeOK, Views
  <2>4. read \in Nat /\ need \in Nat /\ end \in Nat
    BY <2>2, LogTyped DEF TypeOK
  <2>5. need > 0 /\ rframe = read + need
    BY <2>2 DEF ConsumerAt
  <2>6. end - read < Word
    BY <2>2 DEF IndexKnown
  <2> QED
    BY <2>1, <2>3, <2>4, <2>5, <2>6
<1> DEFINE R == ValueAt(Reserved, t)
<1>2. AcquireFence \in 0..Len(log) /\ seen <= AcquireFence /\ acq <= AcquireFence
  BY <1>1 DEF AcquireFence, Later
<1>3. Copied(i, c)
  BY <1>1 DEF Inv, ConsumerInv, CopiedFromStores
<1>4. PICK s \in 1..Len(log) : /\ log[s].loc = Slot(read + i, c)
                               /\ log[s].val = out[<<i, c>>]
                               /\ log[s].rel <= acq
  BY <1>3 DEF Copied
<1>5. /\ log[s].val \in Nat /\ log[s].rel \in Nat /\ log[s].rel <= s
      /\ log[s].val >= read + i
  BY <1>3, <1>4, LogTyped DEF Inv, Copied
<1>6. PICK d \in 0..Channels-1 : Slot(read + i, c) = Slot(log[s].val, d)
  BY <1>1, <1>4, SlotTyped DEF Inv, LogInv, StoresShaped, SlotStore
<1>7. (read + i) % Capacity = log[s].val % Capacity
  BY <1>6, SlotSame
(* Any reservation in the acquired view is at most the one loaded.         *)
<1>8. ASSUME NEW r \in 1..Len(log), log[r].loc = Reserved, r <= AcquireFence
      PROVE log[r].val <= R /\ t \in 1..Len(log)
  <2>1. r \in Stores(Reserved)
    BY <1>8 DEF Stores
  <2>2. r <= t /\ t \in 1..Len(log) /\ log[t].loc = Reserved
    BY <1>8, <2>1, LogTyped DEF Inv, Readable, Stores
  <2>3. log[r].val <= log[t].val
    BY <1>8, <2>2, LogTyped DEF Inv, LogInv, StoresOrdered
  <2> QED
    BY <2>2, <2>3 DEF ValueAt
<1>9. PICK r \in 1..log[s].rel : log[r].loc = Reserved /\ log[r].val > log[s].val
  <2>1. SlotStore(log[s])
    BY <1>4, <1>6 DEF SlotStore
  <2> QED
    BY <2>1 DEF Inv, LogInv, StoresReserved
<1>10. r \in 1..Len(log) /\ r <= AcquireFence /\ log[r].val \in Nat
  <2>1. log[s].rel \in Nat /\ log[s].rel <= acq
    BY <1>4, <1>5
  <2>2. acq \in Nat /\ acq <= Len(log) /\ Len(log) \in Nat /\ AcquireFence \in Nat
    BY <1>1, <1>2
  <2>3. r \in Nat /\ 1 <= r /\ r <= acq
    BY <2>1, <2>2
  <2>4. r \in 1..Len(log) /\ r <= AcquireFence
    BY <1>2, <2>2, <2>3
  <2> QED
    BY <2>4, LogTyped DEF Inv
<1>11. /\ R \in Nat /\ R <= end /\ log[s].val < R
  <2>1. log[r].val <= R /\ t \in 1..Len(log)
    BY <1>8, <1>9, <1>10
  <2>2. R = log[t].val /\ R \in Nat /\ R <= end
    BY <2>1, LogTyped DEF Inv, LogInv, StoresBounded, ValueAt
  <2> QED
    BY <1>5, <1>9, <1>10, <2>1, <2>2
<1> HIDE DEF R
<1>12. R - read \in Nat /\ R - read < Word
  <2>1. log[s].val \in Nat /\ log[s].val >= read
    BY <1>1, <1>5
  <2> QED
    BY <1>1, <1>11, <2>1, Between
<1>13. R - read <= Capacity
  <2>1. (R - read) % Word = R - read
    BY <1>1, <1>12, ModIdentity
  <2> QED
    BY <1>1, <1>12, <2>1 DEF Lapped, WrapSub, R
<1>14. log[s].val - (read + i) < Capacity /\ read + i \in Nat
  BY <1>1, <1>5, <1>11, <1>13
<1>15. log[s].val = read + i
  BY <1>1, <1>5, <1>7, <1>14, SameLap
<1> QED
  BY <1>4, <1>15

(* The check: the buffer is whole, or the index does not move.             *)
LEMMA CheckStep ==
  ASSUME Inv, CheckReserved
  PROVE Inv'
<1>1. PICK t \in Readable(Reserved, AcquireFence) :
        /\ last' = [last EXCEPT ![Reserved] = t]
        /\ \/ /\ ret' = "lapped"
              /\ UNCHANGED <<read, delivered>>
           \/ /\ ~Lapped(ValueAt(Reserved, t))
              /\ ret' = "ok"
              /\ read' = read + need
              /\ delivered' = [from |-> read, pcm |-> out]
  BY DEF CheckReserved
<1>2. /\ cpc = "check" /\ cpc' = "idle" /\ seen' = AcquireFence
      /\ UNCHANGED <<log, producerVars, acq, need, rframe, rchan, out, closeVars>>
  BY DEF CheckReserved
<1>3. /\ read \in Nat /\ need \in Nat /\ need > 0
      /\ seen \in 0..Len(log) /\ acq \in 0..Len(log) /\ Len(log) \in Nat
      /\ last \in [Locations -> 0..Len(log)]
      /\ end \in Nat /\ end - read < Word /\ Word \in Nat
      /\ last[Write] \in Stores(Write) /\ read <= ValueAt(Write, last[Write])
      /\ out \in Buffers /\ DOMAIN out = (0..need-1) \X (0..Channels-1)
  BY <1>2, RingAssumption, LogTyped
  DEF Inv, TypeOK, Views, ConsumerInv, ConsumerAt, IndexKnown
<1>4. seen' \in 0..Len(log)
  BY <1>2, <1>3 DEF AcquireFence, Later
<1>5. read' \in Nat /\ read <= read' /\ (read' = read \/ read' = read + need)
  BY <1>1, <1>3
<1>6. last' \in [Locations -> 0..Len(log)] /\ last'[Write] = last[Write]
  <2>1. t \in 0..Len(log)
    BY <1>3 DEF Readable, Stores
  <2> QED
    BY <1>1, <1>3, <2>1, IndexTyped
<1>7. TypeOK'
  <2>1. delivered' \in [from : Nat, pcm : Buffers] /\ ret' \in {"none", "short", "lapped", "ok"}
    BY <1>1, <1>3 DEF Inv, TypeOK
  <2>2. UNCHANGED <<closed, closeView, sawClosed>>
    BY <1>2 DEF closeVars
  <2> QED
    BY <1>2, <1>3, <1>4, <1>5, <1>6, <2>1, <2>2, ConsumerTypes DEF Inv, TypeOK
<1>8. LogInv' /\ ProducerAt'
  BY <1>2, ProducerUnmoved
<1>9. NoTornRead'
  <2>1. CASE UNCHANGED <<read, delivered>>
    BY <2>1 DEF Inv, NoTornRead
  <2>2. CASE ~Lapped(ValueAt(Reserved, t)) /\ delivered' = [from |-> read, pcm |-> out]
    <3>1. \A i \in 0..need-1, c \in 0..Channels-1 : out[<<i, c>>] = read + i
      BY <1>2, <2>2, NotLappedMeansWhole
    <3>2. \A p \in (0..need-1) \X (0..Channels-1) : out[p] = read + p[1]
      BY <3>1
    <3> QED
      BY <1>3, <2>2, <3>2 DEF NoTornRead
  <2> QED
    BY <1>1, <2>1, <2>2
<1>10. IndexKnown'
  <2>1. /\ last[Write] \in 1..seen /\ log[last[Write]].loc = Write
        /\ log[last[Write]].val >= read + need
    BY <1>2 DEF Inv, ConsumerInv, ConsumerAt
  <2>2. UNCHANGED <<log, end>>
    BY <1>2 DEF producerVars
  <2>3. read' <= ValueAt(Write, last[Write])
    BY <1>3, <1>5, <2>1 DEF ValueAt
  <2>4. end' - read' < Word
    <3>1. ASSUME NEW a \in Nat, NEW b \in Nat, NEW c \in Nat, NEW w \in Nat, a - b < w, b <= c
          PROVE a - c < w
      BY <3>1
    <3> QED
      BY <1>3, <1>5, <2>2, <3>1
  <2> QED
    BY <1>3, <1>6, <2>2, <2>3, <2>4
    DEF IndexKnown, Stores, ValueAt, Write, Initial, SlotLocations
<1>11. ConsumerAt' /\ CopiedFromStores'
  BY <1>2 DEF ConsumerAt, CopiedFromStores
<1> QED
  BY <1>7, <1>8, <1>9, <1>10, <1>11 DEF Inv, ConsumerInv

(* available_frames only learns a newer `write`.                           *)
LEMMA AvailableStep ==
  ASSUME Inv, AvailableFrames
  PROVE Inv'
<1>1. PICK t \in Readable(Write, seen) : LoadAcquire(Write, t)
  BY DEF AvailableFrames
<1>2. cpc = "idle" /\ UNCHANGED <<log, producerVars, readVars, closeVars>> /\ read \in Nat
  BY DEF AvailableFrames, Inv, TypeOK
<1>3. UNCHANGED <<cpc, read, need, rframe, rchan, out, ret, delivered,
                  closed, closeView, sawClosed>>
  BY <1>2 DEF readVars, closeVars
<1>4. /\ seen' \in 0..Len(log) /\ acq' \in 0..Len(log)
      /\ last' \in [Locations -> 0..Len(log)]
      /\ IndexKnown'
  BY <1>1, <1>2, <1>3, WriteLoaded, WriteLoadStep
<1>5. TypeOK'
  BY <1>2, <1>3, <1>4, ConsumerTypes DEF Inv, TypeOK
<1>6. LogInv' /\ ProducerAt' /\ NoTornRead'
  BY <1>2, <1>3, ProducerUnmoved DEF Inv, NoTornRead
<1>7. ConsumerAt' /\ CopiedFromStores'
  BY <1>2, <1>3 DEF ConsumerAt, CopiedFromStores
<1> QED
  BY <1>4, <1>5, <1>6, <1>7 DEF Inv, ConsumerInv

(* A skip stops at the `write` it loaded.                                  *)
LEMMA SkipStep ==
  ASSUME Inv, NEW frames \in Skips, SkipFrames(frames)
  PROVE Inv'
<1>1. PICK t \in Readable(Write, seen) : LoadAcquire(Write, t) /\ read' = SkipTo(frames, t)
  BY DEF SkipFrames
<1>2. /\ cpc = "idle" /\ UNCHANGED <<log, producerVars, closeVars>>
      /\ UNCHANGED <<cpc, need, rframe, rchan, out, ret, delivered>>
      /\ read \in Nat /\ frames \in Nat
  BY RingAssumption DEF SkipFrames, Inv, TypeOK
<1>3. read' \in Nat /\ read <= read' /\ read' <= ValueAt(Write, t)
  BY <1>1, <1>2, WriteLoaded DEF SkipTo, Least
<1>4. /\ seen' \in 0..Len(log) /\ acq' \in 0..Len(log)
      /\ last' \in [Locations -> 0..Len(log)]
      /\ IndexKnown'
  BY <1>1, <1>2, <1>3, WriteLoadStep
<1>5. TypeOK'
  BY <1>2, <1>3, <1>4, ConsumerTypes DEF Inv, TypeOK, closeVars
<1>6. LogInv' /\ ProducerAt' /\ NoTornRead'
  BY <1>2, ProducerUnmoved DEF Inv, NoTornRead
<1>7. ConsumerAt' /\ CopiedFromStores'
  BY <1>2 DEF ConsumerAt, CopiedFromStores
<1> QED
  BY <1>4, <1>5, <1>6, <1>7 DEF Inv, ConsumerInv

(* Steps on the `closed` flag, and steps of neither endpoint.              *)
LEMMA OtherSteps ==
  ASSUME Inv, IsClosed \/ (\E own \in BOOLEAN : Close(own)) \/ UNCHANGED vars
  PROVE Inv'
<1>1. /\ UNCHANGED <<log, producerVars, acq, last, cpc, read, need, rframe, rchan, out,
                      ret, delivered>>
      /\ cpc # "idle" => seen' = seen
  BY DEF IsClosed, Close, vars, viewVars, readVars
<1>2. Len(log) \in Nat /\ seen \in 0..Len(log) /\ closeView \in 0..Len(log)
  BY LogTyped DEF Inv, TypeOK, Views
<1>3. /\ seen' \in 0..Len(log) /\ closeView' \in 0..Len(log)
      /\ closed' \in BOOLEAN /\ sawClosed' \in BOOLEAN
  <2>1. closed \in BOOLEAN /\ sawClosed \in BOOLEAN
    BY DEF Inv, TypeOK
  <2>2. CASE IsClosed
    BY <1>2, <2>1, <2>2 DEF IsClosed, CloseAcquired, Later
  <2>3. CASE \E own \in BOOLEAN : Close(own)
    BY <1>2, <2>1, <2>3 DEF Close, viewVars
  <2>4. CASE UNCHANGED vars
    BY <1>2, <2>1, <2>4 DEF vars, viewVars, closeVars
  <2> QED
    BY <2>2, <2>3, <2>4
<1>4. TypeOK'
  <2>1. UNCHANGED <<log, ppc, base, pframe, pchan, end, fenced>>
    BY <1>1 DEF producerVars
  <2> QED
    BY <1>1, <1>3, <2>1 DEF Inv, TypeOK, Views, Buffers, Samples
<1>5. LogInv' /\ ProducerAt' /\ NoTornRead'
  BY <1>1, ProducerUnmoved DEF Inv, NoTornRead
<1>6. IndexKnown'
  <2>1. UNCHANGED <<log, end, last, read>> /\ IndexKnown
    BY <1>1 DEF producerVars, Inv, ConsumerInv
  <2> QED
    BY <2>1 DEF IndexKnown, Stores, ValueAt, Write, Initial, SlotLocations
<1>7. ConsumerAt'
  <2>1. ConsumerAt
    BY DEF Inv, ConsumerInv
  <2> QED
    BY <1>1, <2>1 DEF ConsumerAt, Write
<1>8. CopiedFromStores'
  <2>1. CopiedFromStores
    BY DEF Inv, ConsumerInv
  <2>2. \A i, c : Copied(i, c) => Copied(i, c)'
    BY <1>1 DEF Copied, Slot
  <2> QED
    BY <1>1, <2>1, <2>2 DEF CopiedFromStores
<1> QED
  BY <1>4, <1>5, <1>6, <1>7, <1>8 DEF Inv, ConsumerInv

-----------------------------------------------------------------------------
(* The empty log satisfies the invariant.                                  *)
LEMMA InitInv == Init => Inv
<1> SUFFICES ASSUME Init PROVE Inv
  OBVIOUS
<1>1. Len(log) = 0 /\ log \in Seq(Stored) /\ \A t \in 1..Len(log) : FALSE
  BY DEF Init
<1>2. TypeOK
  <2>1. /\ 0 \in 0..MaxWritten /\ 0 \in 0..Channels-1
    BY RingAssumption
  <2>2. last \in [Locations -> 0..Len(log)]
    BY <1>1 DEF Init
  <2>3. out \in Buffers /\ delivered \in [from : Nat, pcm : Buffers]
    BY BlankTyped DEF Init
  <2>4. 0 \in Nat /\ 0 \in Views
    BY <1>1 DEF Views
  <2> QED
    BY <1>1, <2>1, <2>2, <2>3, <2>4 DEF Init, TypeOK, Views
<1>3. LogInv
  <2>1. PassedStored
    BY DEF Init, PassedStored
  <2> QED
    BY <1>1, <2>1 DEF LogInv, StoresShaped, StoresOrdered, StoresBounded, StoresReserved,
       PublishedStored
<1>4. ProducerAt
  BY DEF Init, ProducerAt
<1>5. IndexKnown
  BY RingAssumption, IndexTyped DEF Init, IndexKnown, Stores, ValueAt
<1>6. ConsumerAt /\ CopiedFromStores
  BY DEF Init, ConsumerAt, CopiedFromStores
<1>7. NoTornRead
  <2>1. DOMAIN delivered.pcm = {}
    BY BlankTyped DEF Init, Blank
  <2> QED
    BY <2>1 DEF NoTornRead
<1> QED
  BY <1>2, <1>3, <1>4, <1>5, <1>6, <1>7 DEF Inv, ConsumerInv

(* Every step of either endpoint keeps it.                                 *)
LEMMA NextInv == Inv /\ [Next]_vars => Inv'
<1> SUFFICES ASSUME Inv, [Next]_vars PROVE Inv'
  OBVIOUS
<1>1. CASE Producer
  BY <1>1, ReserveStep, StoreStep, PublishStep DEF Producer
<1>2. CASE Consumer
  BY <1>2, ReadFramesStep, CopyStep, CheckStep, AvailableStep, SkipStep, OtherSteps
  DEF Consumer
<1>3. CASE \E own \in BOOLEAN : Close(own)
  BY <1>3, OtherSteps
<1>4. CASE UNCHANGED vars
  BY <1>4, OtherSteps
<1> QED
  BY <1>1, <1>2, <1>3, <1>4 DEF Next

(* The invariant holds in every reachable state.                           *)
THEOREM Invariance == Spec => []Inv
BY InitInv, NextInv, PTL DEF Spec

(* Every variable keeps its type; in particular no slot index leaves the   *)
(* buffer (audio_ring.rs:80, 99).                                          *)
THEOREM TypeCorrect == Spec => []TypeOK
<1>1. Inv => TypeOK
  BY DEF Inv
<1> QED
  BY <1>1, Invariance, PTL

(* For every capacity, channel count and batch size, and whatever stale    *)
(* value each load returns: a buffer read_frames returned true on is the   *)
(* frames the index stood for, whole (audio_ring.rs:86-109).               *)
THEOREM NeverTorn == Spec => []NoTornRead
<1>1. Inv => NoTornRead
  BY DEF Inv
<1> QED
  BY <1>1, Invariance, PTL

(* Neither reads nor skips take the consumer past the producer             *)
(* (audio_ring.rs:107, 115).                                               *)
THEOREM NeverAhead == Spec => []ReadNeverPassesWrite
<1>1. ASSUME Inv PROVE ReadNeverPassesWrite
  <2>1. /\ last[Write] \in 0..Len(log) /\ read \in Nat
        /\ last[Write] > 0 => log[last[Write]].loc = Write /\ log[last[Write]].val \in Nat
        /\ read <= ValueAt(Write, last[Write])
        /\ Published \in Nat
    BY <1>1, LogTyped, RingAssumption
    DEF Inv, TypeOK, ConsumerInv, IndexKnown, Stores, Published
  <2>2. ValueAt(Write, last[Write]) <= Published /\ ValueAt(Write, last[Write]) \in Nat
    <3>1. CASE last[Write] = 0
      BY <2>1, <3>1, IndexTyped DEF ValueAt
    <3>2. CASE last[Write] > 0
      <4>1. last[Write] \in 1..Len(log)
        BY <2>1, <3>2
      <4>2. log[last[Write]].val <= Published
        BY <1>1, <2>1, <3>2, <4>1 DEF Inv, LogInv, StoresBounded
      <4> QED
        BY <2>1, <3>2, <4>1, <4>2 DEF ValueAt
    <3> QED
      BY <2>1, <3>1, <3>2
  <2> QED
    BY <2>1, <2>2 DEF ReadNeverPassesWrite
<1> QED
  BY <1>1, Invariance, PTL

-----------------------------------------------------------------------------
(* What a consumer that has loaded `closed` may still be shown.            *)

TailInv == sawClosed => closed /\ closeView <= seen

(* The consumer's view never shrinks.                                      *)
LEMMA SeenGrows ==
  ASSUME Inv, [Next]_vars, ~IsClosed, \A own \in BOOLEAN : ~Close(own)
  PROVE UNCHANGED closeVars /\ seen <= seen'
<1>1. seen \in Nat /\ acq \in Nat
  BY LogTyped DEF Inv, TypeOK, Views
<1>2. ASSUME NEW t \in Readable(Write, seen), LoadAcquire(Write, t) PROVE seen <= seen'
  BY <1>2, WriteLoaded DEF LoadAcquire
<1>3. CASE Producer
  BY <1>1, <1>3 DEF Producer, Reserve, StoreSample, PublishBatch, viewVars
<1>4. ASSUME NEW n \in Requests, ReadFrames(n) PROVE UNCHANGED closeVars /\ seen <= seen'
  BY <1>2, <1>4 DEF ReadFrames
<1>5. CASE CopySample
  BY <1>1, <1>5 DEF CopySample
<1>6. CASE CheckReserved
  BY <1>1, <1>6 DEF CheckReserved, AcquireFence, Later
<1>7. CASE AvailableFrames
  BY <1>2, <1>7 DEF AvailableFrames
<1>8. ASSUME NEW n \in Skips, SkipFrames(n) PROVE UNCHANGED closeVars /\ seen <= seen'
  BY <1>2, <1>8 DEF SkipFrames
<1>9. CASE UNCHANGED vars
  BY <1>1, <1>9 DEF vars, viewVars
<1> QED
  BY <1>3, <1>4, <1>5, <1>6, <1>7, <1>8, <1>9 DEF Next, Consumer

LEMMA TailKept == Inv /\ TailInv /\ [Next]_vars => TailInv'
<1> SUFFICES ASSUME Inv, TailInv, [Next]_vars PROVE TailInv'
  OBVIOUS
<1>1. seen \in Nat /\ closeView \in Nat
  BY LogTyped DEF Inv, TypeOK, Views
<1>2. CASE IsClosed
  BY <1>1, <1>2 DEF IsClosed, CloseAcquired, Later, TailInv
<1>3. ASSUME NEW own \in BOOLEAN, Close(own) PROVE TailInv'
  BY <1>3 DEF Close, TailInv
<1>4. CASE UNCHANGED closeVars /\ seen <= seen'
  <2>1. TypeOK'
    BY NextInv DEF Inv
  <2>2. seen' \in Nat
    BY <2>1 DEF TypeOK, Views
  <2> QED
    BY <1>1, <1>4, <2>2 DEF TailInv, closeVars
<1> QED
  BY <1>2, <1>3, <1>4, SeenGrows

(* A consumer that has seen `closed` from the producer's thread sees every *)
(* batch written before it, so the tail it drains after closing is never   *)
(* hidden from it (audio_ring.rs:48, 52).                                  *)
THEOREM TailVisible == Spec => []CloseSeesTail
<1>1. Inv /\ TailInv => CloseSeesTail
  <2> SUFFICES ASSUME Inv, closeView <= seen,
                      NEW t \in Readable(Write, seen), NEW u \in Stores(Write), u <= closeView
               PROVE u <= t
    BY DEF TailInv, CloseSeesTail
  <2>1. u \in Nat /\ seen \in Nat /\ closeView \in Nat
    BY LogTyped DEF Inv, TypeOK, Views, Stores
  <2> QED
    BY <2>1 DEF Readable
<1>2. Init => TailInv
  BY DEF Init, TailInv
<1> QED
  BY <1>1, <1>2, TailKept, Invariance, PTL DEF Spec

-----------------------------------------------------------------------------
(* A refusal is justified.                                                 *)

(* The store of `write` a read relied on released the reservation of its   *)
(* batch, so the reservation loaded after the fence is not behind `read`,  *)
(* and the wrapping difference is the difference.                          *)
LEMMA LappedIsReal ==
  ASSUME Inv, cpc = "check",
         NEW t \in Readable(Reserved, AcquireFence), Lapped(ValueAt(Reserved, t))
  PROVE end - read > Capacity
<1>1. /\ read \in Nat /\ need \in Nat \ {0} /\ end \in Nat /\ end - read < Word
      /\ Word \in Nat \ {0} /\ Capacity \in Nat \ {0} /\ Channels \in Nat \ {0}
      /\ seen \in 0..Len(log) /\ acq \in 0..Len(log) /\ Len(log) \in Nat
      /\ last[Write] \in 1..seen
      /\ log[last[Write]].loc = Write /\ log[last[Write]].val >= read + need
  BY LogTyped, RingAssumption DEF Inv, TypeOK, Views, ConsumerInv, ConsumerAt, IndexKnown
<1> DEFINE w == last[Write]
           f == log[w].val - 1
<1>2. w \in 1..Len(log) /\ log[w].val \in Nat /\ f \in 0..log[w].val-1 /\ 0 \in 0..Channels-1
  <2>1. w \in 1..Len(log)
    BY <1>1
  <2>2. log[w].val \in Nat
    BY <2>1, LogTyped DEF Inv
  <2>3. \A a, b \in Nat, n \in Nat \ {0} : a >= b + n => a - 1 \in 0..a-1
    OBVIOUS
  <2>4. log[w].val >= read + need /\ read \in Nat /\ need \in Nat \ {0}
    BY <1>1
  <2>5. f \in 0..log[w].val-1
    BY <2>2, <2>3, <2>4
  <2>6. 0 \in 0..Channels-1
    BY <1>1
  <2> QED
    BY <2>1, <2>2, <2>5, <2>6
<1>3. PICK u \in 1..w : Puts(log[u], f, 0)
  <2>1. PublishedStored /\ log[w].loc = Write
    BY <1>1 DEF Inv, LogInv
  <2>2. \A g \in 0..log[w].val-1, c \in 0..Channels-1 : \E u \in 1..w : Puts(log[u], g, c)
    BY <1>2, <2>1 DEF PublishedStored
  <2> QED
    BY <1>2, <2>2
<1>4. u \in 1..Len(log) /\ SlotStore(log[u]) /\ log[u].val = f
  BY <1>2, <1>3 DEF Puts, SlotStore
<1>5. PICK r \in 1..log[u].rel : log[r].loc = Reserved /\ log[r].val > f
  BY <1>4 DEF Inv, LogInv, StoresReserved
<1>6. r \in 1..Len(log) /\ r <= w /\ log[r].val \in Nat
  <2>1. log[u].rel \in Nat /\ log[u].rel <= u /\ u <= w /\ u \in Nat
    BY <1>2, <1>3, <1>4, LogTyped DEF Inv
  <2>2. r \in 1..Len(log) /\ r <= w
    BY <1>2, <1>5, <2>1
  <2> QED
    BY <2>2, LogTyped DEF Inv
<1>7. AcquireFence \in Nat /\ r <= AcquireFence
  BY <1>1, <1>6 DEF AcquireFence, Later
<1>8. r <= t /\ t \in 1..Len(log) /\ log[t].loc = Reserved
  <2>1. r \in Stores(Reserved)
    BY <1>5, <1>6 DEF Stores
  <2> QED
    BY <1>6, <1>7, <2>1, LogTyped DEF Inv, Readable, Stores
<1>9. log[r].val <= log[t].val /\ log[t].val \in Nat /\ log[t].val <= end
  BY <1>5, <1>6, <1>8, LogTyped DEF Inv, LogInv, StoresOrdered, StoresBounded
<1> DEFINE R == log[t].val
<1>10. ValueAt(Reserved, t) = R
  BY <1>8 DEF ValueAt
<1>11. R \in Nat /\ read <= R /\ R <= end
  <2>1. log[r].val > log[w].val - 1 /\ log[w].val >= read + need
    BY <1>1, <1>5
  <2>2. log[w].val \in Nat /\ log[r].val \in Nat /\ R \in Nat /\ log[r].val <= R /\ R <= end
    BY <1>2, <1>6, <1>9
  <2> HIDE DEF R, w
  <2>3. read \in Nat /\ need \in Nat
    BY <1>1
  <2>4. \A a, b, c, d, n \in Nat : a > b - 1 /\ b >= c + n /\ a <= d => c <= d
    OBVIOUS
  <2> QED
    BY <2>1, <2>2, <2>3, <2>4
<1> HIDE DEF R
<1>12. R - read \in Nat /\ R - read < Word /\ R - read <= end - read
  BY <1>1, <1>11
<1>13. (R - read) % Word = R - read
  BY <1>1, <1>12, ModIdentity
<1>14. R - read > Capacity
  BY <1>10, <1>13 DEF Lapped, WrapSub
<1> QED
  BY <1>1, <1>11, <1>12, <1>14

(* read_frames refuses a buffer as lapped only if the producer has really  *)
(* reserved past the oldest frame wanted: a ring that is exactly full is   *)
(* still read, and a stale reservation is never taken for a lap            *)
(* (audio_ring.rs:104).                                                    *)
THEOREM RefusalJustified == Spec => RefusedOnlyWhenLapped
<1>1. ASSUME Inv, [Next]_vars, ret' = "lapped", ret # "lapped" PROVE end - read > Capacity
  <2>1. CheckReserved
    BY <1>1 DEF Next, Producer, Consumer, Reserve, StoreSample, PublishBatch, ReadFrames,
      CopySample, AvailableFrames, SkipFrames, IsClosed, Close, vars, readVars
  <2>2. cpc = "check" /\ \E t \in Readable(Reserved, AcquireFence) : Lapped(ValueAt(Reserved, t))
    BY <1>1, <2>1 DEF CheckReserved
  <2> QED
    BY <1>1, <2>2, LappedIsReal
<1>2. Inv /\ [Next]_vars => [ret' = "lapped" /\ ret # "lapped" => end - read > Capacity]_vars
  BY <1>1
<1> QED
  BY <1>2, Invariance, PTL DEF Spec, RefusedOnlyWhenLapped

-----------------------------------------------------------------------------
(* The ring implements the abstract ring.                                  *)

(* The ring starts as the abstract one does.                               *)
LEMMA RefinesInit == Init => Ring!Init
<1> SUFFICES ASSUME Init PROVE Ring!Init
  OBVIOUS
<1>1. Published = 0 /\ read = 0 /\ closed = FALSE
  BY DEF Init, Published
<1>2. delivered = Ring!Whole(0, 0)
  <2>1. (0..0-1) \X (0..Channels-1) = {}
    OBVIOUS
  <2> QED
    BY <2>1 DEF Init, Blank, Ring!Whole
<1> QED
  BY <1>1, <1>2 DEF Ring!Init

(* A step is a step of the abstract ring, or leaves it as it was.           *)
LEMMA RefinesStep ==
  ASSUME Inv, [Next]_vars
  PROVE [Ring!Next]_Ring!ringVars
<1>1. ASSUME UNCHANGED <<Published, read, delivered, closed>>
      PROVE [Ring!Next]_Ring!ringVars
  BY <1>1 DEF Ring!ringVars
<1>2. ASSUME NEW n \in Batches, Reserve(n)
      PROVE UNCHANGED <<Published, read, delivered, closed>>
  BY <1>2 DEF Reserve, Published, readVars, closeVars, Inv, ProducerAt
<1>3. ASSUME StoreSample
      PROVE UNCHANGED <<Published, read, delivered, closed>>
  BY <1>3 DEF StoreSample, Published, readVars, closeVars
<1>4. ASSUME PublishBatch
      PROVE \E n \in 1..Capacity : Ring!Publish(n)
  <2>1. /\ base \in Nat /\ end \in 0..MaxWritten /\ Capacity \in Nat /\ MaxWritten \in Nat
        /\ base < end /\ end <= base + Capacity
    BY <1>4, RingAssumption DEF PublishBatch, Inv, TypeOK, ProducerAt
  <2>2. Published = base /\ Published' = end /\ UNCHANGED <<read, delivered, closed>>
    BY <1>4 DEF PublishBatch, Published, readVars, closeVars
  <2>3. /\ end - base \in 1..Capacity /\ base + (end - base) = end
        /\ end <= MaxWritten
    BY <2>1
  <2>4. Ring!Publish(end - base)
    BY <2>2, <2>3 DEF Ring!Publish
  <2> QED
    BY <2>3, <2>4
<1>5. ASSUME NEW n \in Requests, ReadFrames(n)
      PROVE UNCHANGED <<Published, read, delivered, closed>>
  BY <1>5 DEF ReadFrames, Published, producerVars, closeVars
<1>6. ASSUME CopySample
      PROVE UNCHANGED <<Published, read, delivered, closed>>
  BY <1>6 DEF CopySample, Published, producerVars, closeVars
<1>7. ASSUME CheckReserved
      PROVE \/ UNCHANGED <<Published, read, delivered, closed>>
            \/ \E n \in Requests : Ring!Take(n)
  <2>1. cpc = "check" /\ UNCHANGED <<Published, closed>>
    BY <1>7 DEF CheckReserved, Published, producerVars, closeVars
  <2>2. PICK t \in Readable(Reserved, AcquireFence) :
          \/ UNCHANGED <<read, delivered>>
          \/ /\ ~Lapped(ValueAt(Reserved, t))
             /\ read' = read + need
             /\ delivered' = [from |-> read, pcm |-> out]
    BY <1>7 DEF CheckReserved
  <2>3. CASE /\ ~Lapped(ValueAt(Reserved, t))
             /\ read' = read + need
             /\ delivered' = [from |-> read, pcm |-> out]
    <3>1. /\ need \in Requests /\ read \in Nat /\ out \in Buffers
          /\ DOMAIN out = (0..need-1) \X (0..Channels-1)
      BY <2>1 DEF Inv, TypeOK, ConsumerInv, ConsumerAt
    <3>2. \A i \in 0..need-1, c \in 0..Channels-1 : out[<<i, c>>] = read + i
      BY <2>1, <2>3, NotLappedMeansWhole
    <3>3. out = [p \in (0..need-1) \X (0..Channels-1) |-> read + p[1]]
      <4>1. \A p \in (0..need-1) \X (0..Channels-1) : out[p] = read + p[1]
        BY <3>2
      <4>2. PICK n : out \in [(0..n-1) \X (0..Channels-1) -> Samples]
        BY <3>1 DEF Buffers
      <4> QED
        BY <3>1, <4>1, <4>2
    <3>4. delivered' = Ring!Whole(read, need)
      BY <2>3, <3>3 DEF Ring!Whole
    <3>5. read + need <= Published
      <4>1. /\ last[Write] \in 1..Len(log) /\ log[last[Write]].loc = Write
            /\ log[last[Write]].val >= read + need /\ log[last[Write]].val \in Nat
            /\ need \in Nat /\ Published \in Nat
        <5>1. /\ last[Write] \in 1..seen /\ log[last[Write]].loc = Write
              /\ log[last[Write]].val >= read + need
          BY <2>1 DEF Inv, ConsumerInv, ConsumerAt
        <5>2. seen \in 0..Len(log) /\ need \in Nat /\ Len(log) \in Nat
          BY LogTyped DEF Inv, TypeOK, Views
        <5>3. last[Write] \in 1..Len(log)
          BY <5>1, <5>2
        <5>4. log[last[Write]].val \in Nat
          BY <5>3, LogTyped DEF Inv
        <5>5. Published \in Nat
          BY RingAssumption DEF Inv, TypeOK, Published
        <5> QED
          BY <5>1, <5>2, <5>3, <5>4, <5>5
      <4>2. log[last[Write]].val <= Published
        BY <4>1 DEF Inv, LogInv, StoresBounded
      <4> QED
        BY <3>1, <4>1, <4>2
    <3>6. Ring!Take(need)
      BY <2>1, <2>3, <3>4, <3>5 DEF Ring!Take
    <3> QED
      BY <3>1, <3>6
  <2> QED
    BY <2>1, <2>2, <2>3
<1>8. ASSUME AvailableFrames
      PROVE UNCHANGED <<Published, read, delivered, closed>>
  BY <1>8 DEF AvailableFrames, Published, producerVars, readVars, closeVars
<1>9. ASSUME NEW frames \in Skips, SkipFrames(frames)
      PROVE \E n \in 0..(Published - read) : Ring!Skip(n)
  <2>1. PICK t \in Readable(Write, seen) : read' = SkipTo(frames, t)
    BY <1>9 DEF SkipFrames
  <2>2. UNCHANGED <<Published, delivered, closed>> /\ frames \in Nat /\ read \in Nat
    BY <1>9, RingAssumption DEF SkipFrames, Published, producerVars, closeVars, Inv, TypeOK
  <2>3. ValueAt(Write, t) \in Nat /\ ValueAt(Write, t) <= Published /\ Published \in Nat
    <3>1. Published \in Nat
      BY RingAssumption DEF Inv, TypeOK, Published
    <3>2. CASE t = 0
      BY <3>1, <3>2, IndexTyped DEF ValueAt
    <3>3. CASE t > 0
      <4>1. /\ t \in 1..Len(log) /\ log[t].loc = Write /\ log[t].val = ValueAt(Write, t)
            /\ log[t].val \in Nat
        BY <3>3, WriteLoaded
      <4> QED
        BY <3>1, <4>1 DEF Inv, LogInv, StoresBounded
    <3> QED
      BY <3>1, <3>2, <3>3, WriteLoaded
  <2>4. /\ read' - read \in 0..(Published - read)
        /\ read' = read + (read' - read)
    BY <2>1, <2>2, <2>3, WriteLoaded DEF SkipTo, Least
  <2>5. Ring!Skip(read' - read)
    BY <2>2, <2>4 DEF Ring!Skip
  <2> QED
    BY <2>4, <2>5
<1>10. ASSUME IsClosed
       PROVE UNCHANGED <<Published, read, delivered, closed>>
  BY <1>10 DEF IsClosed, Published, producerVars, readVars
<1>11. ASSUME NEW own \in BOOLEAN, Close(own)
       PROVE Ring!Close
  BY <1>11 DEF Close, Ring!Close, Published, producerVars, readVars
<1>12. ASSUME UNCHANGED vars
       PROVE UNCHANGED <<Published, read, delivered, closed>>
  BY <1>12 DEF vars, Published, producerVars, readVars, closeVars
<1> QED
  BY <1>1, <1>2, <1>3, <1>4, <1>5, <1>6, <1>7, <1>8, <1>9, <1>10, <1>11, <1>12
  DEF Next, Producer, Consumer, Ring!Next

(* Whatever the interleaving of stores and loads, the endpoints see a ring *)
(* whose calls are atomic: batches are published whole, buffers are taken  *)
(* whole and in line, and a skip stops at the producer's index             *)
(* (audio_ring.rs:61-116).                                                 *)
THEOREM Refinement == Spec => ImplementsLossyRing
<1>1. Init => Ring!Init
  BY RefinesInit
<1>2. Inv /\ [Next]_vars => [Ring!Next]_Ring!ringVars
  BY RefinesStep
<1> QED
  BY <1>1, <1>2, Invariance, PTL DEF Spec, ImplementsLossyRing, Ring!Spec
=============================================================================
