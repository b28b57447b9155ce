------------------------- MODULE CastChannel_proofs -------------------------
(***************************************************************************)
(* Machine-checked proofs about CastChannel: for every interval, time-out  *)
(* and round trip, and any number of messages, faults and ticks.           *)
(***************************************************************************)
EXTENDS CastChannel, SequenceTheorems, WellFoundedInduction, TLAPS

-----------------------------------------------------------------------------
(* The inductive invariant.                                                *)

Kinds == {"app", "PING", "PONG", "garbled", "oversized"}
Letters == [kind : Kinds, n : Nat]
Cell == [part : {"length", "body"}, of : Letters]
Ours == [kind : {"app"}, n : 1..MaxSends]

(* What is buffered and what is on the wire, as one stream.                *)
Stream == acc \o inWire

Places ==
  {"tcp", "tls", "hello", "stop?", "read", "frames", "outbound", "ping", "liveness",
   "failed", "flush", "exit", "done"}

Typed ==
  /\ dpc \in Places
  /\ cause \in {"none", "unconnected", "stop", "eof", "error", "framing", "dead"}
  /\ Connecting \/ Running <=> cause = "none"
  /\ addresses \in 0..MaxAddresses
  /\ stop \in BOOLEAN /\ dropped \in BOOLEAN /\ peerClosed \in BOOLEAN /\ polled \in BOOLEAN
  /\ accepted \in 0..MaxSends /\ faults \in 0..MaxFaults /\ lostPongs \in 0..MaxLostPongs
  /\ outbound \in Seq(Ours)

(* The stream is made of whole messages: it is cut between two of them     *)
(* once the one that was cut is taken.                                     *)
Framed(w) ==
  \A i \in 1..Len(w) :
    /\ w[i].part = "length" <=> i % 2 = 1
    /\ w[i].part = "length" => i < Len(w) /\ w[i + 1] = Body(w[i].of)

(* A message in the stream with a number is the one sent under it; the     *)
(* others are PONGs.                                                       *)
Genuine(w, sent) ==
  \A i \in 1..Len(w) :
    \/ w[i].of.n = 0 /\ w[i].of.kind = "PONG"
    \/ w[i].of.n \in 1..Len(sent) /\ sent[w[i].of.n] = w[i].of

(* The stream keeps the order of sending.                                  *)
Ordered(w) ==
  \A i, j \in 1..Len(w) :
    i < j /\ w[i].part = "body" /\ w[j].of.n # 0 => w[i].of.n < w[j].of.n

Numbered(sent) == \A n \in 1..Len(sent) : sent[n].n = n

(* What was forwarded was sent, in that order, and before what still       *)
(* waits.                                                                  *)
InOrder(got, w, sent) ==
  \A i \in 1..Len(got) :
    /\ got[i].kind = "app" /\ got[i].n \in 1..Len(sent) /\ got[i] = sent[got[i].n]
    /\ \A j \in 1..Len(got) : i < j => got[i].n < got[j].n
    /\ \A j \in 1..Len(w) : w[j].of.n # 0 => got[i].n < w[j].of.n

(* Nothing is lost.                                                        *)
Complete(got, w, sent) ==
  \A n \in 1..Len(sent) : sent[n].kind = "app" =>
    \/ \E i \in 1..Len(got) : got[i] = sent[n]
    \/ \E j \in 1..Len(w) : w[j] = Body(sent[n])

StreamInv ==
  /\ acc \in Seq(Cell) /\ inWire \in Seq(Cell)
  /\ peerSent \in Seq(Letters) /\ Len(peerSent) <= MaxPeerSends
  /\ incoming \in Seq(Letters)
  /\ Numbered(peerSent)
  /\ Framed(Stream) /\ Genuine(Stream, peerSent) /\ Ordered(Stream)
  /\ InOrder(incoming, Stream, peerSent) /\ Complete(incoming, Stream, peerSent)

(* Outside of the cutting no whole message is buffered; at the end of the  *)
(* stream, nothing is.                                                     *)
CutInv ==
  /\ Connecting \/ dpc \in {"stop?", "read", "outbound", "ping", "liveness"} => Len(acc) < 2
  /\ cause = "eof" => acc = <<>> /\ inWire = <<>> /\ peerClosed

ClockInv ==
  /\ now \in 0..MaxTime /\ lastPing \in 0..now /\ lastRx \in 0..now
  /\ pings \in Seq(Nat)
  /\ Connecting => now = 0 /\ lastPing = 0 /\ lastRx = 0 /\ ~polled

(* The clock advances after a full round of the loop: what the round found *)
(* not to be due was not due at this tick.                                 *)
RoundInv ==
  /\ Running => now - lastPing <= HeartbeatInterval /\ now - lastRx <= LivenessTimeout
  /\ Running /\ polled => now - lastRx < LivenessTimeout
  /\ Running /\ (polled \/ dpc = "liveness") => now - lastPing < HeartbeatInterval

(* As long as no PONG is lost, the PONG of the first PING after the last   *)
(* byte received is due, or it is here.                                    *)
AnswerInv ==
  /\ \A i \in 1..Len(pings) : now <= pings[i] + MaxRtt
  /\ Running /\ faults = 0 /\ lostPongs = 0 =>
       /\ now - lastRx <= HeartbeatInterval + MaxRtt
       /\ \/ lastRx >= lastPing
          \/ inWire # <<>>
          \/ \E i \in 1..Len(pings) : pings[i] <= lastRx + HeartbeatInterval
  /\ cause = "dead" /\ HeartbeatInterval + MaxRtt < LivenessTimeout =>
       lostPongs > 0 \/ faults > 0

Inv == Typed /\ StreamInv /\ CutInv /\ ClockInv /\ RoundInv /\ AnswerInv

-----------------------------------------------------------------------------
(* Lemmas about constants, sequences and streams.                          *)

LEMMA ConstantsTyped ==
  /\ HeartbeatInterval \in Nat \ {0} /\ LivenessTimeout \in Nat \ {0} /\ MaxRtt \in Nat \ {0}
  /\ MaxPeerSends \in Nat /\ MaxSends \in Nat /\ MaxFaults \in Nat /\ MaxLostPongs \in Nat
  /\ MaxAddresses \in Nat /\ MaxTime \in Nat
  /\ PeerKinds \subseteq Kinds
BY ChannelAssumption DEF Kinds

LEMMA QueueTyped ==
  ASSUME NEW S, NEW q \in Seq(S)
  PROVE /\ \A e \in S : Append(q, e) \in Seq(S)
        /\ q # <<>> => Tail(q) \in Seq(S) /\ Head(q) \in S
OBVIOUS

LEMMA Appended ==
  ASSUME NEW S, NEW q \in Seq(S), NEW e \in S
  PROVE /\ Append(q, e) \in Seq(S)
        /\ Len(q) \in Nat /\ Len(Append(q, e)) = Len(q) + 1
        /\ \A i \in 1..Len(q) : Append(q, e)[i] = q[i]
        /\ Append(q, e)[Len(q) + 1] = e
OBVIOUS

LEMMA Dropped ==
  ASSUME NEW S, NEW q \in Seq(S), q # <<>>
  PROVE /\ Tail(q) \in Seq(S) /\ Len(q) \in Nat \ {0} /\ Len(Tail(q)) = Len(q) - 1
        /\ \A i \in 1..Len(q)-1 : Tail(q)[i] = q[i + 1]
OBVIOUS

(* Reading moves a cell from the wire to the buffer and leaves the stream. *)
LEMMA Moved ==
  ASSUME NEW S, NEW s \in Seq(S), NEW t \in Seq(S), NEW k \in 1..Len(t)
  PROVE /\ s \o SubSeq(t, 1, k) \in Seq(S)
        /\ SubSeq(t, k + 1, Len(t)) \in Seq(S)
        /\ (s \o SubSeq(t, 1, k)) \o SubSeq(t, k + 1, Len(t)) = s \o t
<1> DEFINE a == SubSeq(t, 1, k)
           b == SubSeq(t, k + 1, Len(t))
<1>1. Len(t) \in Nat /\ k \in Nat /\ 1 <= k /\ k <= Len(t)
  OBVIOUS
<1>2. a \in Seq(S) /\ b \in Seq(S)
  BY <1>1
<1>3. a \o b = SubSeq(t, 1, Len(t))
  <2>1. 1 \in 1..Len(t)+1 /\ k \in (1-1)..Len(t) /\ Len(t) \in k..Len(t)
    BY <1>1
  <2> QED
    BY <2>1, ConcatAdjacentSubSeq
<1>4. SubSeq(t, 1, Len(t)) = t
  BY SubSeqFull
<1> HIDE DEF a, b
<1>5. (s \o a) \o b = s \o (a \o b)
  BY <1>2, ConcatAssociative, SMTT(60)
<1>6. s \o a \in Seq(S)
  BY <1>2
<1>7. (s \o a) \o b = s \o t
  BY <1>3, <1>4, <1>5
<1> QED
  BY <1>2, <1>6, <1>7 DEF a, b

(* Cutting a message off takes two cells from the stream.                  *)
LEMMA CutOff ==
  ASSUME NEW S, NEW s \in Seq(S), NEW t \in Seq(S), Len(s) >= 2
  PROVE LET r == SubSeq(s, 3, Len(s))
            v == r \o t
            w == s \o t
        IN /\ r \in Seq(S) /\ v \in Seq(S) /\ w \in Seq(S)
           /\ Len(w) \in Nat /\ Len(w) >= 2 /\ Len(v) = Len(w) - 2
           /\ \A i \in 1..Len(v) : v[i] = w[i + 2]
           /\ w[1] = Head(s)
<1> DEFINE r == SubSeq(s, 3, Len(s))
<1>1. /\ Len(s) \in Nat /\ Len(t) \in Nat /\ Head(s) = s[1]
      /\ \A i \in 3..Len(s) : s[i] \in S
  OBVIOUS
<1>2. r \in Seq(S) /\ Len(r) = Len(s) - 2 /\ \A i \in 1..Len(r) : r[i] = s[i + 2]
  <2>1. /\ r \in Seq(S)
        /\ Len(r) = IF 3 <= Len(s) THEN Len(s) - 3 + 1 ELSE 0
        /\ \A i \in 1..Len(s) - 3 + 1 : r[i] = s[3 + i - 1]
    BY <1>1, SubSeqProperties
  <2> HIDE DEF r
  <2>2. Len(r) = Len(s) - 2
    <3>1. 3 <= Len(s) \/ Len(s) = 2
      <4>1. \A a \in Nat : a >= 2 => 3 <= a \/ a = 2
        OBVIOUS
      <4> QED
        BY <1>1, <4>1, Zenon
    <3>2. CASE 3 <= Len(s)
      <4>1. Len(r) = Len(s) - 3 + 1
        BY <2>1, <3>2
      <4> QED
        BY <1>1, <4>1
    <3>3. CASE Len(s) = 2
      BY <2>1, <3>3
    <3> QED
      BY <3>1, <3>2, <3>3
  <2>3. ASSUME NEW i \in 1..Len(r) PROVE r[i] = s[i + 2]
    <3>1. i \in 1..Len(s) - 3 + 1 /\ 3 + i - 1 = i + 2
      BY <1>1, <2>2
    <3> QED
      BY <2>1, <3>1
  <2> QED
    BY <2>1, <2>2, <2>3
<1> HIDE DEF r
<1>3. /\ r \o t \in Seq(S)
      /\ Len(r \o t) = Len(r) + Len(t)
      /\ \A i \in 1..Len(r)+Len(t) : (r \o t)[i] = IF i <= Len(r) THEN r[i] ELSE t[i - Len(r)]
  BY <1>2, ConcatProperties
<1>4. /\ s \o t \in Seq(S)
      /\ Len(s \o t) = Len(s) + Len(t)
      /\ \A i \in 1..Len(s)+Len(t) : (s \o t)[i] = IF i <= Len(s) THEN s[i] ELSE t[i - Len(s)]
  BY ConcatProperties
<1> DEFINE v == r \o t
           w == s \o t
<1> HIDE DEF v, w
<1>5. ASSUME NEW i \in 1..Len(v) PROVE v[i] = w[i + 2]
  <2>1. i \in 1..Len(r)+Len(t) /\ i + 2 \in 1..Len(s)+Len(t)
    BY <1>1, <1>2, <1>3 DEF v
  <2>2. CASE i <= Len(r)
    BY <1>1, <1>2, <1>3, <1>4, <2>1, <2>2 DEF v, w
  <2>3. CASE i > Len(r)
    <3>1. v[i] = t[i - Len(r)] /\ w[i + 2] = t[(i + 2) - Len(s)]
      BY <1>1, <1>2, <1>3, <1>4, <2>1, <2>3 DEF v, w
    <3>2. i - Len(r) = (i + 2) - Len(s)
      BY <1>1, <1>2
    <3> QED
      BY <3>1, <3>2
  <2> QED
    BY <1>1, <1>2, <2>1, <2>2, <2>3
<1>6. w[1] = Head(s)
  BY <1>1, <1>4 DEF w
<1>7. Len(w) \in Nat /\ Len(w) >= 2 /\ Len(v) = Len(w) - 2
  BY <1>1, <1>2, <1>3, <1>4 DEF v, w
<1> QED
  BY <1>2, <1>3, <1>4, <1>5, <1>6, <1>7 DEF r, v, w

(* A message sent adds two cells to the stream.                            *)
LEMMA PutOn ==
  ASSUME NEW S, NEW s \in Seq(S), NEW t \in Seq(S), NEW a \in S, NEW b \in S
  PROVE LET u == t \o <<a, b>>
            v == s \o u
            w == s \o t
        IN /\ u \in Seq(S) /\ v \in Seq(S) /\ w \in Seq(S)
           /\ Len(w) \in Nat /\ Len(v) = Len(w) + 2
           /\ \A i \in 1..Len(w) : v[i] = w[i]
           /\ v[Len(w) + 1] = a /\ v[Len(w) + 2] = b
<1> DEFINE e == <<a, b>>
           w == s \o t
           x == w \o e
<1>1. e \in Seq(S) /\ Len(e) = 2 /\ e[1] = a /\ e[2] = b
  OBVIOUS
<1> HIDE DEF e
<1>2. w \in Seq(S) /\ Len(w) \in Nat /\ t \o e \in Seq(S)
  BY <1>1
<1>3. (s \o t) \o e = s \o (t \o e)
  BY <1>1, ConcatAssociative, SMTT(60)
<1> HIDE DEF w
<1>4. /\ x \in Seq(S) /\ Len(x) = Len(w) + Len(e)
      /\ \A i \in 1..Len(w)+Len(e) : x[i] = IF i <= Len(w) THEN w[i] ELSE e[i - Len(w)]
  BY <1>1, <1>2, ConcatProperties
<1> HIDE DEF x
<1>5. Len(x) = Len(w) + 2 /\ \A i \in 1..Len(w) : x[i] = w[i]
  BY <1>1, <1>2, <1>4
<1>6. x[Len(w) + 1] = e[1] /\ x[Len(w) + 2] = e[2]
  <2>1. /\ Len(w) + 1 \in 1..Len(w)+Len(e) /\ ~(Len(w) + 1 <= Len(w))
        /\ Len(w) + 2 \in 1..Len(w)+Len(e) /\ ~(Len(w) + 2 <= Len(w))
        /\ (Len(w) + 1) - Len(w) = 1 /\ (Len(w) + 2) - Len(w) = 2
    BY <1>1, <1>2
  <2> QED
    BY <1>4, <2>1
<1>7. s \o (t \o e) = x
  BY <1>3 DEF w, x
<1>8. s \o (t \o e) \in Seq(S)
  BY <1>4, <1>7
<1> QED
  BY <1>1, <1>2, <1>5, <1>6, <1>7, <1>8 DEF e, w

(* The stream after a message is taken from its head.                      *)
LEMMA StreamShrinks ==
  ASSUME NEW w \in Seq(Cell), NEW v \in Seq(Cell), NEW sent,
         Len(w) >= 2, Len(v) = Len(w) - 2, \A i \in 1..Len(v) : v[i] = w[i + 2],
         Framed(w), Genuine(w, sent), Ordered(w)
  PROVE Framed(v) /\ Genuine(v, sent) /\ Ordered(v)
<1>1. Len(v) \in Nat /\ Len(w) \in Nat
  OBVIOUS
<1>2. ASSUME NEW i \in 1..Len(v) PROVE i \in Nat /\ i + 2 \in 1..Len(w) /\ v[i] = w[i + 2]
  BY <1>1
<1>3. Framed(v)
  <2> SUFFICES ASSUME NEW i \in 1..Len(v)
               PROVE /\ v[i].part = "length" <=> i % 2 = 1
                     /\ v[i].part = "length" => i < Len(v) /\ v[i + 1] = Body(v[i].of)
    BY DEF Framed
  <2>1. /\ w[i + 2].part = "length" <=> (i + 2) % 2 = 1
        /\ w[i + 2].part = "length" => i + 2 < Len(w) /\ w[i + 2 + 1] = Body(w[i + 2].of)
    BY <1>2 DEF Framed
  <2>2. (i + 2) % 2 = i % 2
    BY <1>2
  <2>3. i + 2 < Len(w) => i < Len(v) /\ i + 1 \in 1..Len(v) /\ i + 2 + 1 = (i + 1) + 2
    BY <1>1, <1>2
  <2>4. i + 2 < Len(w) => v[i + 1] = w[i + 2 + 1]
    BY <1>2, <2>3
  <2> QED
    BY <1>2, <2>1, <2>2, <2>3, <2>4
<1>4. Genuine(v, sent)
  BY <1>2 DEF Genuine
<1>5. Ordered(v)
  <2> SUFFICES ASSUME NEW i \in 1..Len(v), NEW j \in 1..Len(v),
                      i < j, v[i].part = "body", v[j].of.n # 0
               PROVE v[i].of.n < v[j].of.n
    BY DEF Ordered
  <2>1. i + 2 < j + 2
    BY <1>2
  <2> QED
    BY <1>2, <2>1 DEF Ordered
<1> QED
  BY <1>3, <1>4, <1>5

(* The stream after a message is put at its end: one that is numbered      *)
(* above all the others, or not numbered.                                  *)
LEMMA StreamGrows ==
  ASSUME NEW w \in Seq(Cell), NEW v \in Seq(Cell), NEW sent, NEW now_sent, NEW m \in Letters,
         Len(v) = Len(w) + 2, \A i \in 1..Len(w) : v[i] = w[i],
         v[Len(w) + 1] = Prefix(m), v[Len(w) + 2] = Body(m),
         Framed(w), Genuine(w, sent), Ordered(w),
         Len(sent) \in Nat, Len(now_sent) \in Nat, Len(sent) <= Len(now_sent),
         \A n \in 1..Len(sent) : now_sent[n] = sent[n],
         \/ m.n = 0 /\ m.kind = "PONG"
         \/ m.n \in 1..Len(now_sent) /\ m.n > Len(sent) /\ now_sent[m.n] = m
  PROVE Framed(v) /\ Genuine(v, now_sent) /\ Ordered(v)
<1>1. Len(v) \in Nat /\ Len(w) \in Nat
  OBVIOUS
<1>2. ASSUME NEW i \in 1..Len(v)
      PROVE i \in 1..Len(w) \/ i = Len(w) + 1 \/ i = Len(w) + 2
  BY <1>1
<1>3. /\ v[Len(w) + 1].part = "length" /\ v[Len(w) + 1].of = m
      /\ v[Len(w) + 2].part = "body" /\ v[Len(w) + 2].of = m
  BY DEF Prefix, Body
<1>4. ASSUME NEW i \in 1..Len(w) PROVE w[i].part \in {"length", "body"} /\ w[i].of \in Letters
  <2>1. w[i] \in Cell
    BY ElementOfSeq
  <2> QED
    BY <2>1 DEF Cell
<1>5. Len(w) % 2 = 0
  <2>1. CASE Len(w) = 0
    BY <2>1
  <2>2. CASE Len(w) > 0
    <3>1. Len(w) \in 1..Len(w) /\ ~(Len(w) < Len(w))
      BY <1>1, <2>2
    <3>2. ~(Len(w) % 2 = 1)
      BY <3>1 DEF Framed
    <3> QED
      BY <1>1, <3>2
  <2> QED
    BY <1>1, <2>1, <2>2
<1>6. Framed(v)
  <2> SUFFICES ASSUME NEW i \in 1..Len(v)
               PROVE /\ v[i].part = "length" <=> i % 2 = 1
                     /\ v[i].part = "length" => i < Len(v) /\ v[i + 1] = Body(v[i].of)
    BY DEF Framed
  <2>1. CASE i \in 1..Len(w)
    <3>1. v[i] = w[i] /\ (w[i].part = "length" <=> i % 2 = 1)
      BY <2>1 DEF Framed
    <3>2. w[i].part = "length" =>
            i < Len(w) /\ i + 1 \in 1..Len(w) /\ w[i + 1] = Body(w[i].of)
      BY <1>1, <2>1 DEF Framed
    <3> QED
      BY <1>1, <2>1, <3>1, <3>2
  <2>2. CASE i = Len(w) + 1
    <3>1. i % 2 = 1 /\ i + 1 = Len(w) + 2 /\ i < Len(v)
      BY <1>1, <1>5, <2>2
    <3> QED
      BY <1>3, <2>2, <3>1
  <2>3. CASE i = Len(w) + 2
    <3>1. i % 2 = 0
      BY <1>1, <1>5, <2>3
    <3> QED
      BY <1>3, <2>3, <3>1
  <2> QED
    BY <1>2, <2>1, <2>2, <2>3
<1>7. Genuine(v, now_sent)
  <2> SUFFICES ASSUME NEW i \in 1..Len(v)
               PROVE \/ v[i].of.n = 0 /\ v[i].of.kind = "PONG"
                     \/ v[i].of.n \in 1..Len(now_sent) /\ now_sent[v[i].of.n] = v[i].of
    BY DEF Genuine
  <2>1. CASE i \in 1..Len(w)
    BY <2>1 DEF Genuine
  <2>2. CASE i = Len(w) + 1 \/ i = Len(w) + 2
    BY <1>3, <2>2
  <2> QED
    BY <1>2, <2>1, <2>2
<1>8. Ordered(v)
  <2> SUFFICES ASSUME NEW i \in 1..Len(v), NEW j \in 1..Len(v),
                      i < j, v[i].part = "body", v[j].of.n # 0
               PROVE v[i].of.n < v[j].of.n
    BY DEF Ordered
  <2>1. CASE j \in 1..Len(w)
    <3>1. i \in 1..Len(w) /\ v[i] = w[i] /\ v[j] = w[j]
      BY <1>1, <2>1
    <3>2. i < j /\ w[i].part = "body" /\ w[j].of.n # 0
      BY <3>1
    <3> QED
      BY <3>1, <3>2, <2>1 DEF Ordered
  <2>2. CASE j = Len(w) + 1 \/ j = Len(w) + 2
    <3>1. i # Len(w) + 1
      BY <1>3
    <3>2. i \in 1..Len(w) /\ v[i] = w[i]
      BY <1>1, <1>2, <2>2, <3>1
    <3>3. v[j].of = m /\ m.n \in Nat /\ m.n > Len(sent)
      BY <1>3, <2>2 DEF Letters
    <3>4. w[i].of.n = 0 \/ w[i].of.n \in 1..Len(sent)
      BY <3>2 DEF Genuine
    <3> QED
      BY <3>2, <3>3, <3>4
  <2> QED
    BY <1>2, <2>1, <2>2
<1> QED
  BY <1>6, <1>7, <1>8

(* What a message that is taken from the stream leaves in order.           *)
LEMMA TakenFromStream ==
  ASSUME NEW w \in Seq(Cell), NEW v \in Seq(Cell), NEW sent, NEW got \in Seq(Letters),
         NEW m \in Letters, NEW more \in Seq(Letters),
         Len(w) >= 2, Len(v) = Len(w) - 2, \A i \in 1..Len(v) : v[i] = w[i + 2],
         m = w[1].of,
         Framed(w), Genuine(w, sent), Ordered(w),
         InOrder(got, w, sent), Complete(got, w, sent),
         \/ m.kind # "app" /\ more = got
         \/ m.kind = "app" /\ more = Append(got, m)
  PROVE InOrder(more, v, sent) /\ Complete(more, v, sent)
<1>1. Len(v) \in Nat /\ Len(w) \in Nat /\ Len(got) \in Nat
  OBVIOUS
<1>2. ASSUME NEW j \in 1..Len(v) PROVE j \in Nat /\ j + 2 \in 1..Len(w) /\ v[j] = w[j + 2]
  BY <1>1
<1>3. /\ 1 \in 1..Len(w) /\ 2 \in 1..Len(w)
      /\ w[1].part = "length" /\ w[2] = Body(m)
  <2>1. 1 \in 1..Len(w) /\ 2 \in 1..Len(w) /\ 1 % 2 = 1
    BY <1>1
  <2>2. w[1].part = "length" /\ w[1 + 1] = Body(w[1].of)
    BY <2>1 DEF Framed
  <2> QED
    BY <2>1, <2>2
<1>4. w[2].part = "body" /\ w[2].of = m
  BY <1>3 DEF Body
<1>5. ASSUME NEW j \in 1..Len(w) PROVE j = 1 \/ j = 2 \/ (j - 2 \in 1..Len(v) /\ v[j - 2] = w[j])
  <2> SUFFICES ASSUME j # 1, j # 2 PROVE j - 2 \in 1..Len(v) /\ v[j - 2] = w[j]
    OBVIOUS
  <2>1. j - 2 \in 1..Len(v) /\ (j - 2) + 2 = j
    BY <1>1
  <2> QED
    BY <1>2, <2>1
<1>6. CASE m.kind # "app"
  <2>1. more = got
    BY <1>6
  <2>2. InOrder(got, v, sent)
    BY <1>2 DEF InOrder
  <2>3. Complete(got, v, sent)
    <3> SUFFICES ASSUME NEW n \in 1..Len(sent), sent[n].kind = "app",
                        NEW j \in 1..Len(w), w[j] = Body(sent[n])
                 PROVE \E k \in 1..Len(v) : v[k] = Body(sent[n])
      BY DEF Complete
    <3>1. w[j].part = "body" /\ w[j].of = sent[n]
      BY DEF Body
    <3>2. j # 1 /\ j # 2
      BY <1>3, <1>4, <1>6, <3>1
    <3> QED
      BY <1>5, <3>2
  <2> QED
    BY <2>1, <2>2, <2>3
<1>7. CASE m.kind = "app"
  <2>1. more = Append(got, m)
    BY <1>7
  <2>2. /\ Len(more) = Len(got) + 1 /\ more[Len(got) + 1] = m
        /\ \A i \in 1..Len(got) : more[i] = got[i]
    BY <2>1, Appended
  <2>3. ASSUME NEW i \in 1..Len(more) PROVE i \in 1..Len(got) \/ i = Len(got) + 1
    BY <1>1, <2>2
  <2>4. m.n \in 1..Len(sent) /\ m = sent[m.n] /\ m.n # 0
    <3>1. m.n \in 1..Len(sent) /\ sent[m.n] = m
      BY <1>3, <1>7 DEF Genuine
    <3>2. m.n # 0
      BY <1>3, <3>1
    <3> QED
      BY <3>1, <3>2
  <2>5. ASSUME NEW i \in 1..Len(got)
        PROVE got[i].n < m.n
    BY <1>3, <2>4 DEF InOrder
  <2>6. ASSUME NEW j \in 1..Len(v), v[j].of.n # 0
        PROVE m.n < v[j].of.n
    <3>1. 2 < j + 2
      BY <1>2
    <3> QED
      BY <1>2, <1>3, <1>4, <2>6, <3>1 DEF Ordered
  <2>7. InOrder(more, v, sent)
    <3> SUFFICES ASSUME NEW i \in 1..Len(more)
                 PROVE /\ more[i].kind = "app" /\ more[i].n \in 1..Len(sent)
                       /\ more[i] = sent[more[i].n]
                       /\ \A j \in 1..Len(more) : i < j => more[i].n < more[j].n
                       /\ \A j \in 1..Len(v) : v[j].of.n # 0 => more[i].n < v[j].of.n
      BY DEF InOrder
    <3>1. CASE i \in 1..Len(got)
      <4>1. more[i] = got[i] /\ got[i].n < m.n
        BY <2>2, <2>5, <3>1
      <4>2. \A j \in 1..Len(more) : i < j => more[i].n < more[j].n
        BY <2>2, <2>3, <3>1, <4>1 DEF InOrder
      <4>3. \A j \in 1..Len(v) : v[j].of.n # 0 => got[i].n < v[j].of.n
        BY <1>2, <3>1 DEF InOrder
      <4> QED
        BY <3>1, <4>1, <4>2, <4>3 DEF InOrder
    <3>2. CASE i = Len(got) + 1
      <4>1. \A j \in 1..Len(more) : ~(i < j)
        BY <1>1, <2>2, <3>2
      <4> QED
        BY <1>7, <2>2, <2>4, <2>6, <3>2, <4>1
    <3> QED
      BY <2>3, <3>1, <3>2
  <2>8. Complete(more, v, sent)
    <3> SUFFICES ASSUME NEW n \in 1..Len(sent), sent[n].kind = "app"
                 PROVE \/ \E i \in 1..Len(more) : more[i] = sent[n]
                       \/ \E j \in 1..Len(v) : v[j] = Body(sent[n])
      BY DEF Complete
    <3>1. CASE \E i \in 1..Len(got) : got[i] = sent[n]
      <4>1. PICK i \in 1..Len(got) : got[i] = sent[n]
        BY <3>1
      <4>2. i \in 1..Len(more) /\ more[i] = sent[n]
        BY <1>1, <2>2, <4>1
      <4> QED
        BY <4>2
    <3>2. CASE \E j \in 1..Len(w) : w[j] = Body(sent[n])
      <4>1. PICK j \in 1..Len(w) : w[j] = Body(sent[n])
        BY <3>2
      <4>2. w[j].part = "body" /\ w[j].of = sent[n]
        BY <4>1 DEF Body
      <4>3. j # 1
        BY <1>3, <4>2
      <4>4. CASE j = 2
        <5>1. Len(got) + 1 \in 1..Len(more) /\ more[Len(got) + 1] = sent[n]
          BY <1>1, <1>4, <2>2, <4>2, <4>4
        <5> QED
          BY <5>1
      <4>5. CASE j # 2
        BY <1>5, <4>1, <4>3, <4>5
      <4> QED
        BY <4>4, <4>5
    <3> QED
      BY <3>1, <3>2 DEF Complete
  <2> QED
    BY <2>7, <2>8
<1> QED
  BY <1>6, <1>7

(* What a message that is put on the stream leaves in order.               *)
LEMMA PutOnStream ==
  ASSUME NEW w \in Seq(Cell), NEW v \in Seq(Cell), NEW sent, NEW now_sent, NEW m \in Letters,
         NEW got \in Seq(Letters),
         Len(v) = Len(w) + 2, \A i \in 1..Len(w) : v[i] = w[i],
         v[Len(w) + 1] = Prefix(m), v[Len(w) + 2] = Body(m),
         InOrder(got, w, sent), Complete(got, w, sent),
         Len(sent) \in Nat, Len(now_sent) \in Nat,
         \A n \in 1..Len(sent) : now_sent[n] = sent[n],
         \/ m.n = 0 /\ Len(now_sent) = Len(sent)
         \/ m.n = Len(sent) + 1 /\ Len(now_sent) = Len(sent) + 1 /\ now_sent[m.n] = m
  PROVE InOrder(got, v, now_sent) /\ Complete(got, v, now_sent)
<1>1. Len(v) \in Nat /\ Len(w) \in Nat
  OBVIOUS
<1>2. ASSUME NEW j \in 1..Len(v)
      PROVE (j \in 1..Len(w) /\ v[j] = w[j]) \/ v[j].of = m
  <2>1. j \in 1..Len(w) \/ j = Len(w) + 1 \/ j = Len(w) + 2
    BY <1>1
  <2>2. Prefix(m).of = m /\ Body(m).of = m
    BY DEF Prefix, Body
  <2> QED
    BY <2>1, <2>2
<1>3. \A n \in 1..Len(sent) : n \in 1..Len(now_sent) /\ n < Len(sent) + 1
  OBVIOUS
<1>4. InOrder(got, v, now_sent)
  <2> SUFFICES ASSUME NEW i \in 1..Len(got)
               PROVE /\ got[i].kind = "app" /\ got[i].n \in 1..Len(now_sent)
                     /\ got[i] = now_sent[got[i].n]
                     /\ \A j \in 1..Len(got) : i < j => got[i].n < got[j].n
                     /\ \A j \in 1..Len(v) : v[j].of.n # 0 => got[i].n < v[j].of.n
    BY DEF InOrder
  <2>1. got[i].n \in 1..Len(sent) /\ got[i] = sent[got[i].n] /\ got[i].kind = "app"
    BY DEF InOrder
  <2>2. \A j \in 1..Len(v) : v[j].of.n # 0 => got[i].n < v[j].of.n
    BY <1>2, <1>3, <2>1 DEF InOrder
  <2>3. \A j \in 1..Len(got) : i < j => got[i].n < got[j].n
    BY DEF InOrder
  <2> QED
    BY <1>3, <2>1, <2>2, <2>3
<1>5. Complete(got, v, now_sent)
  <2> SUFFICES ASSUME NEW n \in 1..Len(now_sent), now_sent[n].kind = "app"
               PROVE \/ \E i \in 1..Len(got) : got[i] = now_sent[n]
                     \/ \E j \in 1..Len(v) : v[j] = Body(now_sent[n])
    BY DEF Complete
  <2>1. CASE n \in 1..Len(sent)
    <3>1. now_sent[n] = sent[n]
      BY <2>1
    <3>2. CASE \E j \in 1..Len(w) : w[j] = Body(sent[n])
      <4>1. PICK j \in 1..Len(w) : w[j] = Body(sent[n])
        BY <3>2
      <4>2. j \in 1..Len(v) /\ v[j] = Body(sent[n])
        BY <1>1, <4>1
      <4> QED
        BY <3>1, <4>2
    <3> QED
      BY <2>1, <3>1, <3>2 DEF Complete
  <2>2. CASE n \notin 1..Len(sent)
    <3>1. n = m.n /\ now_sent[n] = m
      BY <2>2
    <3>2. Len(w) + 2 \in 1..Len(v)
      BY <1>1
    <3> QED
      BY <3>1, <3>2
  <2> QED
    BY <2>1, <2>2
<1> QED
  BY <1>4, <1>5

-----------------------------------------------------------------------------
(* The invariant holds at the start.                                       *)

LEMMA InitInv == Init => Inv
<1> SUFFICES ASSUME Init PROVE Inv
  OBVIOUS
<1> USE DEF Init
<1>1. Typed
  <2>1. 0 \in 0..MaxSends /\ 0 \in 0..MaxFaults /\ 0 \in 0..MaxLostPongs
    BY ConstantsTyped
  <2>2. outbound \in Seq(Ours)
    OBVIOUS
  <2>3. dpc \in Places /\ Connecting
    BY DEF Places, Connecting
  <2> QED
    BY <2>1, <2>2, <2>3, Zenon DEF Typed
<1>2. acc \o inWire = <<>> /\ Len(<<>>) = 0
  OBVIOUS
<1>3. StreamInv
  <2>1. 1..Len(Stream) = {} /\ 1..Len(peerSent) = {} /\ 1..Len(incoming) = {}
    BY <1>2 DEF Stream
  <2>2. acc \in Seq(Cell) /\ inWire \in Seq(Cell) /\ peerSent \in Seq(Letters)
        /\ incoming \in Seq(Letters) /\ Len(peerSent) <= MaxPeerSends
    BY <1>2, ConstantsTyped
  <2>3. /\ Numbered(peerSent) /\ Framed(Stream) /\ Genuine(Stream, peerSent)
        /\ Ordered(Stream)
    BY <2>1, Zenon DEF Numbered, Framed, Genuine, Ordered
  <2>4. InOrder(incoming, Stream, peerSent) /\ Complete(incoming, Stream, peerSent)
    BY <2>1, Zenon DEF InOrder, Complete
  <2> QED
    BY <2>2, <2>3, <2>4 DEF StreamInv
<1>4. CutInv
  BY <1>2 DEF CutInv
<1>5. ClockInv
  BY ConstantsTyped DEF ClockInv
<1>6. RoundInv
  BY ConstantsTyped DEF RoundInv, Running
<1>7. AnswerInv
  BY <1>2, ConstantsTyped DEF AnswerInv, Running
<1> QED
  BY <1>1, <1>3, <1>4, <1>5, <1>6, <1>7 DEF Inv

-----------------------------------------------------------------------------
(* Every step keeps the stream whole, in order and complete.               *)

streamVars == <<acc, inWire, peerSent, incoming>>

(* The steps that do not touch the stream.                                 *)
LEMMA OthersLeaveStream ==
  [Next]_vars => \/ UNCHANGED streamVars
                 \/ ReadChunk \/ HandleFrame \/ PeerPong
                 \/ \E kind \in PeerKinds : PeerSend(kind)
<1> USE DEF streamVars, callerVars, peerVars, timeVars, unconnectedVars
<1>1. Connect => UNCHANGED streamVars
  BY DEF Connect, TryAddress, NoAddressLeft, Handshake, Greet
<1>2. CheckStop \/ ReadNothing \/ ReadEnds \/ FramesDone => UNCHANGED streamVars
  BY DEF CheckStop, ReadNothing, ReadEnds, FramesDone
<1>3. WriteOutbound \/ OutboundEmpty \/ Heartbeat \/ CheckLiveness => UNCHANGED streamVars
  BY DEF WriteOutbound, OutboundEmpty, Heartbeat, CheckLiveness
<1>4. FlushOne \/ FlushDone \/ Exit => UNCHANGED streamVars
  BY DEF FlushOne, FlushDone, Exit
<1>5. Send \/ Drop \/ PeerLosesPing \/ PeerCloses \/ Tick => UNCHANGED streamVars
  BY DEF Send, Drop, PeerLosesPing, PeerCloses, Tick
<1>6. UNCHANGED vars => UNCHANGED streamVars
  BY DEF vars
<1> QED
  BY <1>1, <1>2, <1>3, <1>4, <1>5, <1>6 DEF Next, Dispatcher, Environment

(* A message put on the wire is put on the stream.                         *)
LEMMA PutOnWire ==
  ASSUME acc \in Seq(Cell), inWire \in Seq(Cell), NEW a \in Cell, NEW b \in Cell,
         inWire' = inWire \o <<a, b>>, acc' = acc
  PROVE /\ inWire' \in Seq(Cell) /\ Stream' \in Seq(Cell) /\ Stream \in Seq(Cell)
        /\ Len(Stream) \in Nat /\ Len(Stream') = Len(Stream) + 2
        /\ \A i \in 1..Len(Stream) : Stream'[i] = Stream[i]
        /\ Stream'[Len(Stream) + 1] = a /\ Stream'[Len(Stream) + 2] = b
<1> DEFINE u == inWire \o <<a, b>>
           v == acc \o u
           w == acc \o inWire
<1>1. inWire' = u /\ Stream' = v /\ Stream = w
  BY DEF Stream
<1>2. /\ u \in Seq(Cell) /\ v \in Seq(Cell) /\ w \in Seq(Cell)
      /\ Len(w) \in Nat /\ Len(v) = Len(w) + 2
      /\ \A i \in 1..Len(w) : v[i] = w[i]
      /\ v[Len(w) + 1] = a /\ v[Len(w) + 2] = b
  BY PutOn
<1> HIDE DEF u, v, w
<1> QED
  BY <1>1, <1>2

(* However much is read at once, the stream stays what it is.              *)
LEMMA ReadKeepsStream ==
  ASSUME Inv, ReadChunk
  PROVE acc' \in Seq(Cell) /\ inWire' \in Seq(Cell) /\ acc' \o inWire' = acc \o inWire
<1>1. PICK k \in 1..Len(inWire) : /\ acc' = acc \o SubSeq(inWire, 1, k)
                                  /\ inWire' = SubSeq(inWire, k + 1, Len(inWire))
  BY DEF ReadChunk
<1>2. acc \in Seq(Cell) /\ inWire \in Seq(Cell)
  BY DEF Inv, StreamInv
<1>3. /\ acc \o SubSeq(inWire, 1, k) \in Seq(Cell)
      /\ SubSeq(inWire, k + 1, Len(inWire)) \in Seq(Cell)
      /\ (acc \o SubSeq(inWire, 1, k)) \o SubSeq(inWire, k + 1, Len(inWire)) = acc \o inWire
  BY <1>2, Moved, ZenonT(60)
<1> DEFINE a == acc \o SubSeq(inWire, 1, k)
           b == SubSeq(inWire, k + 1, Len(inWire))
           w == acc \o inWire
<1>4. acc' = a /\ inWire' = b
  BY <1>1
<1>5. a \in Seq(Cell) /\ b \in Seq(Cell) /\ a \o b = w
  BY <1>3
<1> HIDE DEF a, b, w
<1>6. acc' \o inWire' = w
  BY <1>4, <1>5
<1> QED
  BY <1>4, <1>5, <1>6 DEF w

LEMMA StreamPreserved == Inv /\ [Next]_vars => StreamInv'
<1> SUFFICES ASSUME Inv, [Next]_vars PROVE StreamInv'
  OBVIOUS
<1>0. StreamInv
  BY DEF Inv
<1>1. CASE UNCHANGED streamVars
  BY <1>0, <1>1 DEF StreamInv, Stream, streamVars
<1>2. CASE ReadChunk
  <2>1. acc' \in Seq(Cell) /\ inWire' \in Seq(Cell) /\ Stream' = Stream
    BY <1>2, ReadKeepsStream DEF Stream
  <2>2. UNCHANGED <<incoming, peerSent>>
    BY <1>2 DEF ReadChunk, peerVars
  <2> QED
    BY <1>0, <2>1, <2>2 DEF StreamInv
<1>3. CASE HandleFrame
  <2> DEFINE m == Head(acc).of
             w == Stream
             v == Stream'
  <2>1. /\ Len(acc) >= 2 /\ acc' = SubSeq(acc, 3, Len(acc))
        /\ UNCHANGED <<inWire, peerSent>>
        /\ \/ m.kind # "app" /\ incoming' = incoming
           \/ m.kind = "app" /\ incoming' = Append(incoming, m)
    BY <1>3 DEF HandleFrame, WholeFrame, AfterFrame, peerVars
  <2>2. /\ acc' \in Seq(Cell) /\ v \in Seq(Cell) /\ w \in Seq(Cell)
        /\ Len(w) \in Nat /\ Len(w) >= 2 /\ Len(v) = Len(w) - 2
        /\ \A i \in 1..Len(v) : v[i] = w[i + 2]
        /\ w[1] = Head(acc)
    <3>1. acc \in Seq(Cell) /\ inWire \in Seq(Cell) /\ Len(acc) >= 2
      BY <1>0, <2>1 DEF StreamInv
    <3>2. v = SubSeq(acc, 3, Len(acc)) \o inWire /\ w = acc \o inWire
      BY <2>1 DEF Stream
    <3> HIDE DEF v, w
    <3>3. LET r == SubSeq(acc, 3, Len(acc))
              x == r \o inWire
              y == acc \o inWire
          IN /\ r \in Seq(Cell) /\ x \in Seq(Cell) /\ y \in Seq(Cell)
             /\ Len(y) \in Nat /\ Len(y) >= 2 /\ Len(x) = Len(y) - 2
             /\ \A i \in 1..Len(x) : x[i] = y[i + 2]
             /\ y[1] = Head(acc)
      BY <3>1, CutOff, Zenon
    <3> QED
      BY <2>1, <3>2, <3>3, Zenon
  <2>3. m \in Letters /\ m = w[1].of
    <3>1. w[1] \in Cell
      BY <2>2, ElementOfSeq
    <3> QED
      BY <2>2, <3>1 DEF Cell
  <2>4. incoming' \in Seq(Letters)
    BY <1>0, <2>1, <2>3, QueueTyped DEF StreamInv
  <2> HIDE DEF m, w, v
  <2>5. /\ Framed(w) /\ Genuine(w, peerSent) /\ Ordered(w)
        /\ InOrder(incoming, w, peerSent) /\ Complete(incoming, w, peerSent)
        /\ incoming \in Seq(Letters)
    BY <1>0 DEF StreamInv, w
  <2>6. Framed(v) /\ Genuine(v, peerSent) /\ Ordered(v)
    BY <2>2, <2>5, StreamShrinks
  <2>7. InOrder(incoming', v, peerSent) /\ Complete(incoming', v, peerSent)
    BY <2>1, <2>2, <2>3, <2>4, <2>5, TakenFromStream
  <2> QED
    BY <1>0, <2>1, <2>2, <2>4, <2>6, <2>7 DEF StreamInv, v
<1>4. CASE PeerPong
  <2> DEFINE m == Message("PONG", 0)
             w == Stream
             v == Stream'
  <2>1. /\ inWire' = inWire \o <<Prefix(m), Body(m)>>
        /\ UNCHANGED <<acc, incoming, peerSent>>
    BY <1>4 DEF PeerPong, Cells, peerVars
  <2>2. m \in Letters /\ m.n = 0 /\ m.kind = "PONG" /\ Prefix(m) \in Cell /\ Body(m) \in Cell
    BY DEF Message, Letters, Kinds, Cell, Prefix, Body
  <2> HIDE DEF m
  <2>3. /\ inWire' \in Seq(Cell) /\ v \in Seq(Cell) /\ w \in Seq(Cell)
        /\ Len(w) \in Nat /\ Len(v) = Len(w) + 2
        /\ \A i \in 1..Len(w) : v[i] = w[i]
        /\ v[Len(w) + 1] = Prefix(m) /\ v[Len(w) + 2] = Body(m)
    BY <1>0, <2>1, <2>2, PutOnWire, Zenon DEF StreamInv
  <2> HIDE DEF w, v
  <2>4. /\ Framed(w) /\ Genuine(w, peerSent) /\ Ordered(w)
        /\ InOrder(incoming, w, peerSent) /\ Complete(incoming, w, peerSent)
        /\ incoming \in Seq(Letters) /\ Len(peerSent) \in Nat
    BY <1>0 DEF StreamInv, w
  <2>5. Framed(v) /\ Genuine(v, peerSent) /\ Ordered(v)
    <3>1. Len(peerSent) <= Len(peerSent) /\ \A n \in 1..Len(peerSent) : peerSent[n] = peerSent[n]
      BY <2>4
    <3> QED
      BY <2>2, <2>3, <2>4, <3>1, StreamGrows
  <2>6. InOrder(incoming, v, peerSent) /\ Complete(incoming, v, peerSent)
    BY <2>2, <2>3, <2>4, PutOnStream
  <2> QED
    BY <1>0, <2>1, <2>3, <2>5, <2>6 DEF StreamInv, v
<1>5. ASSUME NEW kind \in PeerKinds, PeerSend(kind) PROVE StreamInv'
  <2> DEFINE m == Message(kind, Len(peerSent) + 1)
             w == Stream
             v == Stream'
  <2>1. /\ inWire' = inWire \o <<Prefix(m), Body(m)>> /\ peerSent' = Append(peerSent, m)
        /\ Len(peerSent) < MaxPeerSends
        /\ UNCHANGED <<acc, incoming>>
    BY <1>5 DEF PeerSend, Cells
  <2>2. Len(peerSent) \in Nat /\ peerSent \in Seq(Letters)
    BY <1>0 DEF StreamInv
  <2>3. /\ m \in Letters /\ m.n = Len(peerSent) + 1
        /\ Prefix(m) \in Cell /\ Body(m) \in Cell
    BY <2>2, ConstantsTyped DEF Message, Letters, Cell, Prefix, Body
  <2> HIDE DEF m
  <2>4. /\ peerSent' \in Seq(Letters) /\ Len(peerSent') = Len(peerSent) + 1
        /\ \A n \in 1..Len(peerSent) : peerSent'[n] = peerSent[n]
        /\ peerSent'[m.n] = m
    BY <2>1, <2>2, <2>3, Appended
  <2>5. /\ inWire' \in Seq(Cell) /\ v \in Seq(Cell) /\ w \in Seq(Cell)
        /\ Len(w) \in Nat /\ Len(v) = Len(w) + 2
        /\ \A i \in 1..Len(w) : v[i] = w[i]
        /\ v[Len(w) + 1] = Prefix(m) /\ v[Len(w) + 2] = Body(m)
    BY <1>0, <2>1, <2>3, PutOnWire, Zenon DEF StreamInv
  <2> HIDE DEF w, v
  <2>6. /\ Framed(w) /\ Genuine(w, peerSent) /\ Ordered(w)
        /\ InOrder(incoming, w, peerSent) /\ Complete(incoming, w, peerSent)
        /\ incoming \in Seq(Letters) /\ Numbered(peerSent)
    BY <1>0 DEF StreamInv, w
  <2>7. m.n \in 1..Len(peerSent') /\ m.n > Len(peerSent) /\ Len(peerSent') \in Nat
        /\ Len(peerSent) <= Len(peerSent')
    BY <2>2, <2>3, <2>4
  <2>8. Framed(v) /\ Genuine(v, peerSent') /\ Ordered(v)
    BY <2>2, <2>3, <2>4, <2>5, <2>6, <2>7, StreamGrows
  <2>9. InOrder(incoming, v, peerSent') /\ Complete(incoming, v, peerSent')
    BY <2>2, <2>3, <2>4, <2>5, <2>6, <2>7, PutOnStream
  <2>10. Numbered(peerSent')
    BY <2>2, <2>3, <2>4, <2>6 DEF Numbered
  <2>11. Len(peerSent') <= MaxPeerSends
    BY <2>1, <2>2, <2>4, ConstantsTyped
  <2> QED
    BY <1>0, <2>1, <2>4, <2>5, <2>8, <2>9, <2>10, <2>11 DEF StreamInv, v
<1> QED
  BY <1>1, <1>2, <1>3, <1>4, <1>5, OthersLeaveStream

-----------------------------------------------------------------------------
(* Every step keeps the types, and the loop is left for a reason.          *)

LEMMA TypedPreserved == Inv /\ [Next]_vars => Typed'
<1> SUFFICES ASSUME Typed, [Next]_vars PROVE Typed'
  BY DEF Inv
<1> USE DEF Next, Dispatcher, Connect, Environment, callerVars, peerVars, timeVars,
      unconnectedVars, vars, TryAddress, NoAddressLeft, Handshake, Greet, Abandon, CheckStop,
      ReadChunk, ReadNothing, ReadEnds, HandleFrame, FramesDone, WriteOutbound, OutboundEmpty,
      Heartbeat, CheckLiveness, FlushOne, FlushDone, Exit, Send, Drop, PeerSend, PeerPong,
      PeerLosesPing, PeerCloses, Tick, Leave
<1>1. stop' \in BOOLEAN /\ dropped' \in BOOLEAN
  BY Zenon DEF Typed
<1>2. peerClosed' \in BOOLEAN /\ polled' \in BOOLEAN
  BY Zenon DEF Typed
<1>3. accepted' \in 0..MaxSends
  BY ConstantsTyped DEF Typed
<1>4. lostPongs' \in 0..MaxLostPongs
  BY ConstantsTyped DEF Typed
<1>5. addresses' \in 0..MaxAddresses
  BY ConstantsTyped DEF Typed
<1>6. faults' \in 0..MaxFaults
  BY ConstantsTyped DEF Typed, TryWrite, WriteSucceeds, WriteFails
<1>7. outbound' \in Seq(Ours)
  <2>1. Message("app", accepted + 1) \in Ours \/ ~(accepted < MaxSends)
    BY ConstantsTyped DEF Typed, Ours, Message
  <2>2. outbound \in Seq(Ours)
    BY DEF Typed
  <2>3. \/ outbound' = outbound
        \/ outbound # <<>> /\ outbound' = Tail(outbound)
        \/ accepted < MaxSends /\ outbound' = Append(outbound, Message("app", accepted + 1))
    OBVIOUS
  <2> QED
    BY <2>1, <2>2, <2>3, QueueTyped
<1>8. /\ dpc' \in Places
      /\ cause' \in {"none", "unconnected", "stop", "eof", "error", "framing", "dead"}
      /\ (Connecting \/ Running <=> cause = "none")'
  BY DEF Typed, Places, Connecting, Running
<1> QED
  BY <1>1, <1>2, <1>3, <1>4, <1>5, <1>6, <1>7, <1>8, Zenon DEF Typed

-----------------------------------------------------------------------------
(* Every step keeps the buffer short outside of the cutting.               *)

(* At the end of the stream, the little that may be buffered is nothing:   *)
(* half a message would have its other half on the wire.                   *)
LEMMA NothingHalf == StreamInv /\ Len(acc) < 2 /\ inWire = <<>> => acc = <<>>
<1> SUFFICES ASSUME StreamInv, Len(acc) < 2, inWire = <<>>, acc # <<>> PROVE FALSE
  OBVIOUS
<1>1. acc \in Seq(Cell) /\ Stream = acc /\ Len(acc) \in Nat
  <2>1. acc \in Seq(Cell)
    BY DEF StreamInv
  <2> QED
    BY <2>1, ConcatEmptySeq DEF Stream
<1>2. Len(acc) = 1
  <2>1. Len(acc) \in Nat \ {0}
    BY <1>1, EmptySeq
  <2>2. \A a \in Nat \ {0} : a < 2 => a = 1
    OBVIOUS
  <2> QED
    BY <2>1, <2>2, Zenon
<1>3. 1 \in 1..Len(acc) /\ 1 % 2 = 1 /\ ~(1 < Len(acc))
  BY <1>2
<1> QED
  BY <1>1, <1>3 DEF StreamInv, Framed

LEMMA CutPreserved == Inv /\ [Next]_vars => CutInv'
<1> SUFFICES ASSUME Inv, [Next]_vars PROVE CutInv'
  OBVIOUS
<1>0. Typed /\ StreamInv /\ CutInv /\ Len(acc) \in Nat
  BY DEF Inv, StreamInv
<1> USE DEF Next, Dispatcher, Connect, Environment, callerVars, peerVars, timeVars,
      unconnectedVars, vars, TryAddress, NoAddressLeft, Handshake, Greet, Abandon, CheckStop,
      ReadChunk, ReadNothing, ReadEnds, HandleFrame, FramesDone, WriteOutbound, OutboundEmpty,
      Heartbeat, CheckLiveness, FlushOne, FlushDone, Exit, Send, Drop, PeerSend, PeerPong,
      PeerLosesPing, PeerCloses, Tick, Leave
<1>1. (Connecting \/ dpc \in {"stop?", "read", "outbound", "ping", "liveness"} =>
         Len(acc) < 2)'
  <2>1. CASE FramesDone
    BY <1>0, <2>1 DEF Connecting, WholeFrame
  <2>2. CASE ~FramesDone
    <3>1. \/ UNCHANGED acc
          \/ dpc' = "frames"
      BY DEF Connecting
    <3>2. \/ UNCHANGED dpc
          \/ dpc' \in {"frames", "flush", "exit", "done", "failed"}
          \/ Connecting \/ dpc \in {"stop?", "read", "outbound", "ping", "liveness"}
      BY <2>2 DEF Connecting
    <3> QED
      BY <1>0, <3>1, <3>2 DEF CutInv, Connecting
  <2> QED
    BY <2>1, <2>2
<1>2. ASSUME cause' = "eof" PROVE acc' = <<>> /\ inWire' = <<>> /\ peerClosed'
  <2>1. CASE cause = "eof"
    <3>1. acc = <<>> /\ inWire = <<>> /\ peerClosed /\ ~Running
      BY <1>0, <2>1 DEF CutInv, Typed
    <3>2. UNCHANGED <<acc, inWire, peerClosed>>
      BY <3>1 DEF Running
    <3>3. peerClosed'
      BY <3>1, <3>2, Zenon
    <3> QED
      BY <3>1, <3>2, <3>3
  <2>2. CASE cause # "eof"
    <3>1. dpc = "read" /\ inWire = <<>> /\ peerClosed /\ UNCHANGED <<acc, inWire, peerClosed>>
      BY <1>2, <2>2
    <3>2. acc = <<>>
      BY <1>0, <3>1, NothingHalf DEF CutInv
    <3>3. peerClosed'
      BY <3>1, Zenon
    <3> QED
      BY <3>1, <3>2, <3>3
  <2> QED
    BY <2>1, <2>2
<1> QED
  BY <1>1, <1>2 DEF CutInv

-----------------------------------------------------------------------------
(* Every step keeps the clock, the rounds and the answers.                 *)

LEMMA ClockPreserved == Inv /\ [Next]_vars => ClockInv'
<1> SUFFICES ASSUME Inv, [Next]_vars PROVE ClockInv'
  OBVIOUS
<1>0. ClockInv /\ Typed
  BY DEF Inv
<1>1. \A n \in 0..MaxTime : n < MaxTime => n + 1 \in 0..MaxTime /\ \A k \in 0..n : k \in 0..n+1
  BY ConstantsTyped
<1> USE DEF Next, Dispatcher, Connect, Environment, callerVars, peerVars, timeVars,
      unconnectedVars, vars, TryAddress, NoAddressLeft, Handshake, Greet, Abandon, CheckStop,
      ReadChunk, ReadNothing, ReadEnds, HandleFrame, FramesDone, WriteOutbound, OutboundEmpty,
      Heartbeat, CheckLiveness, FlushOne, FlushDone, Exit, Send, Drop, PeerSend, PeerPong,
      PeerLosesPing, PeerCloses, Tick, Leave
<1>2. \/ UNCHANGED now
      \/ now < MaxTime /\ now' = now + 1 /\ UNCHANGED <<lastPing, lastRx>>
  OBVIOUS
<1>3. lastPing' \in {lastPing, now} /\ lastRx' \in {lastRx, now}
  OBVIOUS
<1>4. now' \in 0..MaxTime /\ lastPing' \in 0..now' /\ lastRx' \in 0..now'
  BY <1>0, <1>1, <1>2, <1>3, ConstantsTyped DEF ClockInv
<1>5. pings' \in Seq(Nat)
  <2>1. \/ UNCHANGED pings \/ pings' = Append(pings, now)
        \/ pings # <<>> /\ pings' = Tail(pings)
    BY DEF TryWrite, WriteSucceeds, WriteFails, SeePing
  <2>2. now \in Nat /\ pings \in Seq(Nat)
    BY <1>0, ConstantsTyped DEF ClockInv
  <2> QED
    BY <2>1, <2>2, QueueTyped
<1>6. (Connecting => now = 0 /\ lastPing = 0 /\ lastRx = 0 /\ ~polled)'
  <2> SUFFICES ASSUME Connecting' PROVE (now = 0 /\ lastPing = 0 /\ lastRx = 0 /\ ~polled)'
    OBVIOUS
  <2>1. Connecting
    BY DEF Connecting
  <2>2. UNCHANGED <<now, lastPing, lastRx, polled>>
    BY <2>1 DEF Connecting
  <2> QED
    BY <1>0, <2>1, <2>2, Zenon DEF ClockInv
<1> QED
  BY <1>4, <1>5, <1>6 DEF ClockInv

LEMMA RoundPreserved == Inv /\ [Next]_vars => RoundInv'
<1> SUFFICES ASSUME Inv, [Next]_vars PROVE RoundInv'
  OBVIOUS
<1>0. /\ RoundInv /\ ClockInv /\ Typed
      /\ now \in Int /\ lastPing \in Int /\ lastRx \in Int
      /\ HeartbeatInterval \in Int /\ LivenessTimeout \in Int
      /\ HeartbeatInterval > 0 /\ LivenessTimeout > 0
  BY ConstantsTyped DEF Inv, ClockInv
<1> DEFINE clockVars == <<now, lastPing, lastRx, polled>>
<1>1. CASE Connect
  <2>1. Connecting /\ UNCHANGED clockVars
    BY <1>1 DEF Connect, TryAddress, NoAddressLeft, Handshake, Greet, unconnectedVars, timeVars,
      Connecting
  <2>2. now = 0 /\ lastPing = 0 /\ lastRx = 0 /\ ~polled /\ now' = 0 /\ lastPing' = 0
        /\ lastRx' = 0 /\ ~polled'
    BY <1>0, <2>1, Zenon DEF ClockInv
  <2>3. dpc' # "liveness"
    BY <1>1 DEF Connect, TryAddress, NoAddressLeft, Handshake, Greet, Abandon, Connecting
  <2> QED
    BY <1>0, <2>2, <2>3 DEF RoundInv
<1>2. CASE ReadChunk
  BY <1>0, <1>2 DEF ReadChunk, RoundInv, Running, timeVars
<1>3. CASE Heartbeat
  BY <1>0, <1>3 DEF Heartbeat, PingDue, RoundInv, Running, timeVars
<1>4. CASE CheckLiveness
  BY <1>0, <1>4 DEF CheckLiveness, Silent, Leave, RoundInv, Running
<1>5. CASE Tick
  BY <1>0, <1>5 DEF Tick, RoundInv, Running
<1>6. CASE CheckStop \/ ReadNothing \/ ReadEnds \/ FramesDone \/ OutboundEmpty
  BY <1>0, <1>6 DEF CheckStop, ReadNothing, ReadEnds, FramesDone, OutboundEmpty, Leave, RoundInv,
    Running, timeVars
<1>7. CASE HandleFrame \/ WriteOutbound \/ FlushOne \/ FlushDone \/ Exit
  BY <1>0, <1>7 DEF HandleFrame, WriteOutbound, FlushOne, FlushDone, Exit, RoundInv, Running,
    timeVars
<1>8. CASE Send \/ Drop \/ PeerPong \/ PeerLosesPing \/ PeerCloses \/ UNCHANGED vars
           \/ \E kind \in PeerKinds : PeerSend(kind)
  <2>1. UNCHANGED clockVars /\ UNCHANGED dpc
    BY <1>8 DEF Send, Drop, PeerPong, PeerLosesPing, PeerCloses, PeerSend, timeVars, vars
  <2> QED
    BY <1>0, <2>1 DEF RoundInv, Running
<1> QED
  BY <1>1, <1>2, <1>3, <1>4, <1>5, <1>6, <1>7, <1>8 DEF Next, Dispatcher, Environment

(* What a step does to the PINGs that wait for an answer.                  *)
LEMMA PingsMove ==
  [Next]_vars => \/ UNCHANGED pings
                 \/ pings' = Append(pings, now) /\ UNCHANGED now
                 \/ pings # <<>> /\ pings' = Tail(pings) /\ UNCHANGED now
<1> USE DEF callerVars, peerVars, timeVars, unconnectedVars, TryWrite, WriteSucceeds, WriteFails,
            SeePing
<1>1. Connect => UNCHANGED pings
  BY DEF Connect, TryAddress, NoAddressLeft, Handshake, Greet
<1>2. CheckStop \/ ReadChunk \/ ReadNothing \/ ReadEnds \/ FramesDone => UNCHANGED pings
  BY DEF CheckStop, ReadChunk, ReadNothing, ReadEnds, FramesDone
<1>3. HandleFrame \/ WriteOutbound \/ Heartbeat \/ FlushOne =>
        UNCHANGED pings \/ (pings' = Append(pings, now) /\ UNCHANGED now)
  BY DEF HandleFrame, WriteOutbound, Heartbeat, FlushOne
<1>4. OutboundEmpty \/ CheckLiveness \/ FlushDone \/ Exit => UNCHANGED pings
  BY DEF OutboundEmpty, CheckLiveness, FlushDone, Exit
<1>5. Send \/ Drop \/ PeerCloses \/ Tick \/ (\E kind \in PeerKinds : PeerSend(kind)) =>
        UNCHANGED pings
  BY DEF Send, Drop, PeerCloses, Tick, PeerSend
<1>6. PeerPong \/ PeerLosesPing => pings # <<>> /\ pings' = Tail(pings) /\ UNCHANGED now
  BY DEF PeerPong, PeerLosesPing
<1>7. UNCHANGED vars => UNCHANGED pings
  BY DEF vars
<1> QED
  BY <1>1, <1>2, <1>3, <1>4, <1>5, <1>6, <1>7 DEF Next, Dispatcher, Environment

(* Faults and losses are only counted up, and the loop is not entered      *)
(* twice.                                                                  *)
LEMMA CountsGrow ==
  Typed /\ [Next]_vars => /\ faults' = 0 => faults = 0
                          /\ lostPongs' = 0 => lostPongs = 0
                          /\ Running' => Running \/ Connecting
<1> SUFFICES ASSUME Typed, [Next]_vars
             PROVE /\ faults' = 0 => faults = 0
                   /\ lostPongs' = 0 => lostPongs = 0
                   /\ Running' => Running \/ Connecting
  OBVIOUS
<1> USE DEF Next, Dispatcher, Connect, Environment, callerVars, peerVars, timeVars,
      unconnectedVars, vars, TryAddress, NoAddressLeft, Handshake, Greet, Abandon, CheckStop,
      ReadChunk, ReadNothing, ReadEnds, HandleFrame, FramesDone, WriteOutbound, OutboundEmpty,
      Heartbeat, CheckLiveness, FlushOne, FlushDone, Exit, Send, Drop, PeerSend, PeerPong,
      PeerLosesPing, PeerCloses, Tick, Leave, TryWrite, WriteSucceeds, WriteFails
<1>1. UNCHANGED faults \/ faults' = faults + 1
  OBVIOUS
<1>2. UNCHANGED lostPongs \/ lostPongs' = lostPongs + 1
  OBVIOUS
<1>3. faults \in Nat /\ lostPongs \in Nat
  BY ConstantsTyped DEF Typed
<1>4. Running' => Running \/ Connecting
  BY DEF Running, Connecting
<1> QED
  BY <1>1, <1>2, <1>3, <1>4

(* The PING that is next to be answered is still there, or its answer is.  *)
Awaited ==
  \/ lastRx >= lastPing
  \/ inWire # <<>>
  \/ \E i \in 1..Len(pings) : pings[i] <= lastRx + HeartbeatInterval

LEMMA AwaitedKept ==
  ASSUME ClockInv, Awaited, UNCHANGED <<lastPing, lastRx, inWire>>,
         UNCHANGED pings \/ pings' = Append(pings, now)
  PROVE Awaited'
<1>1. CASE UNCHANGED pings
  BY <1>1 DEF Awaited
<1>2. CASE pings' = Append(pings, now)
  <2>1. pings \in Seq(Nat) /\ now \in Nat
    BY ConstantsTyped DEF ClockInv
  <2>2. /\ Len(pings) \in Nat /\ Len(pings') = Len(pings) + 1
        /\ \A i \in 1..Len(pings) : pings'[i] = pings[i]
    BY <1>2, <2>1, Appended
  <2>3. \A i \in 1..Len(pings) : i \in 1..Len(pings')
    BY <2>2
  <2> QED
    BY <2>2, <2>3 DEF Awaited
<1> QED
  BY <1>1, <1>2

LEMMA AnswerPreserved == Inv /\ [Next]_vars => AnswerInv'
<1> SUFFICES ASSUME Inv, [Next]_vars PROVE AnswerInv'
  OBVIOUS
<1> DEFINE bound == HeartbeatInterval + MaxRtt
           Calm == faults = 0 /\ lostPongs = 0
<1>0. /\ AnswerInv /\ RoundInv /\ ClockInv /\ Typed
      /\ now \in Nat /\ lastPing \in Nat /\ lastRx \in Nat
      /\ lastPing <= now /\ lastRx <= now
      /\ HeartbeatInterval \in Nat \ {0} /\ MaxRtt \in Nat \ {0} /\ LivenessTimeout \in Nat \ {0}
      /\ pings \in Seq(Nat) /\ Len(pings) \in Nat /\ \A i \in 1..Len(pings) : pings[i] \in Nat
  BY ConstantsTyped DEF Inv, ClockInv
<1>1. Calm' => Calm
  BY <1>0, CountsGrow
<1>2. (\A i \in 1..Len(pings) : now <= pings[i] + MaxRtt)'
  <2> SUFFICES ASSUME NEW i \in 1..Len(pings') PROVE now' <= pings'[i] + MaxRtt
    OBVIOUS
  <2>1. CASE UNCHANGED pings
    <3>1. CASE Tick
      <4>1. i \in DOMAIN pings
        BY <1>0, <2>1
      <4>2. now < pings[i] + MaxRtt /\ now' = now + 1
        BY <3>1, <4>1 DEF Tick
      <4> QED
        BY <1>0, <2>1, <4>2
    <3>2. CASE UNCHANGED now
      BY <1>0, <2>1, <3>2 DEF AnswerInv
    <3>3. Tick \/ UNCHANGED now
      BY DEF Next, Dispatcher, Connect, Environment, callerVars, peerVars, timeVars,
        unconnectedVars, vars, TryAddress, NoAddressLeft, Handshake, Greet, CheckStop,
        ReadChunk, ReadNothing, ReadEnds, HandleFrame, FramesDone, WriteOutbound, OutboundEmpty,
        Heartbeat, CheckLiveness, FlushOne, FlushDone, Exit, Send, Drop, PeerSend, PeerPong,
        PeerLosesPing, PeerCloses
    <3> QED
      BY <3>1, <3>2, <3>3
  <2>2. CASE pings' = Append(pings, now) /\ UNCHANGED now
    <3>1. /\ Len(pings') = Len(pings) + 1
          /\ \A k \in 1..Len(pings) : pings'[k] = pings[k]
          /\ pings'[Len(pings) + 1] = now
      BY <1>0, <2>2, Appended
    <3>2. i \in 1..Len(pings) \/ i = Len(pings) + 1
      BY <1>0, <3>1
    <3> QED
      BY <1>0, <2>2, <3>1, <3>2 DEF AnswerInv
  <2>3. CASE pings # <<>> /\ pings' = Tail(pings) /\ UNCHANGED now
    <3>1. Len(pings') = Len(pings) - 1 /\ \A k \in 1..Len(pings)-1 : pings'[k] = pings[k + 1]
      BY <1>0, <2>3, Dropped
    <3>2. i + 1 \in 1..Len(pings) /\ pings'[i] = pings[i + 1]
      BY <1>0, <3>1
    <3> QED
      BY <1>0, <2>3, <3>2 DEF AnswerInv
  <2> QED
    BY <2>1, <2>2, <2>3, PingsMove
<1>3. (Running /\ Calm => now - lastRx <= bound /\ Awaited)'
  <2> SUFFICES ASSUME Running', Calm' PROVE (now - lastRx <= bound)' /\ Awaited'
    OBVIOUS
  <2>1. Calm
    BY <1>1
  <2>2. Running => now - lastRx <= bound /\ Awaited
    BY <1>0, <2>1 DEF AnswerInv, Awaited
  <2>3. CASE Connecting
    <3>1. UNCHANGED <<now, lastPing, lastRx>>
      BY <2>3 DEF Connecting, Next, Dispatcher, Connect, Environment, callerVars, peerVars,
        timeVars, unconnectedVars, vars, TryAddress, NoAddressLeft, Handshake, Greet, CheckStop,
        ReadChunk, ReadNothing, ReadEnds, HandleFrame, FramesDone, WriteOutbound, OutboundEmpty,
        Heartbeat, CheckLiveness, FlushOne, FlushDone, Exit, Send, Drop, PeerSend, PeerPong,
        PeerLosesPing, PeerCloses, Tick, Opened
    <3>2. now' = 0 /\ lastPing' = 0 /\ lastRx' = 0
      BY <1>0, <2>3, <3>1 DEF ClockInv
    <3> QED
      BY <1>0, <3>2 DEF Awaited
  <2>4. CASE ReadChunk
    <3>1. lastRx' = now /\ now' = now /\ lastPing' = lastPing
      BY <2>4 DEF ReadChunk, timeVars
    <3> QED
      BY <1>0, <3>1 DEF Awaited
  <2>5. CASE Heartbeat
    <3>1. dpc = "ping" /\ UNCHANGED <<now, lastRx, inWire>>
      BY <2>5 DEF Heartbeat, timeVars
    <3>2. Running
      BY <3>1 DEF Running
    <3>3. CASE ~PingDue
      BY <2>2, <2>5, <3>1, <3>2, <3>3 DEF Heartbeat, Awaited
    <3>4. CASE PingDue
      <4>1. pings' = Append(pings, now) /\ lastPing' = now
        <5>1. TryWrite(Message("PING", 0)) /\ lastPing' = now
          BY <2>5, <3>4 DEF Heartbeat
        <5>2. ~WriteFails(Message("PING", 0))
          BY <1>0, ConstantsTyped DEF WriteFails, Typed
        <5>3. WriteSucceeds(Message("PING", 0)) /\ Message("PING", 0).kind = "PING"
          BY <5>1, <5>2 DEF TryWrite, Message
        <5> QED
          BY <5>1, <5>3 DEF WriteSucceeds, SeePing
      <4>2. /\ Len(pings') = Len(pings) + 1
            /\ \A i \in 1..Len(pings) : pings'[i] = pings[i]
            /\ pings'[Len(pings) + 1] = now
            /\ Len(pings) + 1 \in 1..Len(pings')
            /\ \A i \in 1..Len(pings) : i \in 1..Len(pings')
        BY <1>0, <4>1, Appended
      <4>3. now - lastPing <= HeartbeatInterval
        BY <1>0, <3>2 DEF RoundInv
      <4>4. CASE lastRx >= lastPing
        BY <1>0, <3>1, <4>2, <4>3, <4>4 DEF Awaited
      <4>5. CASE ~(lastRx >= lastPing)
        BY <2>2, <3>1, <3>2, <4>2, <4>5 DEF Awaited
      <4>6. (now - lastRx <= bound)'
        BY <2>2, <3>1, <3>2
      <4> QED
        BY <4>4, <4>5, <4>6
    <3> QED
      BY <3>3, <3>4
  <2>6. CASE Tick
    <3>1. /\ Running /\ polled /\ inWire = <<>> /\ now' = now + 1
          /\ UNCHANGED <<lastPing, lastRx, inWire, pings>>
      BY <2>6 DEF Tick, Running
    <3>2. Awaited /\ now - lastPing < HeartbeatInterval
      BY <1>0, <2>2, <3>1 DEF RoundInv
    <3>3. CASE lastRx >= lastPing
      BY <1>0, <3>1, <3>2, <3>3 DEF Awaited
    <3>4. CASE \E i \in 1..Len(pings) : pings[i] <= lastRx + HeartbeatInterval
      <4>1. PICK i \in 1..Len(pings) : pings[i] <= lastRx + HeartbeatInterval
        BY <3>4
      <4>2. i \in DOMAIN pings
        BY <1>0
      <4>3. now < pings[i] + MaxRtt
        BY <2>6, <4>2 DEF Tick
      <4>4. now + 1 - lastRx <= bound
        BY <1>0, <4>1, <4>3
      <4>5. now' - lastRx' <= bound
        <5>1. now' = now + 1 /\ lastRx' = lastRx
          BY <3>1
        <5>2. now' - lastRx' = now + 1 - lastRx
          BY <1>0, <5>1
        <5> QED
          BY <4>4, <5>2
      <4>6. i \in 1..Len(pings') /\ pings'[i] <= lastRx' + HeartbeatInterval
        BY <3>1, <4>1
      <4> QED
        BY <4>5, <4>6 DEF Awaited
    <3> QED
      BY <3>1, <3>2, <3>3, <3>4 DEF Awaited
  <2>7. CASE PeerPong \/ \E kind \in PeerKinds : PeerSend(kind)
    <3>1. /\ UNCHANGED <<dpc, now, lastRx>>
          /\ \E m : inWire' = inWire \o Cells(m)
      BY <2>7 DEF PeerPong, PeerSend, timeVars
    <3>2. inWire' # <<>>
      <4>1. PICK m : inWire' = inWire \o Cells(m)
        BY <3>1
      <4>2. inWire' \in Seq(Cell) /\ inWire \in Seq(Cell) /\ Len(inWire) \in Nat
        BY StreamPreserved DEF Inv, StreamInv
      <4>3. Len(inWire') = Len(inWire) + 2
        BY <4>1, <4>2 DEF Cells
      <4> QED
        BY <4>2, <4>3
    <3>3. Running
      BY <3>1 DEF Running
    <3> QED
      BY <2>2, <3>1, <3>2, <3>3 DEF Awaited
  <2>8. CASE PeerLosesPing
    BY <1>0, <2>8, ConstantsTyped DEF PeerLosesPing, Typed
  <2>9. CASE /\ ~Connecting /\ ~ReadChunk /\ ~Heartbeat /\ ~Tick /\ ~PeerPong /\ ~PeerLosesPing
             /\ ~\E kind \in PeerKinds : PeerSend(kind)
    <3>1. UNCHANGED <<now, lastPing, lastRx, inWire>>
      BY <2>9 DEF Next, Dispatcher, Connect, Environment, callerVars, peerVars, timeVars,
        unconnectedVars, vars, TryAddress, NoAddressLeft, Handshake, Greet, CheckStop,
        ReadNothing, ReadEnds, HandleFrame, FramesDone, WriteOutbound, OutboundEmpty,
        CheckLiveness, FlushOne, FlushDone, Exit, Send, Drop, PeerCloses
    <3>2. UNCHANGED pings \/ pings' = Append(pings, now)
      BY <2>9 DEF Next, Dispatcher, Connect, Environment, callerVars, peerVars, timeVars,
        unconnectedVars, vars, TryAddress, NoAddressLeft, Handshake, Greet, CheckStop,
        ReadNothing, ReadEnds, HandleFrame, FramesDone, WriteOutbound, OutboundEmpty,
        CheckLiveness, FlushOne, FlushDone, Exit, Send, Drop, PeerCloses, TryWrite,
        WriteSucceeds, WriteFails, SeePing
    <3>3. Running
      BY <1>0, <2>9, CountsGrow
    <3> QED
      BY <1>0, <2>2, <3>1, <3>2, <3>3, AwaitedKept
  <2> QED
    BY <2>3, <2>4, <2>5, <2>6, <2>7, <2>8, <2>9
<1>4. (cause = "dead" /\ bound < LivenessTimeout => lostPongs > 0 \/ faults > 0)'
  <2> SUFFICES ASSUME cause' = "dead", bound < LivenessTimeout, Calm' PROVE FALSE
    <3>1. faults' \in Nat /\ lostPongs' \in Nat
      BY TypedPreserved, ConstantsTyped DEF Typed
    <3> QED
      BY <3>1
  <2>1. Calm
    BY <1>1
  <2>2. CASE cause = "dead"
    BY <1>0, <2>1, <2>2 DEF AnswerInv
  <2>3. CASE cause # "dead"
    <3>1. dpc = "liveness" /\ Silent
      BY <2>3 DEF Next, Dispatcher, Connect, Environment, callerVars, peerVars, timeVars,
        unconnectedVars, vars, TryAddress, NoAddressLeft, Handshake, Greet, Abandon, CheckStop,
        ReadChunk, ReadNothing, ReadEnds, HandleFrame, FramesDone, WriteOutbound, OutboundEmpty,
        Heartbeat, CheckLiveness, FlushOne, FlushDone, Exit, Send, Drop, PeerSend, PeerPong,
        PeerLosesPing, PeerCloses, Tick, Leave
    <3>2. now - lastRx <= bound
      BY <1>0, <2>1, <3>1 DEF AnswerInv, Running
    <3> QED
      BY <1>0, <3>1, <3>2 DEF Silent
  <2> QED
    BY <2>2, <2>3
<1> QED
  BY <1>2, <1>3, <1>4 DEF AnswerInv, Awaited

LEMMA Invariance == Spec => []Inv
<1>1. Inv /\ [Next]_vars => Inv'
  BY TypedPreserved, StreamPreserved, CutPreserved, ClockPreserved, RoundPreserved,
     AnswerPreserved DEF Inv
<1> QED
  BY <1>1, InitInv, PTL DEF Spec

-----------------------------------------------------------------------------
(* What follows from the invariant.                                        *)

(* Every variable keeps its type, the loop is left for a reason, and the   *)
(* buffer always starts with a length.                                     *)
THEOREM TypeCorrect == Spec => []TypeOK
<1>1. Inv => TypeOK
  <2> SUFFICES ASSUME Inv PROVE TypeOK
    OBVIOUS
  <2>1. Connecting \/ Running \/ dpc \in {"failed", "flush", "exit", "done"}
    BY DEF Inv, Typed, Places, Connecting, Running
  <2>2. {stop, dropped, peerClosed, polled} \subseteq BOOLEAN
    BY Zenon DEF Inv, Typed
  <2>3. outbound \in Seq([kind : {"app"}, n : 1..MaxSends])
    BY DEF Inv, Typed, Ours
  <2>4. incoming \in Seq([kind : {"app"}, n : 1..MaxPeerSends])
    <3>1. incoming \in Seq(Letters) /\ Len(peerSent) \in Nat /\ Len(peerSent) <= MaxPeerSends
      BY DEF Inv, StreamInv
    <3>2. ASSUME NEW i \in 1..Len(incoming)
          PROVE incoming[i] \in [kind : {"app"}, n : 1..MaxPeerSends]
      <4>1. incoming[i] \in Letters
        BY <3>1, ElementOfSeq
      <4>2. incoming[i].kind = "app" /\ incoming[i].n \in 1..Len(peerSent)
        BY DEF Inv, StreamInv, InOrder
      <4>3. incoming[i].n \in 1..MaxPeerSends
        BY <3>1, <4>2, ConstantsTyped
      <4> QED
        BY <4>1, <4>2, <4>3 DEF Letters
    <3>3. incoming \in Seq(Range(incoming)) /\ DOMAIN incoming = 1..Len(incoming)
      BY <3>1, SeqOfRange
    <3>4. Range(incoming) \subseteq [kind : {"app"}, n : 1..MaxPeerSends]
      BY <3>2, <3>3 DEF Range
    <3> QED
      BY <3>3, <3>4, SeqMonotonic
  <2>5. \A i \in DOMAIN acc : acc[i].part = "length" <=> i % 2 = 1
    <3>1. acc \in Seq(Cell) /\ inWire \in Seq(Cell) /\ Framed(Stream)
      BY DEF Inv, StreamInv
    <3>2. ASSUME NEW i \in DOMAIN acc PROVE i \in 1..Len(Stream) /\ Stream[i] = acc[i]
      <4>1. /\ i \in 1..Len(acc) /\ Len(acc) \in Nat /\ Len(inWire) \in Nat
        BY <3>1
      <4>2. /\ Len(Stream) = Len(acc) + Len(inWire)
            /\ \A k \in 1..Len(acc)+Len(inWire) :
                 Stream[k] = IF k <= Len(acc) THEN acc[k] ELSE inWire[k - Len(acc)]
        BY <3>1, ConcatProperties DEF Stream
      <4> QED
        BY <4>1, <4>2
    <3> QED
      BY <3>1, <3>2 DEF Framed
  <2>6. Len(peerSent) <= MaxPeerSends
    BY DEF Inv, StreamInv
  <2>7. now \in 0..MaxTime /\ lastPing \in 0..now /\ lastRx \in 0..now
    BY DEF Inv, ClockInv
  <2> QED
    BY <2>1, <2>2, <2>3, <2>4, <2>5, <2>6, <2>7, Zenon DEF Inv, Typed, TypeOK
<1> QED
  BY <1>1, Invariance, PTL

(* However the stream is cut into reads, and wherever it breaks, every     *)
(* message of the peer is forwarded once, in order, or still waits behind  *)
(* all those forwarded; none waits at the end of the stream.               *)
THEOREM ForwardsInOrder == Spec => []ForwardedInOrder
<1>1. Inv => ForwardedInOrder
  <2> SUFFICES ASSUME Inv PROVE ForwardedInOrder
    OBVIOUS
  <2>1. /\ incoming \in Seq(Letters) /\ peerSent \in Seq(Letters) /\ Stream \in Seq(Cell)
        /\ DOMAIN incoming = 1..Len(incoming) /\ DOMAIN peerSent = 1..Len(peerSent)
        /\ DOMAIN Stream = 1..Len(Stream)
    BY DEF Inv, StreamInv, Stream
  <2>2. ASSUME NEW i \in DOMAIN incoming
        PROVE /\ incoming[i].n \in DOMAIN peerSent /\ incoming[i] = peerSent[incoming[i].n]
              /\ \A j \in DOMAIN incoming : i < j => incoming[i].n < incoming[j].n
    BY <2>1 DEF Inv, StreamInv, InOrder
  <2>3. ASSUME NEW n \in DOMAIN peerSent, peerSent[n].kind = "app"
        PROVE \/ peerSent[n] \in Range(incoming) /\ ~Waits(peerSent[n])
              \/ /\ Waits(peerSent[n]) /\ cause # "eof"
                 /\ \A i \in DOMAIN incoming : incoming[i].n < n
    <3> DEFINE m == peerSent[n]
    <3>1. m.n = n /\ n # 0 /\ n \in Nat
      BY <2>1 DEF Inv, StreamInv, Numbered
    <3>2. m \in Range(incoming) <=> \E i \in 1..Len(incoming) : incoming[i] = m
      BY <2>1 DEF Range
    <3>3. Waits(m) <=> \E j \in 1..Len(Stream) : Stream[j] = Body(m)
      BY <2>1 DEF Waits, Range, Stream
    <3>4. m \in Range(incoming) \/ Waits(m)
      BY <2>1, <2>3, <3>2, <3>3 DEF Inv, StreamInv, Complete
    <3>5. Waits(m) => \A i \in 1..Len(incoming) : incoming[i].n < n
      <4> SUFFICES ASSUME NEW j \in 1..Len(Stream), Stream[j] = Body(m),
                          NEW i \in 1..Len(incoming)
                   PROVE incoming[i].n < n
        BY <3>3
      <4>1. Stream[j].of = m
        BY DEF Body
      <4> QED
        BY <3>1, <4>1 DEF Inv, StreamInv, InOrder
    <3>6. Waits(m) => m \notin Range(incoming)
      <4> SUFFICES ASSUME Waits(m), NEW i \in 1..Len(incoming), incoming[i] = m PROVE FALSE
        BY <3>2
      <4>1. incoming[i].n < n
        BY <3>5
      <4> QED
        BY <3>1, <4>1
    <3>7. Waits(m) => cause # "eof"
      <4> SUFFICES ASSUME cause = "eof" PROVE Len(Stream) = 0
        BY <3>3
      <4>1. acc = <<>> /\ inWire = <<>>
        BY DEF Inv, CutInv
      <4> QED
        BY <4>1 DEF Stream
    <3> QED
      BY <2>1, <3>4, <3>5, <3>6, <3>7
  <2> QED
    BY <2>2, <2>3 DEF ForwardedInOrder
<1> QED
  BY <1>1, Invariance, PTL

(* A peer that has gone silent is given up within LIVENESS_TIMEOUT,        *)
(* whatever the two intervals are.                                         *)
THEOREM SilenceIsNoticed == Spec => []SilentPeerDetected
<1>1. Inv => SilentPeerDetected
  BY DEF Inv, RoundInv, SilentPeerDetected
<1> QED
  BY <1>1, Invariance, PTL

(* A peer that answers each PING in time is never given up, where in time  *)
(* means that a PING can be sent and answered before the time-out: with    *)
(* the code's intervals, within less than half of it.                      *)
THEOREM AnswerKeepsAlive ==
  ASSUME HeartbeatInterval + MaxRtt < LivenessTimeout
  PROVE Spec => []LivePeerKept
<1>1. Inv => LivePeerKept
  BY DEF Inv, AnswerInv, LivePeerKept
<1> QED
  BY <1>1, Invariance, PTL

-----------------------------------------------------------------------------
(* Flattening.  The refinement mapping drops what the caller is not told,  *)
(* with FlattenSeq, so what it computes is needed for every sequence.      *)
(* Induction is over a set of numbers, from the well-foundedness of Nat.   *)

LEMMA Induction ==
  ASSUME NEW T, 0 \in T, \A n \in Nat : n \in T => n + 1 \in T
  PROVE Nat \subseteq T
<1> SUFFICES ASSUME Nat \ T # {} PROVE FALSE
  OBVIOUS
<1> DEFINE R == {ss \in Nat \X Nat : ss[1] < ss[2]}
<1>1. IsWellFoundedOn(R, Nat)
  BY NatLessThanWellFounded DEF OpToRel
<1> HIDE DEF R
<1>2. PICK x \in Nat \ T : \A y \in Nat \ T : ~(<<y, x>> \in R)
  <2>1. Nat \ T \subseteq Nat
    OBVIOUS
  <2> QED
    BY <1>1, <2>1, WFMin
<1>3. x # 0 /\ x - 1 \in Nat /\ x - 1 < x
  BY <1>2
<1>4. <<x - 1, x>> \in R
  BY <1>2, <1>3 DEF R
<1>5. x - 1 \in T
  BY <1>2, <1>3, <1>4
<1>6. (x - 1) + 1 = x
  BY <1>2
<1> QED
  BY <1>2, <1>3, <1>5, <1>6

(* f[k] is what the first k members of s flatten to, for k up to n.        *)
FlattensTo(f, s, n) ==
  /\ f[0] = <<>>
  /\ \A k \in 1..n : f[k] = f[k - 1] \o s[k]

Flattens(f, s) == FlattensTo(f, s, Len(s))

LEMMA FlattensStep ==
  ASSUME NEW S, NEW s \in Seq(Seq(S)), NEW n \in Nat, n + 1 <= Len(s),
         NEW f \in [0..n -> Seq(S)], FlattensTo(f, s, n)
  PROVE \E g \in [0..n+1 -> Seq(S)] : FlattensTo(g, s, n + 1)
<1> DEFINE g == [i \in 0..n+1 |-> IF i <= n THEN f[i] ELSE f[n] \o s[n + 1]]
<1>1. f[n] \in Seq(S) /\ s[n + 1] \in Seq(S)
  OBVIOUS
<1>2. f[n] \o s[n + 1] \in Seq(S)
  BY <1>1
<1>3. \A i \in 0..n+1 : g[i] \in Seq(S)
  BY <1>2
<1>4. g \in [0..n+1 -> Seq(S)]
  BY <1>3
<1>5. (\A i \in 0..n : g[i] = f[i]) /\ g[n + 1] = f[n] \o s[n + 1]
  OBVIOUS
<1> HIDE DEF g
<1>6. ASSUME NEW k \in 1..n+1 PROVE g[k] = g[k - 1] \o s[k]
  <2>1. CASE k = n + 1
    <3>1. k - 1 = n /\ n \in 0..n
      BY <2>1
    <3> QED
      BY <1>5, <2>1, <3>1
  <2>2. CASE k # n + 1
    <3>1. k \in 1..n /\ k \in 0..n /\ k - 1 \in 0..n
      BY <2>2
    <3> QED
      BY <1>5, <3>1 DEF FlattensTo
  <2> QED
    BY <2>1, <2>2
<1>7. g[0] = <<>>
  BY <1>5 DEF FlattensTo
<1>8. FlattensTo(g, s, n + 1)
  BY <1>6, <1>7 DEF FlattensTo
<1> QED
  BY <1>4, <1>8

LEMMA FlattensExists ==
  ASSUME NEW S, NEW s \in Seq(Seq(S))
  PROVE \E f \in [0..Len(s) -> Seq(S)] : Flattens(f, s)
<1> DEFINE Done(n) == \E f \in [0..n -> Seq(S)] : FlattensTo(f, s, n)
           T == {n \in Nat : n <= Len(s) => Done(n)}
<1>0. Len(s) \in Nat
  OBVIOUS
<1>1. Done(0)
  <2> DEFINE g == [i \in 0..0 |-> <<>>]
  <2>1. g \in [0..0 -> Seq(S)] /\ g[0] = <<>> /\ 1..0 = {}
    OBVIOUS
  <2>2. FlattensTo(g, s, 0)
    BY <2>1 DEF FlattensTo
  <2> QED
    BY <2>1, <2>2
<1>2. ASSUME NEW n \in Nat, n <= Len(s) => Done(n), n + 1 <= Len(s) PROVE Done(n + 1)
  <2>1. PICK f \in [0..n -> Seq(S)] : FlattensTo(f, s, n)
    BY <1>0, <1>2
  <2> QED
    BY <1>2, <2>1, FlattensStep
<1> HIDE DEF Done
<1>3. 0 \in T /\ \A n \in Nat : n \in T => n + 1 \in T
  BY <1>1, <1>2
<1> HIDE DEF T
<1>4. Nat \subseteq T
  BY <1>3, Induction
<1>5. Len(s) \in T
  BY <1>0, <1>4
<1>6. Done(Len(s))
  BY <1>0, <1>5 DEF T
<1> QED
  BY <1>6 DEF Done, Flattens

LEMMA FlattenSeqIs ==
  ASSUME NEW S, NEW s \in Seq(Seq(S)), NEW f \in [0..Len(s) -> Seq(S)], Flattens(f, s)
  PROVE FlattenSeq(s) = f[Len(s)] /\ FlattenSeq(s) \in Seq(S)
<1>0. Len(s) \in Nat /\ \A k \in 1..Len(s) : s[k] \in Seq(S)
  OBVIOUS
<1>1. CASE Len(s) = 0
  <2>1. FlattenSeq(s) = s /\ s = <<>> /\ f[0] = <<>>
    BY <1>1 DEF FlattenSeq, Flattens, FlattensTo
  <2> QED
    BY <1>1, <2>1
<1>2. CASE Len(s) # 0
  <2> DEFINE P(g) == g = [i \in 1..Len(s) |-> IF i = 1 THEN s[i] ELSE g[i - 1] \o s[i]]
             h == [i \in 1..Len(s) |-> f[i]]
             flat == CHOOSE g : P(g)
  <2>1. FlattenSeq(s) = flat[Len(s)]
    BY <1>2, Zenon DEF FlattenSeq
  <2>2. P(h)
    <3>1. ASSUME NEW i \in 1..Len(s)
          PROVE h[i] = IF i = 1 THEN s[i] ELSE h[i - 1] \o s[i]
      <4>1. f[i] = f[i - 1] \o s[i]
        BY DEF Flattens, FlattensTo
      <4>2. CASE i = 1
        <5>0. i - 1 = 0 /\ f[0] = <<>>
          BY <4>2 DEF Flattens, FlattensTo
        <5>1. f[1] = <<>> \o s[1]
          BY <4>1, <4>2, <5>0
        <5>2. s[1] \in Seq(S)
          BY <1>0, <4>2
        <5> QED
          BY <4>2, <5>1, <5>2, ConcatEmptySeq
      <4>3. CASE i # 1
        <5>1. i - 1 \in 1..Len(s)
          BY <1>0, <4>3
        <5> QED
          BY <4>1, <4>3, <5>1
      <4> QED
        BY <4>2, <4>3
    <3> QED
      BY <3>1
  <2> HIDE DEF P
  <2>3. P(flat)
    BY <2>2, Zenon
  <2> HIDE DEF flat
  <2> DEFINE T == {n \in Nat : n + 1 <= Len(s) => flat[n + 1] = f[n + 1]}
  <2>4. ASSUME NEW i \in 1..Len(s)
        PROVE flat[i] = IF i = 1 THEN s[i] ELSE flat[i - 1] \o s[i]
    BY <2>3 DEF P
  <2>5. ASSUME NEW i \in 1..Len(s)
        PROVE f[i] = IF i = 1 THEN s[i] ELSE f[i - 1] \o s[i]
    <3>1. h[i] = IF i = 1 THEN s[i] ELSE h[i - 1] \o s[i]
      BY <2>2 DEF P
    <3>2. i # 1 => i - 1 \in 1..Len(s)
      BY <1>0
    <3> QED
      BY <3>1, <3>2
  <2>6. 0 \in T
    BY <1>0, <1>2, <2>4, <2>5
  <2>7. ASSUME NEW n \in Nat, n \in T PROVE n + 1 \in T
    <3> SUFFICES ASSUME n + 1 + 1 <= Len(s) PROVE flat[n + 1 + 1] = f[n + 1 + 1]
      OBVIOUS
    <3>1. n + 1 + 1 \in 1..Len(s) /\ n + 1 + 1 # 1 /\ (n + 1 + 1) - 1 = n + 1
      BY <1>0
    <3>2. flat[n + 1] = f[n + 1]
      BY <1>0, <2>7
    <3> QED
      BY <2>4, <2>5, <3>1, <3>2
  <2> HIDE DEF T
  <2>8. Nat \subseteq T
    BY <2>6, <2>7, Induction
  <2>9. Len(s) - 1 \in T /\ (Len(s) - 1) + 1 = Len(s)
    BY <1>0, <1>2, <2>8
  <2>10. flat[Len(s)] = f[Len(s)]
    BY <1>0, <2>9 DEF T
  <2> QED
    BY <1>0, <2>1, <2>10
<1> QED
  BY <1>1, <1>2

LEMMA FlattenEmpty == FlattenSeq(<<>>) = <<>>
  BY DEF FlattenSeq

LEMMA FlattenTyped ==
  ASSUME NEW S, NEW s \in Seq(Seq(S)) PROVE FlattenSeq(s) \in Seq(S)
<1>1. PICK f \in [0..Len(s) -> Seq(S)] : Flattens(f, s)
  BY FlattensExists
<1> QED
  BY <1>1, FlattenSeqIs

LEMMA FlattenAppend ==
  ASSUME NEW S, NEW s \in Seq(Seq(S)), NEW e \in Seq(S)
  PROVE FlattenSeq(Append(s, e)) = FlattenSeq(s) \o e
<1> DEFINE t == Append(s, e)
<1>1. /\ t \in Seq(Seq(S)) /\ Len(t) = Len(s) + 1 /\ Len(s) \in Nat
      /\ t[Len(t)] = e /\ \A k \in 1..Len(s) : t[k] = s[k]
  OBVIOUS
<1> HIDE DEF t
<1>2. PICK g \in [0..Len(t) -> Seq(S)] : Flattens(g, t)
  BY <1>1, FlattensExists
<1> DEFINE f == [i \in 0..Len(s) |-> g[i]]
<1>3. f \in [0..Len(s) -> Seq(S)] /\ \A i \in 0..Len(s) : f[i] = g[i]
  BY <1>1
<1> HIDE DEF f
<1>4. Flattens(f, s)
  <2>1. f[0] = <<>>
    BY <1>1, <1>2, <1>3 DEF Flattens, FlattensTo
  <2>2. ASSUME NEW k \in 1..Len(s) PROVE f[k] = f[k - 1] \o s[k]
    <3>1. k \in 0..Len(s) /\ k - 1 \in 0..Len(s) /\ k \in 1..Len(t)
      BY <1>1
    <3>2. g[k] = g[k - 1] \o t[k]
      BY <1>2, <3>1 DEF Flattens, FlattensTo
    <3> QED
      BY <1>1, <1>3, <3>1, <3>2
  <2> QED
    BY <2>1, <2>2 DEF Flattens, FlattensTo
<1>5. FlattenSeq(s) = g[Len(s)]
  <2>1. FlattenSeq(s) = f[Len(s)] /\ Len(s) \in 0..Len(s)
    BY <1>1, <1>3, <1>4, FlattenSeqIs
  <2> QED
    BY <1>3, <2>1
<1>6. FlattenSeq(t) = g[Len(t)]
  BY <1>1, <1>2, FlattenSeqIs
<1>7. g[Len(t)] = g[Len(s)] \o e
  <2>1. Len(t) \in 1..Len(t) /\ Len(t) - 1 = Len(s)
    BY <1>1
  <2>2. g[Len(t)] = g[Len(t) - 1] \o t[Len(t)]
    BY <1>2, <2>1 DEF Flattens, FlattensTo
  <2> QED
    BY <1>1, <2>1, <2>2
<1> QED
  BY <1>5, <1>6, <1>7 DEF t

LEMMA FlattenCons ==
  ASSUME NEW S, NEW s \in Seq(Seq(S)), NEW h \in Seq(S)
  PROVE FlattenSeq(<<h>> \o s) = h \o FlattenSeq(s)
<1>0. \A u, v, w \in Seq(S) : (u \o v) \o w = u \o (v \o w)
  BY ConcatAssociative, SMTT(60)
<1> DEFINE t == <<h>> \o s
<1>1. /\ t \in Seq(Seq(S)) /\ Len(t) = Len(s) + 1 /\ Len(s) \in Nat
      /\ t[1] = h /\ \A k \in 2..Len(t) : t[k] = s[k - 1]
  OBVIOUS
<1> HIDE DEF t
<1>2. PICK g \in [0..Len(s) -> Seq(S)] : Flattens(g, s)
  BY FlattensExists
<1> DEFINE f == [i \in 0..Len(t) |-> IF i = 0 THEN <<>> ELSE h \o g[i - 1]]
<1>3. \A i \in 0..Len(s) : g[i] \in Seq(S)
  BY <1>2
<1>4. f[0] = <<>> /\ \A i \in 1..Len(t) : f[i] = h \o g[i - 1] /\ i - 1 \in 0..Len(s)
  BY <1>1
<1>5. f \in [0..Len(t) -> Seq(S)]
  <2>1. ASSUME NEW i \in 0..Len(t) PROVE f[i] \in Seq(S)
    <3>1. CASE i = 0
      BY <1>4, <3>1
    <3>2. CASE i # 0
      <4>1. i \in 1..Len(t)
        BY <1>1, <3>2
      <4>2. f[i] = h \o g[i - 1] /\ g[i - 1] \in Seq(S)
        BY <1>3, <1>4, <4>1
      <4> QED
        BY <4>2, ConcatProperties
    <3> QED
      BY <3>1, <3>2
  <2> QED
    BY <2>1
<1> HIDE DEF f
<1>6. ASSUME NEW k \in 1..Len(t) PROVE f[k] = f[k - 1] \o t[k]
  <2>1. CASE k = 1
    <3>0. k - 1 = 0 /\ 1 \in 1..Len(t) /\ 1 - 1 = 0
      BY <1>1, <2>1
    <3>1. f[k] = h \o g[0] /\ g[0] = <<>> /\ f[k - 1] = <<>> /\ t[k] = h
      BY <1>1, <1>2, <1>4, <2>1, <3>0 DEF Flattens, FlattensTo
    <3>2. h \o <<>> = h /\ <<>> \o h = h
      BY ConcatEmptySeq
    <3> QED
      BY <3>1, <3>2
  <2>2. CASE k # 1
    <3>1. k - 1 \in 1..Len(s) /\ k - 1 \in 1..Len(t) /\ k \in 2..Len(t)
      BY <1>1, <2>2
    <3>2. g[k - 1] = g[(k - 1) - 1] \o s[k - 1] /\ t[k] = s[k - 1]
      BY <1>1, <1>2, <3>1 DEF Flattens, FlattensTo
    <3>3. f[k] = h \o g[k - 1] /\ f[k - 1] = h \o g[(k - 1) - 1]
      BY <1>4, <3>1
    <3>4. g[(k - 1) - 1] \in Seq(S) /\ s[k - 1] \in Seq(S)
      BY <1>3, <1>4, <3>1
    <3>6. h \o (g[(k - 1) - 1] \o s[k - 1]) = (h \o g[(k - 1) - 1]) \o s[k - 1]
      BY <1>0, <3>4
    <3> QED
      BY <3>2, <3>3, <3>6
  <2> QED
    BY <2>1, <2>2
<1>7. Flattens(f, t)
  BY <1>4, <1>6 DEF Flattens, FlattensTo
<1>8. FlattenSeq(t) = f[Len(t)]
  BY <1>1, <1>5, <1>7, FlattenSeqIs
<1>9. FlattenSeq(s) = g[Len(s)]
  BY <1>2, FlattenSeqIs
<1>10. f[Len(t)] = h \o g[Len(s)]
  BY <1>1, <1>4
<1> QED
  BY <1>8, <1>9, <1>10 DEF t

-----------------------------------------------------------------------------
(* The abstract channel: what the refinement mapping makes of a state.     *)

Phase == IF Connecting THEN "none" ELSE IF dpc \in {"failed", "done"} THEN "gone" ELSE "running"
Ending == dropped \/ stop \/ peerClosed \/ cause # "none"
Lost == faults > 0 \/ peerClosed \/ cause \notin {"none", "stop"}
Delivered == FlattenSeq(ForReceiver(outWire))
Inbound == FlattenSeq(ForCaller(Stream))

Notes == [kind : Kinds \cup {"CONNECT"}, n : Nat]
Piece == [part : {"length", "body"}, of : Notes]
Write == Seq(Piece)

(* The channel ends for a reason, and no message is left behind without    *)
(* one; nothing moves before there is a connection.                        *)
EndInv ==
  /\ outWire \in Seq(Write)
  /\ stop => dropped \/ faults > 0
  /\ cause = "stop" => stop
  /\ dpc = "exit" => outbound = <<>> \/ Lost
  /\ Connecting => /\ ~stop /\ ~dropped /\ ~peerClosed /\ faults = 0
                   /\ outWire = <<>> /\ acc = <<>> /\ inWire = <<>>
                   /\ outbound = <<>> /\ incoming = <<>> /\ pings = <<>>

(* A cell, a write, as the abstract channel sees it.                       *)
Completes(c) == IF c.part = "body" /\ c.of.kind = "app" THEN <<c.of>> ELSE <<>>

Arrives(x) ==
  IF Len(x) = 2 /\ x[1].of.kind \in {"CONNECT", "app"} THEN <<x[1].of>> ELSE <<>>

LEMMA ForCallerTyped ==
  ASSUME NEW w \in Seq(Cell)
  PROVE /\ ForCaller(w) \in Seq(Seq(Letters)) /\ Len(ForCaller(w)) = Len(w)
        /\ \A i \in 1..Len(w) : ForCaller(w)[i] = Completes(w[i])
<1>1. DOMAIN w = 1..Len(w) /\ Len(w) \in Nat /\ \A i \in 1..Len(w) : w[i] \in Cell
  OBVIOUS
<1>2. \A c \in Cell : Completes(c) \in Seq(Letters)
  BY DEF Cell, Completes
<1>3. ForCaller(w) = [i \in 1..Len(w) |-> Completes(w[i])]
  BY <1>1 DEF ForCaller, Completes
<1> QED
  BY <1>1, <1>2, <1>3

LEMMA ForReceiverTyped ==
  ASSUME NEW q \in Seq(Write)
  PROVE /\ ForReceiver(q) \in Seq(Seq(Notes)) /\ Len(ForReceiver(q)) = Len(q)
        /\ \A i \in 1..Len(q) : ForReceiver(q)[i] = Arrives(q[i])
<1>1. DOMAIN q = 1..Len(q) /\ Len(q) \in Nat /\ \A i \in 1..Len(q) : q[i] \in Write
  OBVIOUS
<1>2. ASSUME NEW x \in Write PROVE Arrives(x) \in Seq(Notes)
  <2>0. x \in Seq(Piece)
    BY DEF Write
  <2>1. Len(x) = 2 => x[1] \in Piece
    BY <2>0, ElementOfSeq
  <2>2. Len(x) = 2 => <<x[1].of>> \in Seq(Notes)
    BY <2>1 DEF Piece
  <2> QED
    BY <2>2 DEF Arrives
<1>3. ForReceiver(q) = [i \in 1..Len(q) |-> Arrives(q[i])]
  BY <1>1 DEF ForReceiver, Arrives
<1> QED
  BY <1>1, <1>2, <1>3

(* Two functions on the same initial segment that agree are one sequence.  *)
LEMMA SameSeq ==
  ASSUME NEW S, NEW s \in Seq(S), NEW t \in Seq(S), Len(s) = Len(t),
         \A i \in 1..Len(s) : s[i] = t[i]
  PROVE s = t
OBVIOUS

(* A write adds to what the peer has got the message it carries, if that   *)
(* is one of the caller's, or the greeting.                                *)
LEMMA Arrival ==
  ASSUME NEW q \in Seq(Write), NEW x \in Write
  PROVE FlattenSeq(ForReceiver(Append(q, x))) = FlattenSeq(ForReceiver(q)) \o Arrives(x)
<1> DEFINE r == Append(q, x)
<1>1. /\ r \in Seq(Write) /\ Len(q) \in Nat /\ Len(r) = Len(q) + 1
      /\ r[Len(q) + 1] = x /\ \A i \in 1..Len(q) : r[i] = q[i]
  BY Appended
<1> HIDE DEF r
<1> DEFINE a == ForReceiver(q)
           b == ForReceiver(r)
<1>2. /\ a \in Seq(Seq(Notes)) /\ Len(a) = Len(q)
      /\ \A i \in 1..Len(q) : a[i] = Arrives(q[i])
  BY ForReceiverTyped
<1>3. /\ b \in Seq(Seq(Notes)) /\ Len(b) = Len(r)
      /\ \A i \in 1..Len(r) : b[i] = Arrives(r[i])
  BY <1>1, ForReceiverTyped
<1> HIDE DEF a, b
<1>4. Arrives(x) \in Seq(Notes)
  <2>1. Len(r) \in 1..Len(b) /\ b[Len(r)] = Arrives(x)
    BY <1>1, <1>3
  <2> QED
    BY <1>3, <2>1
<1> DEFINE c == Append(a, Arrives(x))
<1>5. /\ c \in Seq(Seq(Notes)) /\ Len(c) = Len(a) + 1
      /\ c[Len(a) + 1] = Arrives(x) /\ \A i \in 1..Len(a) : c[i] = a[i]
  BY <1>2, <1>4, Appended
<1> HIDE DEF c
<1>6. ASSUME NEW i \in 1..Len(b) PROVE b[i] = c[i]
  <2>1. CASE i = Len(q) + 1
    BY <1>1, <1>2, <1>3, <1>5, <2>1
  <2>2. CASE i # Len(q) + 1
    <3>1. i \in 1..Len(q)
      BY <1>1, <1>3, <2>2
    <3> QED
      BY <1>1, <1>2, <1>3, <1>5, <3>1
  <2> QED
    BY <2>1, <2>2
<1>7. Len(b) = Len(c)
  BY <1>1, <1>2, <1>3, <1>5
<1>8. b = c
  BY <1>3, <1>5, <1>6, <1>7, SameSeq
<1>9. FlattenSeq(c) = FlattenSeq(a) \o Arrives(x)
  BY <1>2, <1>4, FlattenAppend DEF c
<1> QED
  BY <1>8, <1>9 DEF a, b, r

(* A message put on the wire comes last of what waits for the caller.      *)
LEMMA InboundGrows ==
  ASSUME NEW w \in Seq(Cell), NEW v \in Seq(Cell), NEW m \in Letters,
         Len(v) = Len(w) + 2, \A i \in 1..Len(w) : v[i] = w[i],
         v[Len(w) + 1] = Prefix(m), v[Len(w) + 2] = Body(m)
  PROVE FlattenSeq(ForCaller(v)) =
          IF m.kind = "app" THEN Append(FlattenSeq(ForCaller(w)), m)
          ELSE FlattenSeq(ForCaller(w))
<1> DEFINE a == ForCaller(w)
           b == ForCaller(v)
           e == Completes(Body(m))
           c == Append(a, <<>>)
           d == Append(c, e)
<1>1. /\ a \in Seq(Seq(Letters)) /\ Len(a) = Len(w) /\ Len(w) \in Nat
      /\ \A i \in 1..Len(w) : a[i] = Completes(w[i])
  BY ForCallerTyped
<1>2. /\ b \in Seq(Seq(Letters)) /\ Len(b) = Len(v)
      /\ \A i \in 1..Len(v) : b[i] = Completes(v[i])
  BY ForCallerTyped
<1>3. Completes(Prefix(m)) = <<>> /\ e = IF m.kind = "app" THEN <<m>> ELSE <<>>
  BY DEF Completes, Prefix, Body
<1>4. e \in Seq(Letters) /\ <<>> \in Seq(Letters)
  BY <1>3
<1> HIDE DEF a, b, e
<1>5. /\ c \in Seq(Seq(Letters)) /\ Len(c) = Len(a) + 1
      /\ c[Len(a) + 1] = <<>> /\ \A i \in 1..Len(a) : c[i] = a[i]
  BY <1>1, <1>4, Appended
<1>6. FlattenSeq(c) = FlattenSeq(a) \o <<>>
  BY <1>1, <1>4, FlattenAppend
<1> HIDE DEF c
<1>7. /\ d \in Seq(Seq(Letters)) /\ Len(d) = Len(c) + 1
      /\ d[Len(c) + 1] = e /\ \A i \in 1..Len(c) : d[i] = c[i]
  BY <1>4, <1>5, Appended
<1>8. FlattenSeq(d) = FlattenSeq(c) \o e
  BY <1>4, <1>5, FlattenAppend
<1> HIDE DEF d
<1>9. ASSUME NEW i \in 1..Len(b) PROVE b[i] = d[i]
  <2>1. i \in 1..Len(v) /\ b[i] = Completes(v[i])
    BY <1>2
  <2>2. CASE i = Len(w) + 2
    <3>1. v[i] = Body(m) /\ Len(c) + 1 = i
      BY <1>1, <1>5, <2>2
    <3> QED
      BY <1>7, <2>1, <3>1 DEF e
  <2>3. CASE i = Len(w) + 1
    <3>1. v[i] = Prefix(m) /\ Len(a) + 1 = i /\ i \in 1..Len(c)
      BY <1>1, <1>5, <2>3
    <3> QED
      BY <1>3, <1>5, <1>7, <2>1, <3>1
  <2>4. CASE i # Len(w) + 1 /\ i # Len(w) + 2
    <3>0. i \in 1..Len(w)
      BY <1>1, <2>1, <2>4
    <3>1. i \in 1..Len(w) /\ i \in 1..Len(c) /\ i \in 1..Len(a)
      BY <1>1, <1>5, <3>0
    <3> QED
      BY <1>1, <1>5, <1>7, <2>1, <3>1
  <2> QED
    BY <2>2, <2>3, <2>4
<1>10. Len(b) = Len(d)
  BY <1>1, <1>2, <1>5, <1>7
<1>11. b = d
  BY <1>2, <1>7, <1>9, <1>10, SameSeq
<1>12. FlattenSeq(a) \in Seq(Letters)
  BY <1>1, FlattenTyped
<1>13. FlattenSeq(b) = FlattenSeq(a) \o e
  BY <1>6, <1>8, <1>11, <1>12, ConcatEmptySeq
<1>14. CASE m.kind = "app"
  <2>1. e = <<m>>
    BY <1>3, <1>14
  <2>2. FlattenSeq(a) \o <<m>> = Append(FlattenSeq(a), m)
    BY <1>12, AppendIsConcat
  <2> QED
    BY <1>13, <1>14, <2>1, <2>2 DEF a, b
<1>15. CASE m.kind # "app"
  <2>1. e = <<>>
    BY <1>3, <1>15
  <2>2. FlattenSeq(a) \o <<>> = FlattenSeq(a)
    BY <1>12, ConcatEmptySeq
  <2> QED
    BY <1>13, <1>15, <2>1, <2>2 DEF a, b
<1> QED
  BY <1>14, <1>15

(* The message cut off was the first that waited.                          *)
LEMMA InboundShrinks ==
  ASSUME NEW w \in Seq(Cell), NEW v \in Seq(Cell), NEW m \in Letters,
         Len(w) >= 2, Len(v) = Len(w) - 2, \A i \in 1..Len(v) : v[i] = w[i + 2],
         w[1].part = "length", w[2] = Body(m)
  PROVE /\ FlattenSeq(ForCaller(v)) \in Seq(Letters)
        /\ FlattenSeq(ForCaller(w)) =
             IF m.kind = "app" THEN <<m>> \o FlattenSeq(ForCaller(v))
             ELSE FlattenSeq(ForCaller(v))
<1> DEFINE a == ForCaller(v)
           b == ForCaller(w)
           e == Completes(Body(m))
           c == <<e>> \o a
           d == << <<>> >> \o c
<1>1. /\ a \in Seq(Seq(Letters)) /\ Len(a) = Len(v) /\ Len(v) \in Nat /\ Len(w) \in Nat
      /\ \A i \in 1..Len(v) : a[i] = Completes(v[i])
  BY ForCallerTyped
<1>2. /\ b \in Seq(Seq(Letters)) /\ Len(b) = Len(w)
      /\ \A i \in 1..Len(w) : b[i] = Completes(w[i])
  BY ForCallerTyped
<1>3. Completes(w[1]) = <<>> /\ e = IF m.kind = "app" THEN <<m>> ELSE <<>>
  BY DEF Completes, Body
<1>4. e \in Seq(Letters) /\ <<>> \in Seq(Letters)
  BY <1>3
<1> HIDE DEF a, b, e
<1>5. /\ c \in Seq(Seq(Letters)) /\ Len(c) = Len(a) + 1 /\ Len(a) \in Nat
      /\ c[1] = e /\ \A i \in 2..Len(a)+1 : c[i] = a[i - 1]
  BY <1>1, <1>4
<1>6. FlattenSeq(c) = e \o FlattenSeq(a)
  BY <1>1, <1>4, FlattenCons
<1> HIDE DEF c
<1>7. /\ d \in Seq(Seq(Letters)) /\ Len(d) = Len(c) + 1
      /\ d[1] = <<>> /\ \A i \in 2..Len(c)+1 : d[i] = c[i - 1]
  BY <1>4, <1>5
<1>8. FlattenSeq(d) = <<>> \o FlattenSeq(c)
  BY <1>4, <1>5, FlattenCons
<1> HIDE DEF d
<1>9. ASSUME NEW i \in 1..Len(b) PROVE b[i] = d[i]
  <2>1. i \in 1..Len(w) /\ b[i] = Completes(w[i])
    BY <1>2
  <2>2. CASE i = 1
    BY <1>3, <1>7, <2>1, <2>2
  <2>3. CASE i = 2
    <3>0. i - 1 = 1 /\ i \in 2..Len(c)+1
      BY <1>5, <2>3
    <3>1. d[i] = c[i - 1]
      BY <1>7, <3>0
    <3> QED
      BY <1>5, <2>1, <2>3, <3>0, <3>1 DEF e
  <2>4. CASE i # 1 /\ i # 2
    <3>1. /\ i - 2 \in 1..Len(v) /\ (i - 2) + 2 = i /\ i \in 2..Len(c)+1
          /\ i - 1 \in 2..Len(a)+1 /\ (i - 1) - 1 = i - 2
      BY <1>1, <1>5, <2>1, <2>4
    <3>2. d[i] = a[i - 2]
      BY <1>5, <1>7, <3>1
    <3>3. a[i - 2] = Completes(w[i])
      BY <1>1, <3>1
    <3> QED
      BY <2>1, <3>2, <3>3
  <2> QED
    BY <2>2, <2>3, <2>4
<1>10. Len(b) = Len(d)
  BY <1>1, <1>2, <1>5, <1>7
<1>11. b = d
  BY <1>2, <1>7, <1>9, <1>10, SameSeq
<1>12. FlattenSeq(a) \in Seq(Letters) /\ FlattenSeq(c) \in Seq(Letters)
  BY <1>1, <1>5, FlattenTyped
<1>13. FlattenSeq(b) = e \o FlattenSeq(a)
  BY <1>6, <1>8, <1>11, <1>12, ConcatEmptySeq
<1>14. <<>> \o FlattenSeq(a) = FlattenSeq(a)
  BY <1>12, ConcatEmptySeq
<1> QED
  BY <1>3, <1>12, <1>13, <1>14 DEF a, b

-----------------------------------------------------------------------------
(* Writes, and the invariant about the end of the channel.                 *)

(* What the peer has got once m is.                                        *)
Got(m) == IF m.kind \in {"CONNECT", "app"} THEN Append(Delivered, m) ELSE Delivered

LEMMA Written ==
  ASSUME outWire \in Seq(Write), NEW m \in Notes
  PROVE /\ outWire' = Append(outWire, Cells(m)) => outWire' \in Seq(Write) /\ Delivered' = Got(m)
        /\ outWire' = Append(outWire, <<Prefix(m)>>) =>
             outWire' \in Seq(Write) /\ Delivered' = Delivered
        /\ outWire' = outWire => outWire' \in Seq(Write) /\ Delivered' = Delivered
<1>1. Cells(m) \in Write /\ <<Prefix(m)>> \in Write
  BY DEF Write, Piece, Cells, Prefix, Body
<1>2. /\ Arrives(Cells(m)) = IF m.kind \in {"CONNECT", "app"} THEN <<m>> ELSE <<>>
      /\ Arrives(<<Prefix(m)>>) = <<>>
  BY DEF Arrives, Cells, Prefix
<1>3. ForReceiver(outWire) \in Seq(Seq(Notes))
  BY ForReceiverTyped
<1>4. Delivered \in Seq(Notes)
  BY <1>3, FlattenTyped DEF Delivered
<1>5. ASSUME outWire' = Append(outWire, Cells(m))
      PROVE outWire' \in Seq(Write) /\ Delivered' = Got(m)
  <2>1. outWire' \in Seq(Write)
    BY <1>1, <1>5, QueueTyped
  <2>2. Delivered' = Delivered \o Arrives(Cells(m))
    BY <1>1, <1>5, Arrival DEF Delivered
  <2>3. Delivered \o <<m>> = Append(Delivered, m)
    BY <1>4, AppendIsConcat
  <2>4. Delivered \o <<>> = Delivered
    BY <1>4, ConcatEmptySeq
  <2> QED
    BY <1>2, <2>1, <2>2, <2>3, <2>4 DEF Got
<1>6. ASSUME outWire' = Append(outWire, <<Prefix(m)>>)
      PROVE outWire' \in Seq(Write) /\ Delivered' = Delivered
  <2>1. outWire' \in Seq(Write)
    BY <1>1, <1>6, QueueTyped
  <2>2. Delivered' = Delivered \o Arrives(<<Prefix(m)>>)
    BY <1>1, <1>6, Arrival DEF Delivered
  <2>3. Delivered \o <<>> = Delivered
    BY <1>4, ConcatEmptySeq
  <2> QED
    BY <1>2, <2>1, <2>2, <2>3
<1>7. outWire' = outWire => outWire' \in Seq(Write) /\ Delivered' = Delivered
  BY DEF Delivered
<1> QED
  BY <1>5, <1>6, <1>7

LEMMA WriteEffects ==
  ASSUME outWire \in Seq(Write), faults \in Nat, NEW m \in Notes
  PROVE /\ WriteSucceeds(m) =>
             outWire' \in Seq(Write) /\ faults' = faults /\ Delivered' = Got(m)
        /\ WriteFails(m) =>
             /\ outWire' \in Seq(Write) /\ faults' = faults + 1 /\ faults' > 0
             /\ Delivered' \in {Delivered, Got(m)}
<1>1. WriteSucceeds(m) => outWire' \in Seq(Write) /\ faults' = faults /\ Delivered' = Got(m)
  BY Written DEF WriteSucceeds
<1>2. ASSUME WriteFails(m)
      PROVE outWire' \in Seq(Write) /\ Delivered' \in {Delivered, Got(m)}
  <2>1. \/ outWire' = outWire
        \/ outWire' = Append(outWire, <<Prefix(m)>>)
        \/ outWire' = Append(outWire, Cells(m))
    BY <1>2 DEF WriteFails
  <2> QED
    BY <2>1, Written
<1>3. WriteFails(m) => faults' = faults + 1 /\ faults' > 0
  BY DEF WriteFails
<1> QED
  BY <1>1, <1>2, <1>3

LEMMA OursAreNotes ==
  /\ \A m \in Ours : m \in Notes /\ m.kind = "app"
  /\ \A k \in {"PING", "PONG"} : Message(k, 0) \in Notes /\ Message(k, 0).kind = k
  /\ Hello \in Notes /\ Hello.kind = "CONNECT"
<1>1. 1..MaxSends \subseteq Nat
  BY ConstantsTyped
<1> QED
  BY <1>1 DEF Ours, Notes, Kinds, Message, Hello

LEMMA EndStart == Init => EndInv
<1>1. <<>> \in Seq(Write)
  OBVIOUS
<1> QED
  BY <1>1 DEF Init, EndInv, Connecting, Lost

(* The places a step may reach, and the part of EndInv that says where     *)
(* nothing has moved.                                                      *)
LEMMA EndPreserved == Inv /\ EndInv /\ [Next]_vars => EndInv'
<1> SUFFICES ASSUME Inv, EndInv, [Next]_vars PROVE EndInv'
  OBVIOUS
<1>0. /\ dpc \in Places /\ faults \in Nat /\ outbound \in Seq(Ours)
      /\ Connecting \/ Running <=> cause = "none"
  BY ConstantsTyped DEF Inv, Typed
<1> USE DEF EndInv, Connecting, Lost, callerVars, peerVars, timeVars, unconnectedVars, Leave
<1>1. CASE UNCHANGED vars
  BY <1>1 DEF vars
<1>2. CASE TryAddress
  BY <1>2 DEF TryAddress
<1>3. CASE NoAddressLeft
  BY <1>3 DEF NoAddressLeft, Abandon
<1>4. CASE Handshake
  BY <1>4 DEF Handshake, Abandon
<1>5. CASE Greet
  <2>1. \/ outWire' = outWire
        \/ outWire' = Append(outWire, <<Prefix(Hello)>>)
        \/ outWire' = Append(outWire, Cells(Hello))
    BY <1>5 DEF Greet
  <2>2. outWire' \in Seq(Write)
    BY <2>1, Written, OursAreNotes
  <2> QED
    BY <1>5, <2>2 DEF Greet, Abandon
<1>6. CASE CheckStop
  BY <1>6 DEF CheckStop
<1>7. CASE ReadChunk
  BY <1>7 DEF ReadChunk
<1>8. CASE ReadNothing
  BY <1>8 DEF ReadNothing
<1>9. CASE ReadEnds
  BY <1>0, <1>9 DEF ReadEnds
<1>10. CASE HandleFrame
  <2>1. outWire' \in Seq(Write) /\ (faults' = faults \/ faults' > 0)
    <3>1. TryWrite(Message("PONG", 0)) \/ UNCHANGED <<outWire, faults>>
      BY <1>10 DEF HandleFrame
    <3> QED
      BY <1>0, <3>1, WriteEffects, OursAreNotes DEF TryWrite
  <2>2. /\ dpc = "frames"
        /\ UNCHANGED <<dpc, cause, stop, outbound, dropped>>
    BY <1>10 DEF HandleFrame
  <2> QED
    BY <2>1, <2>2
<1>11. CASE FramesDone
  BY <1>11 DEF FramesDone
<1>12. CASE WriteOutbound
  <2>1. Head(outbound) \in Notes
    BY <1>0, <1>12, OursAreNotes, QueueTyped DEF WriteOutbound
  <2>2. /\ dpc = "outbound" /\ dpc' \in {"outbound", "ping"}
        /\ UNCHANGED <<cause, dropped>>
        /\ (WriteSucceeds(Head(outbound)) /\ stop' = stop) \/ WriteFails(Head(outbound))
    BY <1>12 DEF WriteOutbound
  <2>3. /\ outWire' \in Seq(Write)
        /\ (faults' = faults /\ stop' = stop) \/ faults' > 0
    BY <1>0, <2>1, <2>2, WriteEffects
  <2>4. cause' # "stop"
    BY <1>0, <2>2 DEF Running
  <2> QED
    BY <2>2, <2>3, <2>4
<1>13. CASE OutboundEmpty
  BY <1>13 DEF OutboundEmpty
<1>14. CASE Heartbeat
  <2>1. outWire' \in Seq(Write) /\ (faults' = faults \/ faults' > 0)
    <3>1. TryWrite(Message("PING", 0)) \/ UNCHANGED <<outWire, faults>>
      BY <1>14 DEF Heartbeat
    <3> QED
      BY <1>0, <3>1, WriteEffects, OursAreNotes DEF TryWrite
  <2>2. /\ dpc = "ping" /\ dpc' = "liveness"
        /\ UNCHANGED <<cause, stop, outbound, dropped>>
    BY <1>14 DEF Heartbeat
  <2> QED
    BY <2>1, <2>2
<1>15. CASE CheckLiveness
  BY <1>15 DEF CheckLiveness
<1>16. CASE FlushOne
  <2>1. Head(outbound) \in Notes
    BY <1>0, <1>16, OursAreNotes, QueueTyped DEF FlushOne
  <2>2. /\ dpc = "flush" /\ UNCHANGED <<cause, stop, dropped>>
        /\ \/ WriteSucceeds(Head(outbound)) /\ dpc' = dpc
           \/ WriteFails(Head(outbound)) /\ dpc' = "exit"
    BY <1>16 DEF FlushOne
  <2>3. /\ outWire' \in Seq(Write)
        /\ (faults' = faults /\ dpc' = dpc) \/ (faults' > 0 /\ dpc' = "exit")
    BY <1>0, <2>1, <2>2, WriteEffects
  <2> QED
    BY <2>2, <2>3
<1>17. CASE FlushDone
  BY <1>17 DEF FlushDone, FlushEnds
<1>18. CASE Exit
  BY <1>18 DEF Exit
<1>19. CASE Send
  <2>1. ASSUME dpc = "exit" PROVE Lost
    <3>1. cause # "none" /\ ~dropped
      BY <1>0, <1>19, <2>1 DEF Send, Running
    <3> QED
      BY <3>1
  <2>2. /\ ~Connecting /\ UNCHANGED <<dpc, cause, stop, dropped, outWire, faults, peerClosed>>
    BY <1>19 DEF Send, Opened
  <2> QED
    BY <2>1, <2>2
<1>20. CASE Drop
  BY <1>20 DEF Drop, Opened
<1>21. ASSUME NEW kind \in PeerKinds, PeerSend(kind) PROVE EndInv'
  BY <1>21 DEF PeerSend, Opened
<1>22. CASE PeerPong
  BY <1>22 DEF PeerPong
<1>23. CASE PeerLosesPing
  BY <1>23 DEF PeerLosesPing
<1>24. CASE PeerCloses
  BY <1>24 DEF PeerCloses, Opened
<1>25. CASE Tick
  BY <1>25 DEF Tick
<1> QED
  BY <1>1, <1>2, <1>3, <1>4, <1>5, <1>6, <1>7, <1>8, <1>9, <1>10, <1>11, <1>12, <1>13, <1>14,
     <1>15, <1>16, <1>17, <1>18, <1>19, <1>20, <1>21, <1>22, <1>23, <1>24, <1>25
     DEF Next, Dispatcher, Connect, Environment

-----------------------------------------------------------------------------
(* The steps of the abstract channel, in terms of the mapping.             *)

kept == <<Phase, Ending, Lost>>

LEMMA Stutters ==
  ASSUME UNCHANGED <<kept, outbound, Delivered, Inbound, incoming>>
  PROVE UNCHANGED Channel!vars
BY DEF Channel!vars, kept, Phase, Ending, Lost, Delivered, Inbound, Stream

LEMMA Opens ==
  ASSUME Phase = "none", Phase' = "running", UNCHANGED <<Ending, Lost>>,
         Delivered' = <<Hello>>, UNCHANGED <<outbound, Inbound, incoming>>
  PROVE Channel!Open
BY DEF Channel!Open, Phase, Ending, Lost, Delivered, Inbound, Stream

LEMMA FailsToOpen ==
  ASSUME Phase = "none", Phase' = "gone", Ending', Lost',
         Delivered' \in {Delivered, <<Hello>>}, UNCHANGED <<outbound, Inbound, incoming>>
  PROVE Channel!OpenFails
BY DEF Channel!OpenFails, Phase, Ending, Lost, Delivered, Inbound, Stream

LEMMA Sends ==
  ASSUME NEW m, Phase = "running", UNCHANGED kept, outbound' = Append(outbound, m),
         UNCHANGED <<Delivered, Inbound, incoming>>
  PROVE Channel!Send(m)
BY DEF Channel!Send, kept, Phase, Ending, Lost, Delivered, Inbound, Stream

LEMMA Delivers ==
  ASSUME Phase = "running", UNCHANGED kept, outbound # <<>>, outbound' = Tail(outbound),
         Delivered' = Append(Delivered, Head(outbound)), UNCHANGED <<Inbound, incoming>>
  PROVE Channel!Deliver
BY DEF Channel!Deliver, kept, Phase, Ending, Lost, Delivered, Inbound, Stream

LEMMA PeerSends ==
  ASSUME NEW m, Phase = "running", UNCHANGED kept, Inbound' = Append(Inbound, m),
         UNCHANGED <<outbound, Delivered, incoming>>
  PROVE Channel!PeerSend(m)
BY DEF Channel!PeerSend, kept, Phase, Ending, Lost, Delivered, Inbound, Stream

LEMMA Forwards ==
  ASSUME Phase = "running", UNCHANGED kept, Inbound # <<>>, Inbound' = Tail(Inbound),
         incoming' = Append(incoming, Head(Inbound)), UNCHANGED <<outbound, Delivered>>
  PROVE Channel!Forward
BY DEF Channel!Forward, kept, Phase, Ending, Lost, Delivered, Inbound, Stream

LEMMA Breaks ==
  ASSUME Phase = "running", Phase' = Phase, Lost', Ending' = Ending \/ Ending',
         \/ UNCHANGED <<outbound, Delivered>>
         \/ /\ outbound # <<>> /\ outbound' = Tail(outbound)
            /\ Delivered' \in {Delivered, Append(Delivered, Head(outbound))},
         UNCHANGED <<Inbound, incoming>>
  PROVE Channel!Break
BY DEF Channel!Break, Phase, Ending, Lost, Delivered, Inbound, Stream

LEMMA Stops ==
  ASSUME Phase # "none", Ending', UNCHANGED <<Phase, Lost>>,
         UNCHANGED <<outbound, Delivered, Inbound, incoming>>
  PROVE Channel!Stop
BY DEF Channel!Stop, Phase, Ending, Lost, Delivered, Inbound, Stream

LEMMA Ends ==
  ASSUME Phase = "running", Ending, Lost \/ outbound = <<>>, Phase' = "gone",
         UNCHANGED <<Ending, Lost>>, UNCHANGED <<outbound, Delivered, Inbound, incoming>>
  PROVE Channel!End
BY DEF Channel!End, Phase, Ending, Lost, Delivered, Inbound, Stream

-----------------------------------------------------------------------------
(* Every step of the channel is a step of the abstract one, or none.       *)

(* What may have been made of a message that was being delivered.          *)
LEMMA QueueHead ==
  ASSUME Inv, EndInv, outbound # <<>>
  PROVE /\ WriteSucceeds(Head(outbound)) =>
             faults' = faults /\ Delivered' = Append(Delivered, Head(outbound))
        /\ WriteFails(Head(outbound)) =>
             faults' > 0 /\ Delivered' \in {Delivered, Append(Delivered, Head(outbound))}
<1>1. Head(outbound) \in Notes /\ Head(outbound).kind = "app"
  BY OursAreNotes, QueueTyped DEF Inv, Typed
<1>2. outWire \in Seq(Write) /\ faults \in Nat
  BY ConstantsTyped DEF Inv, Typed, EndInv
<1>3. Got(Head(outbound)) = Append(Delivered, Head(outbound))
  BY <1>1 DEF Got
<1> QED
  BY <1>1, <1>2, <1>3, WriteEffects

(* A heartbeat leaves what was delivered as it is; it may fail.            *)
LEMMA HeartbeatUnseen ==
  ASSUME Inv, EndInv, NEW k \in {"PING", "PONG"}, TryWrite(Message(k, 0))
  PROVE Delivered' = Delivered /\ (faults' = faults \/ faults' > 0)
<1>1. Message(k, 0) \in Notes /\ Message(k, 0).kind \notin {"CONNECT", "app"}
  BY OursAreNotes
<1>2. outWire \in Seq(Write) /\ faults \in Nat
  BY ConstantsTyped DEF Inv, Typed, EndInv
<1>3. Got(Message(k, 0)) = Delivered
  BY <1>1 DEF Got
<1> QED
  BY <1>1, <1>2, <1>3, WriteEffects DEF TryWrite

(* What handling a message does to what waits for the caller.              *)
LEMMA HandledInbound ==
  ASSUME Inv, HandleFrame
  PROVE LET m == Head(acc).of IN
        /\ m.kind = "app" => /\ Inbound # <<>> /\ Inbound' = Tail(Inbound)
                             /\ Head(Inbound) = m
        /\ m.kind # "app" => Inbound' = Inbound
<1> DEFINE m == Head(acc).of
           w == Stream
           v == Stream'
<1>1. /\ Len(acc) >= 2 /\ acc \in Seq(Cell) /\ inWire \in Seq(Cell) /\ Framed(Stream)
      /\ v = SubSeq(acc, 3, Len(acc)) \o inWire /\ w = acc \o inWire
  BY DEF HandleFrame, WholeFrame, AfterFrame, Inv, StreamInv, Stream
<1> HIDE DEF v, w
<1>2. /\ v \in Seq(Cell) /\ w \in Seq(Cell)
      /\ Len(w) \in Nat /\ Len(w) >= 2 /\ Len(v) = Len(w) - 2
      /\ \A i \in 1..Len(v) : v[i] = w[i + 2]
      /\ w[1] = Head(acc)
  BY <1>1, CutOff
<1>3. m \in Letters /\ m = w[1].of
  <2>1. w[1] \in Cell
    BY <1>2, ElementOfSeq
  <2> QED
    BY <1>2, <2>1 DEF Cell
<1> HIDE DEF m
<1>4. w[1].part = "length" /\ w[2] = Body(m)
  <2>1. 1 \in 1..Len(w) /\ 1 % 2 = 1
    BY <1>2
  <2>2. w[1].part = "length" /\ w[1 + 1] = Body(w[1].of)
    BY <1>1, <2>1 DEF Framed, w
  <2> QED
    BY <1>3, <2>2
<1> DEFINE a == FlattenSeq(ForCaller(v))
           b == FlattenSeq(ForCaller(w))
<1>5. a \in Seq(Letters) /\ b = IF m.kind = "app" THEN <<m>> \o a ELSE a
  BY <1>2, <1>3, <1>4, InboundShrinks
<1>6. Inbound = b /\ Inbound' = a
  BY DEF Inbound, v, w
<1> HIDE DEF a, b
<1>7. <<m>> \o a # <<>> /\ Head(<<m>> \o a) = m /\ Tail(<<m>> \o a) = a
  BY <1>3, <1>5
<1> QED
  BY <1>5, <1>6, <1>7 DEF m

(* What a message put on the wire adds to it.                              *)
LEMMA PutInbound ==
  ASSUME Inv, NEW m \in Letters, inWire' = inWire \o Cells(m), acc' = acc
  PROVE Inbound' = IF m.kind = "app" THEN Append(Inbound, m) ELSE Inbound
<1> DEFINE w == Stream
           v == Stream'
<1>1. acc \in Seq(Cell) /\ inWire \in Seq(Cell)
  BY DEF Inv, StreamInv
<1>2. Prefix(m) \in Cell /\ Body(m) \in Cell
  BY DEF Cell, Prefix, Body
<1>3. v = acc \o (inWire \o <<Prefix(m), Body(m)>>) /\ w = acc \o inWire
  BY DEF Stream, Cells
<1> HIDE DEF v, w
<1>4. /\ v \in Seq(Cell) /\ w \in Seq(Cell) /\ Len(v) = Len(w) + 2
      /\ \A i \in 1..Len(w) : v[i] = w[i]
      /\ v[Len(w) + 1] = Prefix(m) /\ v[Len(w) + 2] = Body(m)
  BY <1>1, <1>2, <1>3, PutOn
<1>5. FlattenSeq(ForCaller(v)) =
        IF m.kind = "app" THEN Append(FlattenSeq(ForCaller(w)), m) ELSE FlattenSeq(ForCaller(w))
  BY <1>4, InboundGrows
<1> QED
  BY <1>5 DEF Inbound, v, w

LEMMA StepMaps ==
  Inv /\ EndInv /\ [Next]_vars => Channel!Next \/ UNCHANGED Channel!vars
<1> SUFFICES ASSUME Inv, EndInv, [Next]_vars PROVE Channel!Next \/ UNCHANGED Channel!vars
  OBVIOUS
<1>0. /\ dpc \in Places /\ faults \in Nat /\ outbound \in Seq(Ours)
      /\ Connecting \/ Running <=> cause = "none"
      /\ EndInv
  BY ConstantsTyped DEF Inv, Typed
<1> DEFINE quiet == UNCHANGED <<acc, inWire, outWire>>
<1>q. quiet => UNCHANGED <<Delivered, Inbound>>
  BY DEF Delivered, Inbound, Stream
<1> USE DEF Connecting, callerVars, peerVars, timeVars, unconnectedVars, Leave, Abandon
<1>1. CASE UNCHANGED vars
  <2>1. UNCHANGED <<kept, outbound, incoming>> /\ quiet
    BY <1>1 DEF vars, kept, Phase, Ending, Lost
  <2> QED
    BY <1>q, <2>1, Stutters
<1>2. CASE TryAddress
  <2>1. UNCHANGED <<kept, outbound, incoming>> /\ quiet
    BY <1>2 DEF TryAddress, kept, Phase, Ending, Lost
  <2> QED
    BY <1>q, <2>1, Stutters
<1>3. CASE NoAddressLeft
  <2>1. /\ Phase = "none" /\ Phase' = "gone" /\ Ending' /\ Lost' /\ quiet
        /\ UNCHANGED <<outbound, incoming>>
    BY <1>3 DEF NoAddressLeft, Phase, Ending, Lost
  <2> QED
    BY <1>q, <2>1, FailsToOpen DEF Channel!Next
<1>4. CASE Handshake
  <2>1. CASE dpc' = "hello"
    <3>1. UNCHANGED <<kept, outbound, incoming>> /\ quiet
      BY <1>4, <2>1 DEF Handshake, kept, Phase, Ending, Lost
    <3> QED
      BY <1>q, <3>1, Stutters
  <2>2. CASE dpc' # "hello"
    <3>1. /\ Phase = "none" /\ Phase' = "gone" /\ Ending' /\ Lost' /\ quiet
          /\ UNCHANGED <<outbound, incoming>>
      BY <1>4, <2>2 DEF Handshake, Phase, Ending, Lost
    <3> QED
      BY <1>q, <3>1, FailsToOpen DEF Channel!Next
  <2> QED
    BY <2>1, <2>2
<1>5. CASE Greet
  <2>1. /\ Phase = "none" /\ Delivered = <<>> /\ outWire \in Seq(Write)
        /\ UNCHANGED <<outbound, Inbound, incoming>>
    <3>1. ForReceiver(<<>>) = <<>>
      BY DEF ForReceiver
    <3> QED
      BY <1>0, <1>5, <3>1, FlattenEmpty DEF Greet, Phase, Delivered, Inbound, Stream, EndInv
  <2>2. Got(Hello) = <<Hello>>
    BY <2>1, OursAreNotes DEF Got
  <2>3. CASE dpc' = "stop?"
    <3>1. Delivered' = <<Hello>>
      BY <1>5, <2>1, <2>2, <2>3, Written, OursAreNotes DEF Greet
    <3>2. Phase' = "running" /\ UNCHANGED <<Ending, Lost>>
      BY <1>5, <2>3 DEF Greet, Phase, Ending, Lost
    <3> QED
      BY <2>1, <3>1, <3>2, Opens DEF Channel!Next
  <2>4. CASE dpc' # "stop?"
    <3>1. Delivered' \in {Delivered, <<Hello>>}
      BY <1>5, <2>1, <2>2, <2>4, Written, OursAreNotes DEF Greet
    <3>2. Phase' = "gone" /\ Ending' /\ Lost'
      BY <1>5, <2>4 DEF Greet, Phase, Ending, Lost
    <3> QED
      BY <2>1, <3>1, <3>2, FailsToOpen DEF Channel!Next
  <2> QED
    BY <2>3, <2>4
<1>6. CASE CheckStop
  <2>1. UNCHANGED <<kept, outbound, incoming>> /\ quiet
    BY <1>0, <1>6 DEF CheckStop, kept, Phase, Ending, Lost, Running
  <2> QED
    BY <1>q, <2>1, Stutters
<1>7. CASE ReadChunk
  <2>1. Stream' = Stream
    BY <1>7, ReadKeepsStream DEF Stream
  <2>2. UNCHANGED <<kept, outbound, incoming, Delivered, Inbound>>
    BY <1>7, <2>1 DEF ReadChunk, kept, Phase, Ending, Lost, Delivered, Inbound
  <2> QED
    BY <2>2, Stutters
<1>8. CASE ReadNothing
  <2>1. UNCHANGED <<kept, outbound, incoming>> /\ quiet
    BY <1>8 DEF ReadNothing, kept, Phase, Ending, Lost
  <2> QED
    BY <1>q, <2>1, Stutters
<1>9. CASE ReadEnds
  <2>1. CASE faults' = faults
    <3>1. UNCHANGED <<kept, outbound, incoming>> /\ quiet
      BY <1>0, <1>9, <2>1 DEF ReadEnds, kept, Phase, Ending, Lost
    <3> QED
      BY <1>q, <3>1, Stutters
  <2>2. CASE faults' # faults
    <3>1. /\ Phase = "running" /\ Phase' = Phase /\ Lost' /\ Ending' /\ quiet
          /\ UNCHANGED <<outbound, incoming>>
      BY <1>0, <1>9, <2>2 DEF ReadEnds, Phase, Ending, Lost
    <3> QED
      BY <1>q, <3>1, Breaks DEF Channel!Next
  <2> QED
    BY <2>1, <2>2
<1>10. CASE HandleFrame
  <2> DEFINE m == Head(acc).of
  <2>1. /\ dpc = "frames" /\ UNCHANGED <<dpc, cause, stop, dropped, peerClosed, outbound>>
        /\ \/ /\ m.kind = "PING" /\ TryWrite(Message("PONG", 0)) /\ UNCHANGED incoming
           \/ /\ m.kind \in {"PONG", "garbled"} /\ UNCHANGED <<incoming, outWire, faults>>
           \/ /\ m.kind = "app" /\ incoming' = Append(incoming, m)
              /\ UNCHANGED <<outWire, faults>>
    BY <1>10 DEF HandleFrame
  <2>2. /\ m.kind = "app" => Inbound # <<>> /\ Inbound' = Tail(Inbound) /\ Head(Inbound) = m
        /\ m.kind # "app" => Inbound' = Inbound
    BY <1>10, HandledInbound
  <2> HIDE DEF m
  <2>3. Phase = "running" /\ UNCHANGED <<Phase, Ending>>
    BY <2>1 DEF Phase, Ending
  <2>4. UNCHANGED faults => UNCHANGED Lost
    BY <2>1 DEF Lost
  <2>5. UNCHANGED outWire => UNCHANGED Delivered
    BY DEF Delivered
  <2>6. CASE m.kind = "PING"
    <3>1. Inbound' = Inbound /\ UNCHANGED <<incoming, outbound>>
      BY <2>1, <2>2, <2>6
    <3>2. Delivered' = Delivered /\ (faults' = faults \/ faults' > 0)
      BY <1>0, <2>1, <2>6, HeartbeatUnseen
    <3>3. CASE faults' = faults
      <4>1. UNCHANGED kept
        BY <2>3, <2>4, <3>3 DEF kept
      <4> QED
        BY <3>1, <3>2, <4>1, Stutters
    <3>4. CASE faults' > 0
      <4>1. Lost'
        BY <3>4 DEF Lost
      <4> QED
        BY <2>3, <3>1, <3>2, <4>1, Breaks DEF Channel!Next
    <3> QED
      BY <3>2, <3>3, <3>4
  <2>7. CASE m.kind \in {"PONG", "garbled"}
    <3>1. UNCHANGED <<kept, outbound, Delivered, Inbound, incoming>>
      BY <2>1, <2>2, <2>3, <2>4, <2>5, <2>7 DEF kept
    <3> QED
      BY <3>1, Stutters
  <2>8. CASE m.kind = "app"
    <3>1. UNCHANGED kept /\ UNCHANGED <<outbound, Delivered>>
      BY <2>1, <2>3, <2>4, <2>5, <2>8 DEF kept
    <3>2. incoming' = Append(incoming, Head(Inbound))
      BY <2>1, <2>2, <2>8
    <3> QED
      BY <2>2, <2>3, <2>8, <3>1, <3>2, Forwards DEF Channel!Next
  <2> QED
    BY <2>1, <2>6, <2>7, <2>8
<1>11. CASE FramesDone
  <2>1. CASE cause' = cause
    <3>1. UNCHANGED <<kept, outbound, incoming>> /\ quiet
      BY <1>0, <1>11, <2>1 DEF FramesDone, kept, Phase, Ending, Lost, Running
    <3> QED
      BY <1>q, <3>1, Stutters
  <2>2. CASE cause' # cause
    <3>1. /\ Phase = "running" /\ Phase' = Phase /\ Lost' /\ Ending' /\ quiet
          /\ UNCHANGED <<outbound, incoming>>
      BY <1>0, <1>11, <2>2 DEF FramesDone, Phase, Ending, Lost
    <3> QED
      BY <1>q, <3>1, Breaks DEF Channel!Next
  <2> QED
    BY <2>1, <2>2
<1>12. CASE WriteOutbound
  <2>1. /\ outbound # <<>> /\ outbound' = Tail(outbound) /\ dpc = "outbound"
        /\ UNCHANGED <<cause, dropped, peerClosed, incoming, acc, inWire>>
        /\ \/ WriteSucceeds(Head(outbound)) /\ UNCHANGED <<stop, dpc>>
           \/ WriteFails(Head(outbound)) /\ stop' = TRUE /\ dpc' = "ping"
    BY <1>12 DEF WriteOutbound
  <2>2. Phase = "running" /\ Phase' = Phase /\ Inbound' = Inbound
    BY <2>1 DEF Phase, Inbound, Stream
  <2>3. CASE WriteSucceeds(Head(outbound)) /\ UNCHANGED <<stop, dpc>>
    <3>1. faults' = faults /\ Delivered' = Append(Delivered, Head(outbound))
      BY <1>0, <2>1, <2>3, QueueHead
    <3>2. UNCHANGED kept
      BY <2>1, <2>2, <2>3, <3>1 DEF kept, Ending, Lost
    <3> QED
      BY <2>1, <2>2, <3>1, <3>2, Delivers DEF Channel!Next
  <2>4. CASE WriteFails(Head(outbound)) /\ stop' = TRUE
    <3>1. faults' > 0 /\ Delivered' \in {Delivered, Append(Delivered, Head(outbound))}
      BY <1>0, <2>1, <2>4, QueueHead
    <3>2. Lost' /\ Ending'
      BY <2>4, <3>1 DEF Lost, Ending
    <3> QED
      BY <2>1, <2>2, <3>1, <3>2, Breaks DEF Channel!Next
  <2> QED
    BY <2>1, <2>3, <2>4
<1>13. CASE OutboundEmpty
  <2>1. UNCHANGED <<kept, outbound, incoming>> /\ quiet
    BY <1>13 DEF OutboundEmpty, kept, Phase, Ending, Lost
  <2> QED
    BY <1>q, <2>1, Stutters
<1>14. CASE Heartbeat
  <2>1. /\ dpc = "ping" /\ dpc' = "liveness"
        /\ UNCHANGED <<cause, stop, dropped, peerClosed, outbound, incoming, acc, inWire>>
        /\ TryWrite(Message("PING", 0)) \/ UNCHANGED <<outWire, faults>>
    BY <1>14 DEF Heartbeat
  <2>2. Delivered' = Delivered /\ (faults' = faults \/ faults' > 0)
    <3>1. UNCHANGED outWire => UNCHANGED Delivered
      BY DEF Delivered
    <3> QED
      BY <1>0, <2>1, <3>1, HeartbeatUnseen
  <2>3. Phase = "running" /\ UNCHANGED <<Phase, Ending, Inbound>>
    BY <2>1 DEF Phase, Ending, Inbound, Stream
  <2>4. CASE faults' = faults
    <3>1. UNCHANGED kept
      BY <2>1, <2>3, <2>4 DEF kept, Lost
    <3> QED
      BY <2>1, <2>2, <2>3, <3>1, Stutters
  <2>5. CASE faults' > 0
    <3>1. Lost'
      BY <2>5 DEF Lost
    <3> QED
      BY <2>1, <2>2, <2>3, <3>1, Breaks DEF Channel!Next
  <2> QED
    BY <2>2, <2>4, <2>5
<1>15. CASE CheckLiveness
  <2>1. CASE cause' = cause
    <3>1. UNCHANGED <<kept, outbound, incoming>> /\ quiet
      BY <1>0, <1>15, <2>1 DEF CheckLiveness, kept, Phase, Ending, Lost, Running
    <3> QED
      BY <1>q, <3>1, Stutters
  <2>2. CASE cause' # cause
    <3>1. /\ Phase = "running" /\ Phase' = Phase /\ Lost' /\ Ending' /\ quiet
          /\ UNCHANGED <<outbound, incoming>>
      BY <1>0, <1>15, <2>2 DEF CheckLiveness, Phase, Ending, Lost
    <3> QED
      BY <1>q, <3>1, Breaks DEF Channel!Next
  <2> QED
    BY <2>1, <2>2
<1>16. CASE FlushOne
  <2>1. /\ outbound # <<>> /\ outbound' = Tail(outbound) /\ dpc = "flush"
        /\ UNCHANGED <<cause, stop, dropped, peerClosed, incoming, acc, inWire>>
        /\ \/ WriteSucceeds(Head(outbound)) /\ UNCHANGED dpc
           \/ WriteFails(Head(outbound)) /\ dpc' = "exit"
    BY <1>16 DEF FlushOne
  <2>2. Phase = "running" /\ UNCHANGED <<Phase, Ending, Inbound>>
    BY <2>1 DEF Phase, Ending, Inbound, Stream
  <2>3. CASE WriteSucceeds(Head(outbound))
    <3>1. faults' = faults /\ Delivered' = Append(Delivered, Head(outbound))
      BY <1>0, <2>1, <2>3, QueueHead
    <3>2. UNCHANGED kept
      BY <2>1, <2>2, <3>1 DEF kept, Lost
    <3> QED
      BY <2>1, <2>2, <3>1, <3>2, Delivers DEF Channel!Next
  <2>4. CASE WriteFails(Head(outbound))
    <3>1. faults' > 0 /\ Delivered' \in {Delivered, Append(Delivered, Head(outbound))}
      BY <1>0, <2>1, <2>4, QueueHead
    <3>2. Lost'
      BY <3>1 DEF Lost
    <3> QED
      BY <2>1, <2>2, <3>1, <3>2, Breaks DEF Channel!Next
  <2> QED
    BY <2>1, <2>3, <2>4
<1>17. CASE FlushDone
  <2>1. UNCHANGED <<kept, outbound, incoming>> /\ quiet
    BY <1>17 DEF FlushDone, kept, Phase, Ending, Lost
  <2> QED
    BY <1>q, <2>1, Stutters
<1>18. CASE Exit
  <2>1. /\ Phase = "running" /\ Phase' = "gone" /\ UNCHANGED <<Ending, Lost>>
        /\ UNCHANGED <<outbound, incoming>> /\ quiet
    BY <1>18 DEF Exit, Phase, Ending, Lost
  <2>2. Ending /\ (Lost \/ outbound = <<>>)
    BY <1>0, <1>18 DEF Exit, Ending, EndInv, Running
  <2> QED
    BY <1>q, <2>1, <2>2, Ends DEF Channel!Next
<1>19. CASE Send
  <2> DEFINE m == Message("app", accepted + 1)
  <2>1. /\ outbound' = Append(outbound, m) /\ m \in [kind : {"app"}, n : 1..MaxSends]
        /\ Phase = "running" /\ UNCHANGED <<kept, incoming>> /\ quiet
    <3>1. accepted + 1 \in 1..MaxSends
      BY <1>19, ConstantsTyped DEF Send, Inv, Typed
    <3>2. m \in [kind : {"app"}, n : 1..MaxSends]
      BY <3>1 DEF Message
    <3> HIDE DEF m
    <3>3. outbound' = Append(outbound, m)
      BY <1>19 DEF Send, m
    <3> QED
      BY <1>19, <3>2, <3>3 DEF Send, Opened, kept, Phase, Ending, Lost
  <2> HIDE DEF m
  <2>2. Channel!Send(m)
    BY <1>q, <2>1, Sends
  <2> QED
    BY <2>1, <2>2 DEF Channel!Next
<1>20. CASE Drop
  <2>1. /\ Phase # "none" /\ Ending' /\ UNCHANGED <<Phase, Lost>>
        /\ UNCHANGED <<outbound, incoming>> /\ quiet
    BY <1>20 DEF Drop, Opened, Phase, Ending, Lost
  <2> QED
    BY <1>q, <2>1, Stops DEF Channel!Next
<1>21. ASSUME NEW kind \in PeerKinds, PeerSend(kind)
       PROVE Channel!Next \/ UNCHANGED Channel!vars
  <2> DEFINE m == Message(kind, Len(peerSent) + 1)
  <2>1. /\ Phase = "running" /\ UNCHANGED <<kept, outbound, incoming, Delivered>>
        /\ inWire' = inWire \o Cells(m) /\ acc' = acc
    BY <1>21 DEF PeerSend, Opened, kept, Phase, Ending, Lost, Delivered
  <2>2. m \in Letters /\ m.kind = kind
        /\ (kind = "app" => m \in [kind : {"app"}, n : 1..MaxPeerSends])
    <3>1. Len(peerSent) + 1 \in 1..MaxPeerSends /\ Len(peerSent) + 1 \in Nat
      BY <1>21, ConstantsTyped DEF PeerSend, Inv, StreamInv
    <3>2. kind \in Kinds
      BY ConstantsTyped
    <3> QED
      BY <3>1, <3>2 DEF Message, Letters
  <2> HIDE DEF m
  <2>3. Inbound' = IF m.kind = "app" THEN Append(Inbound, m) ELSE Inbound
    BY <2>1, <2>2, PutInbound
  <2>4. CASE kind = "app"
    <3>1. Channel!PeerSend(m)
      BY <2>1, <2>2, <2>3, <2>4, PeerSends
    <3> QED
      BY <2>2, <2>4, <3>1 DEF Channel!Next
  <2>5. CASE kind # "app"
    BY <2>1, <2>2, <2>3, <2>5, Stutters
  <2> QED
    BY <2>4, <2>5
<1>22. CASE PeerPong
  <2>1. /\ UNCHANGED <<kept, outbound, incoming, Delivered>>
        /\ inWire' = inWire \o Cells(Message("PONG", 0)) /\ acc' = acc
    BY <1>22 DEF PeerPong, kept, Phase, Ending, Lost, Delivered
  <2>2. Message("PONG", 0) \in Letters /\ Message("PONG", 0).kind # "app"
    BY DEF Message, Letters, Kinds
  <2>3. Inbound' = Inbound
    BY <2>1, <2>2, PutInbound
  <2> QED
    BY <2>1, <2>3, Stutters
<1>23. CASE PeerLosesPing
  <2>1. UNCHANGED <<kept, outbound, incoming>> /\ quiet
    BY <1>23 DEF PeerLosesPing, kept, Phase, Ending, Lost
  <2> QED
    BY <1>q, <2>1, Stutters
<1>24. CASE PeerCloses
  <2>1. /\ Phase = "running" /\ Phase' = Phase /\ Lost' /\ Ending' /\ quiet
        /\ UNCHANGED <<outbound, incoming>>
    BY <1>24 DEF PeerCloses, Opened, Phase, Ending, Lost
  <2> QED
    BY <1>q, <2>1, Breaks DEF Channel!Next
<1>25. CASE Tick
  <2>1. UNCHANGED <<kept, outbound, incoming>> /\ quiet
    BY <1>25 DEF Tick, kept, Phase, Ending, Lost
  <2> QED
    BY <1>q, <2>1, Stutters
<1> QED
  BY <1>1, <1>2, <1>3, <1>4, <1>5, <1>6, <1>7, <1>8, <1>9, <1>10, <1>11, <1>12, <1>13, <1>14,
     <1>15, <1>16, <1>17, <1>18, <1>19, <1>20, <1>21, <1>22, <1>23, <1>24, <1>25
     DEF Next, Dispatcher, Connect, Environment

(* The thread, the queues and the two cuttings of the stream implement the *)
(* safety of MessageChannel: a greeting first, then what the caller sent,  *)
(* once and in order, and all of it before the stream is closed unless the *)
(* connection was lost; and what the peer sent, once and in order.         *)
THEOREM Refinement == Spec => ImplementsChannel
<1>1. Init => Channel!Init
  <2>1. FlattenSeq(ForReceiver(<<>>)) = <<>> /\ FlattenSeq(ForCaller(<<>> \o <<>>)) = <<>>
    <3>1. ForReceiver(<<>>) = <<>> /\ ForCaller(<<>>) = <<>> /\ <<>> \o <<>> = <<>>
      BY DEF ForReceiver, ForCaller
    <3> QED
      BY <3>1, FlattenEmpty
  <2> QED
    BY <2>1 DEF Init, Channel!Init, Connecting
<1>2. Inv /\ EndInv /\ [Next]_vars => [Channel!Next]_(Channel!vars)
  BY StepMaps
<1>3. EndInv /\ Inv /\ [Next]_vars => EndInv'
  BY EndPreserved
<1> QED
  BY <1>1, <1>2, <1>3, EndStart, Invariance, PTL DEF Spec, ImplementsChannel, Channel!Safety

-----------------------------------------------------------------------------
(* What the refinement comes to for the caller: everything it was told was *)
(* accepted arrives.                                                       *)

(* The messages that send() returned Ok for, in order.                     *)
Accepted(n) == [i \in 1..n |-> Message("app", i)]

(* Delivered and queued make up the greeting and all that was accepted, as *)
(* long as the connection is not lost; nothing is accepted before there is *)
(* a channel, and nothing is left in the queue of one that has ended.      *)
DeliveryInv ==
  /\ Phase = "none" => accepted = 0
  /\ Phase # "none" /\ ~Lost => Delivered \o outbound = <<Hello>> \o Accepted(accepted)
  /\ Phase = "gone" => Lost \/ outbound = <<>>

(* Appending to the second of two sequences appends to both together.      *)
LEMMA AppendOver ==
  ASSUME NEW S, NEW s \in Seq(S), NEW q \in Seq(S), NEW m \in S
  PROVE s \o Append(q, m) = Append(s \o q, m)
<1>1. Append(q, m) = q \o <<m>> /\ <<m>> \in Seq(S) /\ s \o q \in Seq(S)
  BY AppendIsConcat
<1>2. Append(s \o q, m) = (s \o q) \o <<m>>
  BY <1>1, AppendIsConcat
<1>3. (s \o q) \o <<m>> = s \o (q \o <<m>>)
  BY <1>1, ConcatAssociative, SMTT(60)
<1> QED
  BY <1>1, <1>2, <1>3

(* A message that passes from the queue to the peer changes neither what   *)
(* there is nor its order.                                                 *)
LEMMA HeadPasses ==
  ASSUME NEW S, NEW s \in Seq(S), NEW q \in Seq(S), q # <<>>
  PROVE Append(s, Head(q)) \o Tail(q) = s \o q
<1>1. /\ Head(q) \in S /\ Tail(q) \in Seq(S) /\ <<Head(q)>> \in Seq(S)
      /\ Append(s, Head(q)) = s \o <<Head(q)>>
  BY AppendIsConcat
<1>2. q = <<Head(q)>> \o Tail(q)
  <2>1. /\ <<Head(q)>> \o Tail(q) \in Seq(S) /\ Len(q) \in Nat \ {0}
        /\ Len(<<Head(q)>> \o Tail(q)) = Len(q)
    BY <1>1, Dropped
  <2>2. \A i \in 1..Len(q) : q[i] = (<<Head(q)>> \o Tail(q))[i]
    BY <1>1, Dropped
  <2> QED
    BY <2>1, <2>2, SameSeq
<1>3. (s \o <<Head(q)>>) \o Tail(q) = s \o (<<Head(q)>> \o Tail(q))
  BY <1>1, ConcatAssociative, SMTT(60)
<1> QED
  BY <1>1, <1>2, <1>3

(* Accepting one more message appends it to those accepted.                *)
LEMMA AcceptedGrows ==
  ASSUME NEW n \in Nat
  PROVE /\ Accepted(n) \in Seq(Notes)
        /\ Accepted(n + 1) = Append(Accepted(n), Message("app", n + 1))
<1>1. \A i \in Nat : Message("app", i) \in Notes
  BY DEF Message, Notes, Kinds
<1>2. \A k \in Nat : Accepted(k) \in Seq(Notes) /\ Len(Accepted(k)) = k
  BY <1>1 DEF Accepted
<1>3. /\ n + 1 \in Nat /\ Message("app", n + 1) \in Notes
      /\ Append(Accepted(n), Message("app", n + 1)) \in Seq(Notes)
      /\ Len(Append(Accepted(n), Message("app", n + 1))) = n + 1
  BY <1>1, <1>2
<1>4. \A i \in 1..n+1 : Accepted(n + 1)[i] = Append(Accepted(n), Message("app", n + 1))[i]
  BY <1>2 DEF Accepted
<1>5. Accepted(n + 1) = Append(Accepted(n), Message("app", n + 1))
  BY <1>2, <1>3, <1>4, SameSeq
<1> QED
  BY <1>2, <1>5

(* Only send() is told of a message, and only send() makes the queue grow. *)
LEMMA OnlySendAccepts ==
  ASSUME Inv, [Next]_vars, ~Send
  PROVE /\ accepted' = accepted
        /\ outbound' = outbound \/ (outbound # <<>> /\ outbound' = Tail(outbound))
<1> USE DEF callerVars, peerVars, timeVars, unconnectedVars
<1>1. Connect => accepted' = accepted /\ outbound' = outbound
  BY DEF Connect, TryAddress, NoAddressLeft, Handshake, Greet
<1>2. CheckStop \/ ReadChunk \/ ReadNothing \/ ReadEnds \/ HandleFrame \/ FramesDone
        => accepted' = accepted /\ outbound' = outbound
  BY DEF CheckStop, ReadChunk, ReadNothing, ReadEnds, HandleFrame, FramesDone
<1>3. WriteOutbound \/ FlushOne
        => accepted' = accepted /\ outbound # <<>> /\ outbound' = Tail(outbound)
  BY DEF WriteOutbound, FlushOne
<1>4. OutboundEmpty \/ Heartbeat \/ CheckLiveness \/ FlushDone \/ Exit
        => accepted' = accepted /\ outbound' = outbound
  BY DEF OutboundEmpty, Heartbeat, CheckLiveness, FlushDone, Exit
<1>5. Drop \/ PeerPong \/ PeerLosesPing \/ PeerCloses \/ Tick
        => accepted' = accepted /\ outbound' = outbound
  BY DEF Drop, PeerPong, PeerLosesPing, PeerCloses, Tick
<1>6. (\E kind \in PeerKinds : PeerSend(kind)) => accepted' = accepted /\ outbound' = outbound
  BY DEF PeerSend
<1>7. UNCHANGED vars => accepted' = accepted /\ outbound' = outbound
  BY DEF vars
<1> QED
  BY <1>1, <1>2, <1>3, <1>4, <1>5, <1>6, <1>7 DEF Next, Dispatcher, Environment

(* What was delivered and what waits are together the greeting and what was *)
(* accepted. The send() of a message appends to both sides; of the other   *)
(* steps, seen as steps of MessageChannel, one moves a message across, the *)
(* others leave both alone or lose the connection.                         *)
LEMMA DeliveryPreserved ==
  ASSUME Inv, EndInv, DeliveryInv, [Next]_vars
  PROVE DeliveryInv'
<1>1. /\ outbound \in Seq(Ours) /\ outbound \in Seq(Notes) /\ accepted \in Nat
      /\ Delivered \in Seq(Notes)
  <2>1. outbound \in Seq(Ours) /\ accepted \in Nat
    BY ConstantsTyped DEF Inv, Typed
  <2>2. \A i \in 1..Len(outbound) : outbound[i] \in Notes
    BY <2>1, OursAreNotes
  <2>3. outbound \in Seq(Notes)
    BY <2>1, <2>2
  <2>4. ForReceiver(outWire) \in Seq(Seq(Notes))
    BY ForReceiverTyped DEF EndInv
  <2>5. Delivered \in Seq(Notes)
    BY <2>4, FlattenTyped DEF Delivered
  <2> QED
    BY <2>1, <2>3, <2>5
<1>2. <<Hello>> \in Seq(Notes) /\ Accepted(accepted) \in Seq(Notes)
  BY <1>1, AcceptedGrows, OursAreNotes
<1>3. Phase = "none" => outbound = <<>>
  BY DEF EndInv, Phase
<1>4. CASE Send
  <2> DEFINE m == Message("app", accepted + 1)
  <2>1. /\ Phase = "running" /\ UNCHANGED <<Phase, Lost, Delivered>>
        /\ accepted' = accepted + 1 /\ outbound' = Append(outbound, m)
    <3>1. /\ dpc \notin {"tcp", "tls", "hello", "failed", "done"}
          /\ UNCHANGED <<dpc, faults, peerClosed, cause, outWire>>
      BY <1>4 DEF Send, Opened, Connecting, peerVars
    <3>2. accepted' = accepted + 1 /\ outbound' = Append(outbound, m)
      BY <1>4 DEF Send
    <3> HIDE DEF m
    <3>3. Phase = "running" /\ UNCHANGED <<Phase, Lost>>
      BY <3>1 DEF Phase, Connecting, Lost
    <3>4. UNCHANGED Delivered
      BY <3>1 DEF Delivered
    <3> QED
      BY <3>2, <3>3, <3>4
  <2>2. m \in Notes
    BY <1>1 DEF Message, Notes, Kinds
  <2>3. Accepted(accepted + 1) = Append(Accepted(accepted), m)
    BY <1>1, AcceptedGrows
  <2> HIDE DEF m
  <2>4. Delivered \o Append(outbound, m) = Append(Delivered \o outbound, m)
    BY <1>1, <2>2, AppendOver
  <2>5. <<Hello>> \o Append(Accepted(accepted), m)
          = Append(<<Hello>> \o Accepted(accepted), m)
    BY <1>2, <2>2, AppendOver
  <2>6. Accepted(accepted)' = Accepted(accepted + 1)
    BY <2>1 DEF Accepted
  <2>7. ~Lost => Delivered' \o outbound' = <<Hello>> \o Accepted(accepted)'
    BY <2>1, <2>3, <2>4, <2>5, <2>6 DEF DeliveryInv
  <2> QED
    BY <2>1, <2>7 DEF DeliveryInv
<1>5. CASE ~Send
  <2>1. /\ accepted' = accepted
        /\ outbound' = outbound \/ (outbound # <<>> /\ outbound' = Tail(outbound))
        /\ Accepted(accepted)' = Accepted(accepted)
    BY <1>5, OnlySendAccepts DEF Accepted
  <2> DEFINE still == UNCHANGED <<Delivered, outbound>>
  <2>2. \/ Phase' = Phase /\ Lost' = Lost /\ still
        \/ /\ Phase = "none" /\ Phase' = "running" /\ Lost' = Lost /\ outbound' = outbound
           /\ Delivered' = <<Hello>>
        \/ Lost' /\ Phase' # "none"
        \/ /\ Phase' = Phase /\ Phase = "running" /\ Lost' = Lost /\ outbound # <<>>
           /\ outbound' = Tail(outbound) /\ Delivered' = Append(Delivered, Head(outbound))
        \/ /\ Phase = "running" /\ Phase' = "gone" /\ Lost' = Lost /\ still
           /\ Lost \/ outbound = <<>>
    <3>1. CASE UNCHANGED Channel!vars
      BY <3>1 DEF Channel!vars, Phase, Lost, Delivered
    <3>2. CASE Channel!Open
      BY <3>2 DEF Channel!Open, Phase, Lost, Delivered
    <3>3. CASE Channel!OpenFails
      BY <3>3 DEF Channel!OpenFails, Phase, Lost, Delivered
    <3>4. CASE Channel!Deliver
      BY <3>4 DEF Channel!Deliver, Phase, Lost, Delivered
    <3>5. CASE Channel!Forward
      BY <3>5 DEF Channel!Forward, Phase, Lost, Delivered
    <3>6. CASE Channel!Break
      BY <3>6 DEF Channel!Break, Phase, Lost
    <3>7. CASE Channel!Stop
      BY <3>7 DEF Channel!Stop, Phase, Lost, Delivered
    <3>8. CASE Channel!End
      BY <3>8 DEF Channel!End, Phase, Lost, Delivered
    <3>9. ASSUME NEW m, Channel!Send(m) PROVE FALSE
      <4>1. outbound' = Append(outbound, m)
        BY <3>9 DEF Channel!Send
      <4>2. Len(outbound) \in Nat /\ Len(outbound') = Len(outbound) + 1
        BY <1>1, <4>1
      <4>3. outbound # <<>> => Len(Tail(outbound)) = Len(outbound) - 1
        BY <1>1, Dropped
      <4> QED
        BY <2>1, <4>2, <4>3
    <3>10. ASSUME NEW m, Channel!PeerSend(m) PROVE Phase' = Phase /\ Lost' = Lost /\ still
      BY <3>10 DEF Channel!PeerSend, Phase, Lost, Delivered
    <3>11. Channel!Next \/ UNCHANGED Channel!vars
      BY StepMaps
    <3> QED
      BY <3>1, <3>2, <3>3, <3>4, <3>5, <3>6, <3>7, <3>8, <3>9, <3>10, <3>11 DEF Channel!Next
  <2>3. CASE Phase' = Phase /\ Lost' = Lost /\ still
    BY <2>1, <2>3 DEF DeliveryInv
  <2>4. CASE /\ Phase = "none" /\ Phase' = "running" /\ Lost' = Lost /\ outbound' = outbound
             /\ Delivered' = <<Hello>>
    <3>1. accepted = 0 /\ outbound' = <<>>
      BY <1>3, <2>4 DEF DeliveryInv
    <3>2. Accepted(accepted)' = <<>>
      BY <2>1, <3>1 DEF Accepted
    <3>3. Delivered' \o outbound' = <<Hello>> \o Accepted(accepted)'
      BY <2>4, <3>1, <3>2
    <3> QED
      BY <2>4, <3>3 DEF DeliveryInv
  <2>5. CASE Lost' /\ Phase' # "none"
    BY <2>5 DEF DeliveryInv
  <2>6. CASE /\ Phase' = Phase /\ Phase = "running" /\ Lost' = Lost /\ outbound # <<>>
             /\ outbound' = Tail(outbound) /\ Delivered' = Append(Delivered, Head(outbound))
    <3>1. Append(Delivered, Head(outbound)) \o Tail(outbound) = Delivered \o outbound
      BY <1>1, <2>6, HeadPasses
    <3> QED
      BY <2>1, <2>6, <3>1 DEF DeliveryInv
  <2>7. CASE /\ Phase = "running" /\ Phase' = "gone" /\ Lost' = Lost /\ still
             /\ Lost \/ outbound = <<>>
    BY <2>1, <2>7 DEF DeliveryInv
  <2> QED
    BY <2>2, <2>3, <2>4, <2>5, <2>6, <2>7
<1> QED
  BY <1>4, <1>5

(* When the channel has ended, and no connection was lost, what the peer   *)
(* has got whole is the greeting and then every message that send()        *)
(* accepted, once and in order: this is what the caller relies on when it  *)
(* queues STOP and CLOSE and drops the channel (cast_channel.rs:89-101,    *)
(* 119-126, 294-301).                                                      *)
THEOREM AcceptedArrives ==
  Spec => [](dpc = "done" /\ ~Lost => Delivered = <<Hello>> \o Accepted(accepted))
<1>1. Init => DeliveryInv
  BY DEF Init, DeliveryInv, Phase, Connecting
<1>2. Inv /\ EndInv /\ DeliveryInv /\ [Next]_vars => DeliveryInv'
  BY DeliveryPreserved
<1>3. EndInv /\ Inv /\ [Next]_vars => EndInv'
  BY EndPreserved
<1>4. ASSUME EndInv, DeliveryInv, dpc = "done", ~Lost
      PROVE Delivered = <<Hello>> \o Accepted(accepted)
  <2>1. outbound = <<>> /\ Delivered \o outbound = <<Hello>> \o Accepted(accepted)
    BY <1>4 DEF DeliveryInv, Phase, Connecting
  <2>2. ForReceiver(outWire) \in Seq(Seq(Notes))
    BY <1>4, ForReceiverTyped DEF EndInv
  <2>3. Delivered \in Seq(Notes)
    BY <2>2, FlattenTyped DEF Delivered
  <2> QED
    BY <2>1, <2>3, ConcatEmptySeq
<1>5. EndInv /\ DeliveryInv
        => (dpc = "done" /\ ~Lost => Delivered = <<Hello>> \o Accepted(accepted))
  BY <1>4
<1> QED
  BY <1>1, <1>2, <1>3, <1>5, EndStart, Invariance, PTL DEF Spec
=============================================================================
