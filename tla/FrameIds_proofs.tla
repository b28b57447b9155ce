-------------------------- MODULE FrameIds_proofs --------------------------
(***************************************************************************)
(* Machine-checked proofs about the frame IDs of cast_rtp.rs, for every    *)
(* size of a byte and of a word.                                           *)
(***************************************************************************)
EXTENDS FrameIds, TLAPS

(* Division with remainder.                                                *)
LEMMA DivMod ==
  ASSUME NEW f \in Int, NEW N \in Nat \ {0}
  PROVE /\ f \div N \in Int
        /\ f % N \in 0..N-1
        /\ f = N * (f \div N) + (f % N)
BY SMT

(* The only multiple of N strictly between -N and N is 0.                  *)
LEMMA SmallMultiple ==
  ASSUME NEW a \in Int, NEW N \in Nat \ {0}, -N < N * a, N * a < N
  PROVE a = 0
<1>1. CASE a <= -1
  <2>1. N * a <= N * (-1) BY <1>1, SMT
  <2> QED BY <2>1, SMT
<1>2. CASE a >= 1
  <2>1. N * a >= N BY <1>2, SMT
  <2> QED BY <2>1, SMT
<1> QED BY <1>1, <1>2, SMT

(* A number's remainder is the one number in range a multiple away.        *)
LEMMA ModUnique ==
  ASSUME NEW x \in Int, NEW r \in Int, NEW q \in Int, NEW N \in Nat \ {0},
         x = N * q + r, 0 <= r, r < N
  PROVE x % N = r
<1> DEFINE d == x \div N
           m == x % N
<1>1. d \in Int /\ m \in 0..N-1 /\ x = N * d + m
  BY DivMod
<1> HIDE DEF d, m
<1>2. N * d - N * q = N * (d - q)
  BY <1>1, SMT
<1>3. -N < N * (d - q) /\ N * (d - q) < N
  BY <1>1, <1>2, SMT
<1>4. d - q = 0
  BY <1>1, <1>3, SmallMultiple
<1>5. m = r
  BY <1>1, <1>2, <1>4, SMT
<1> QED BY <1>5 DEF m

(* The difference of two numbers has the remainder of the difference of    *)
(* their remainders.                                                       *)
LEMMA ModOfDifference ==
  ASSUME NEW x \in Int, NEW y \in Int, NEW N \in Nat \ {0}
  PROVE ((x % N) - (y % N)) % N = (x - y) % N
<1> DEFINE qx == x \div N  qy == y \div N  q == (x - y) \div N
           mx == x % N     my == y % N     d == (x - y) % N
<1>0. x - y \in Int OBVIOUS
<1>1. qx \in Int /\ mx \in 0..N-1 /\ x = N * qx + mx BY DivMod
<1>2. qy \in Int /\ my \in 0..N-1 /\ y = N * qy + my BY DivMod
<1>3. q \in Int /\ d \in 0..N-1 /\ x - y = N * q + d BY <1>0, DivMod
<1> HIDE DEF qx, qy, q, mx, my, d
<1>4. N * q - N * qx + N * qy = N * (q - qx + qy) BY <1>1, <1>2, <1>3, SMT
<1>5. mx - my = N * (q - qx + qy) + d
  <2>1. N * q \in Int /\ N * qx \in Int /\ N * qy \in Int BY <1>1, <1>2, <1>3, SMT
  <2>2. mx - my = N * q - N * qx + N * qy + d
    BY <1>1, <1>2, <1>3, <2>1, SMT
  <2> QED BY <1>4, <2>2
<1>6. mx - my \in Int /\ q - qx + qy \in Int /\ d \in Int /\ 0 <= d /\ d < N
  BY <1>1, <1>2, <1>3, SMT
<1>7. (mx - my) % N = d
  BY <1>5, <1>6, ModUnique
<1> QED BY <1>7 DEF mx, my, d

(* A number in the range of the remainders is its own.                     *)
LEMMA OwnRemainder ==
  ASSUME NEW r \in Int, NEW N \in Nat \ {0}, 0 <= r, r < N
  PROVE r % N = r
<1>1. r = N * 0 + r BY SMT
<1> QED BY <1>1, ModUnique

(* A number within N of another, and at or below it, is found from its     *)
(* remainder.                                                              *)
LEMMA DistanceBelow ==
  ASSUME NEW x \in Int, NEW y \in Int, NEW N \in Nat \ {0},
         y <= x, x - y < N
  PROVE ((x % N) - (y % N)) % N = x - y
<1>1. x - y \in Int /\ 0 <= x - y
  BY SMT
<1>2. (x - y) % N = x - y
  BY <1>1, OwnRemainder
<1> QED BY <1>2, ModOfDifference

(* A step back from a number can be taken from its remainder.              *)
LEMMA ModShift ==
  ASSUME NEW x \in Int, NEW d \in Int, NEW N \in Nat \ {0}
  PROVE ((x % N) - d) % N = (x - d) % N
<1>1. x % N \in Int /\ 0 <= x % N /\ x % N < N
  BY DivMod
<1>2. (x % N) % N = x % N
  BY <1>1, OwnRemainder
<1>3. (((x % N) % N) - (d % N)) % N = ((x % N) - d) % N
  BY <1>1, ModOfDifference
<1>4. ((x % N) - (d % N)) % N = (x - d) % N
  BY ModOfDifference
<1> QED BY <1>2, <1>3, <1>4

-----------------------------------------------------------------------------
(* Products, named so that the solver need not find them.                  *)
LEMMA Regroup ==
  ASSUME NEW a \in Int, NEW b \in Int, NEW c \in Int
  PROVE (a * b) * c = a * (b * c)
BY SMT

LEMMA Distribute ==
  ASSUME NEW a \in Int, NEW b \in Int, NEW c \in Int
  PROVE a * (b + c) = a * b + a * c
BY SMT

(* Words are whole numbers of bytes: reducing to a word keeps the byte.    *)
LEMMA WordKeepsByte ==
  ASSUME NEW x \in Int
  PROVE LowByte(x % Word) = LowByte(x)
<1> USE IdAssumption
<1> DEFINE k == Word \div Bytes  q == x \div Word  w == x % Word
           p == w \div Bytes  b == w % Bytes
<1>0. Word \in Int /\ Word \in Nat \ {0} /\ Bytes \in Nat \ {0} /\ Word % Bytes = 0 OBVIOUS
<1>1. k \in Int /\ Word = Bytes * k
  <2>1. k \in Int /\ Word = Bytes * k + (Word % Bytes) BY <1>0, DivMod
  <2> HIDE DEF k
  <2>2. Bytes * k \in Int BY <2>1, <1>0, SMT
  <2> QED BY <1>0, <2>1, <2>2, SMT
<1>2. q \in Int /\ w \in 0..Word-1 /\ x = Word * q + w BY <1>0, DivMod
<1>3. w \in Int BY <1>0, <1>2
<1>4. p \in Int /\ b \in 0..Bytes-1 /\ w = Bytes * p + b BY <1>0, <1>3, DivMod
<1> HIDE DEF k, q, w, p, b
<1>5. x = Bytes * (k * q + p) + b
  <2>1. x = (Bytes * k) * q + (Bytes * p + b) BY <1>1, <1>2, <1>4
  <2>2. (Bytes * k) * q = Bytes * (k * q) BY <1>0, <1>1, <1>2, Regroup
  <2>3. k * q \in Int BY <1>1, <1>2
  <2>4. Bytes * (k * q + p) = Bytes * (k * q) + Bytes * p BY <1>0, <1>4, <2>3, Distribute
  <2>5. Bytes * (k * q) \in Int BY <1>0, <2>3
  <2>6. Bytes * p \in Int /\ b \in Int BY <1>0, <1>4
  <2> QED BY <2>1, <2>2, <2>4, <2>5, <2>6, SMT
<1>6. k * q + p \in Int /\ b \in Int /\ 0 <= b /\ b < Bytes BY <1>0, <1>1, <1>2, <1>4, SMT
<1> DEFINE r == k * q + p
<1>7. r \in Int /\ x = Bytes * r + b BY <1>5, <1>6
<1> HIDE DEF r
<1>8. x % Bytes = b BY <1>0, <1>6, <1>7, ModUnique
<1> QED BY <1>8 DEF LowByte, b, w

(* The distance by which expand_le steps back.                             *)
LEMMA StepBack ==
  ASSUME NEW max \in Int, NEW x \in Int, x <= max, max - x < Bytes
  PROVE ExpandLe(max, LowByte(x)) = x % Word
<1>1. Bytes \in Nat \ {0} BY IdAssumption
<1>2. (LowByte(max) - LowByte(x)) % Bytes = max - x
  BY <1>1, DistanceBelow DEF LowByte
<1>3. max - (max - x) = x OBVIOUS
<1> QED BY <1>2, <1>3 DEF ExpandLe

(* expand_le only depends on the word its argument stands for.             *)
LEMMA ExpandLeOfWord ==
  ASSUME NEW max \in Int, NEW truncated \in Int
  PROVE ExpandLe(max % Word, truncated) = ExpandLe(max, truncated)
<1> DEFINE d == (LowByte(max) - truncated) % Bytes
<1>1. Bytes \in Nat \ {0} /\ Word \in Nat \ {0} BY IdAssumption
<1>2. LowByte(max % Word) = LowByte(max) BY WordKeepsByte
<1>3. LowByte(max) - truncated \in Int
  <2>1. LowByte(max) \in Int BY <1>1, DivMod DEF LowByte
  <2> QED BY <2>1
<1>4. d \in Int BY <1>1, <1>3, DivMod
<1> HIDE DEF d
<1>5. ((max % Word) - d) % Word = (max - d) % Word BY <1>1, <1>4, ModShift
<1> QED BY <1>2, <1>5 DEF ExpandLe, d

(* expand_le recovers every ID from its low byte and any newer ID that is  *)
(* less than the range of a byte ahead of it (cast_rtp.rs:320-323).        *)
THEOREM ExpandLeRecovers ==
  ASSUME NEW max \in FrameId, NEW x \in FrameId, x <= max, max - x < Bytes
  PROVE ExpandLe(max, LowByte(x)) = x
<1>1. max \in Int /\ x \in Int /\ 0 <= x /\ x < Word /\ Word \in Nat \ {0}
  BY IdAssumption DEF FrameId
<1>2. x % Word = x BY <1>1, OwnRemainder
<1> QED BY <1>1, <1>2, StepBack

(* A byte can be expanded next to any ID: one ID in the window below has   *)
(* it as its low byte.                                                     *)
LEMMA WindowHasByte ==
  ASSUME NEW max \in Int, NEW b \in Byte
  PROVE \E x \in max - Bytes + 1 .. max : LowByte(x) = b
<1> DEFINE a == LowByte(max)
           d == (a - b) % Bytes
           q == (a - b) \div Bytes
<1>1. Bytes \in Nat \ {0} /\ b \in Int /\ 0 <= b /\ b < Bytes BY IdAssumption DEF Byte
<1>2. a \in Int BY <1>1, DivMod DEF LowByte
<1> HIDE DEF a
<1>3. a - b \in Int BY <1>1, <1>2
<1>4. q \in Int /\ d \in 0..Bytes-1 /\ a - b = Bytes * q + d BY <1>1, <1>3, DivMod
<1> HIDE DEF d, q
<1>5. (a - d) % Bytes = b
  <2>1. Bytes * q \in Int /\ d \in Int BY <1>1, <1>4, SMT
  <2>2. a - d = Bytes * q + b BY <1>1, <1>2, <1>4, <2>1, SMT
  <2>3. a - d \in Int BY <1>2, <2>1
  <2> QED BY <1>1, <1>4, <2>2, <2>3, ModUnique
<1>6. d \in Int /\ max - d \in Int BY <1>4
<1>7. (max - d) % Bytes = b BY <1>1, <1>5, <1>6, ModShift DEF a, LowByte
<1>8. max - d \in max - Bytes + 1 .. max BY <1>1, <1>4, <1>6, SMT
<1> QED BY <1>7, <1>8 DEF LowByte

(* A NACK is expanded to the ID with its byte among the Bytes IDs past the *)
(* checkpoint.                                                             *)
LEMMA NackedIdReads ==
  ASSUME NEW c \in Int, NEW lost \in Int, c < lost, lost <= c + Bytes
  PROVE NackedId(c % Word, LowByte(lost)) = lost % Word
<1> DEFINE back == -Bytes
<1>1. Bytes \in Nat \ {0} /\ Word \in Nat \ {0} BY IdAssumption
<1>2. back \in Int /\ c + Bytes \in Int BY <1>1
<1>3. c % Word \in Int BY <1>1, DivMod
<1>4. (c % Word) - back = (c % Word) + Bytes /\ c - back = c + Bytes BY <1>1, <1>3
<1> HIDE DEF back
<1>5. ((c % Word) + Bytes) % Word = (c + Bytes) % Word
  <2>1. ((c % Word) - back) % Word = (c - back) % Word BY <1>1, <1>2, ModShift
  <2> QED BY <1>4, <2>1
<1>6. ExpandLe((c + Bytes) % Word, LowByte(lost)) = ExpandLe(c + Bytes, LowByte(lost))
  <2>1. LowByte(lost) \in Int BY <1>1, DivMod DEF LowByte
  <2> QED BY <1>2, <2>1, ExpandLeOfWord
<1>7. ExpandLe(c + Bytes, LowByte(lost)) = lost % Word
  <2>1. lost <= c + Bytes /\ (c + Bytes) - lost < Bytes BY <1>1
  <2> QED BY <1>2, <2>1, StepBack
<1> QED BY <1>5, <1>6, <1>7 DEF NackedId

(* Two IDs within a byte's range of each other compare like the numbers    *)
(* they stand for, wherever the word wraps around.                         *)
LEMMA OlderCompares ==
  ASSUME NEW x \in Int, NEW y \in Int, x - y < Bytes, y - x < Bytes
  PROVE Older(x % Word, y % Word) <=> x < y
<1> DEFINE k == Word \div Bytes
<1>1. Bytes \in Nat \ {0} /\ Word \in Nat \ {0} /\ Word \in Int /\ Word > Bytes
  BY IdAssumption
<1>2. 2 * Bytes <= Word
  <2>1. k \in Int /\ Word = Bytes * k + (Word % Bytes) BY <1>1, DivMod
  <2> HIDE DEF k
  <2>2. Bytes * k \in Int /\ Word = Bytes * k
    <3>1. Bytes * k \in Int BY <1>1, <2>1, SMT
    <3> QED BY <1>1, <2>1, <3>1, IdAssumption, SMT
  <2>3. k >= 2
    <3>1. CASE k <= 1
      <4>1. Bytes * k <= Bytes * 1 BY <1>1, <2>1, <3>1, SMT
      <4> QED BY <1>1, <2>2, <4>1, SMT
    <3> QED BY <2>1, <3>1, SMT
  <2>4. Bytes * k >= Bytes * 2 BY <1>1, <2>1, <2>3, SMT
  <2> QED BY <1>1, <2>2, <2>4, SMT
<1>3. ((x % Word) - (y % Word)) % Word = (x - y) % Word BY <1>1, ModOfDifference
<1>4. x - y \in Int OBVIOUS
<1>5. CASE y <= x
  <2>1. 0 <= x - y /\ x - y < Word BY <1>1, <1>5, SMT
  <2>2. (x - y) % Word = x - y BY <1>1, <1>4, <2>1, OwnRemainder
  <2>3. 2 * (x - y) < Word BY <1>1, <1>2, <1>4, SMT
  <2>4. ~ (2 * (x - y) >= Word) /\ ~ (x < y) BY <1>1, <1>4, <1>5, <2>3, SMT
  <2> QED BY <1>3, <2>2, <2>4 DEF Older
<1>6. CASE x < y
  <2>1. x - y + Word \in Int /\ 0 <= x - y + Word /\ x - y + Word < Word
    BY <1>1, <1>6, SMT
  <2> DEFINE q == -1
             r == x - y + Word
  <2>2. x - y = Word * q + r BY <1>1, <1>4, SMT
  <2>3. q \in Int /\ r \in Int /\ 0 <= r /\ r < Word BY <2>1
  <2> HIDE DEF q, r
  <2>6. (x - y) % Word = r BY <1>1, <1>4, <2>2, <2>3, ModUnique
  <2>4. (x - y) % Word = x - y + Word BY <2>6 DEF r
  <2>5. 2 * (x - y + Word) >= Word BY <1>1, <1>2, <1>4, SMT
  <2> QED BY <1>3, <1>6, <2>4, <2>5 DEF Older
<1> QED BY <1>5, <1>6, SMT

(* A frame's number counts on where its ID wraps around.  The checkpoint   *)
(* of a feedback is understood as long as fewer frames than a byte has     *)
(* values were sent since, and a NACK for any frame after the checkpoint   *)
(* that the byte can tell apart is expanded to that frame's ID, whatever   *)
(* wrapped in between; a receiver that has no frame yet acknowledges the   *)
(* one before the first, number -1 (cast_rtp.rs:354, 365).                 *)
THEOREM NackRecovered ==
  ASSUME NEW sent \in Int, NEW ck \in Int, NEW lost \in Int,
         ck <= sent, sent - ck < Bytes, ck < lost, lost <= ck + Bytes
  PROVE NackedId(CheckpointId(sent % Word, LowByte(ck % Word)), LowByte(lost % Word))
          = lost % Word
<1>1. Bytes \in Nat \ {0} /\ Word \in Nat \ {0} BY IdAssumption
<1>2. LowByte(ck % Word) = LowByte(ck) /\ LowByte(lost % Word) = LowByte(lost)
  BY WordKeepsByte
<1>3. LowByte(ck) \in Int /\ LowByte(lost) \in Int BY <1>1, DivMod DEF LowByte
<1>4. CheckpointId(sent % Word, LowByte(ck % Word)) = ck % Word
  <2>1. ExpandLe(sent % Word, LowByte(ck)) = ExpandLe(sent, LowByte(ck))
    BY <1>3, ExpandLeOfWord
  <2>2. ExpandLe(sent, LowByte(ck)) = ck % Word BY StepBack
  <2> QED BY <1>2, <2>1, <2>2 DEF CheckpointId
<1>5. NackedId(ck % Word, LowByte(lost)) = lost % Word BY NackedIdReads
<1> QED BY <1>2, <1>4, <1>5
=============================================================================
