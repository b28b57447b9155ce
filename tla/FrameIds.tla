------------------------------ MODULE FrameIds ------------------------------
(***************************************************************************)
(* The arithmetic of frame IDs in cast_rtp.rs.  A frame ID is a word that  *)
(* wraps around; RTCP feedback carries only its low byte, which the sender *)
(* expands next to an ID it knows.                                         *)
(***************************************************************************)
EXTENDS Integers

CONSTANTS
  Bytes,     (* the values of a byte: 2^8 in the code                       *)
  Word       (* the values of a u32: 2^32 in the code                       *)

ASSUME IdAssumption ==
  /\ Bytes \in Nat \ {0} /\ Word \in Nat \ {0}
  /\ Word % Bytes = 0 /\ Word > Bytes

FrameId == 0..Word-1
Byte == 0..Bytes-1

LowByte(id) == id % Bytes

(* expand_le: the greatest ID up to max with this low byte.                *)

(* mutant: the subtraction does not wrap *)
ExpandLe_Unwrapped(max, truncated) == max - ((LowByte(max) - truncated) % Bytes)
ExpandLe(max, truncated) == (max - ((LowByte(max) - truncated) % Bytes)) % Word

(* The checkpoint of a feedback is not past the newest frame sent; a NACK  *)
(* is for one of the Bytes frames after the checkpoint.                    *)
CheckpointId(lastSent, truncated) == ExpandLe(lastSent, truncated)

(* mutant: expands a NACK up to the checkpoint instead of past it *)
NackedId_Behind(ck, truncated) == ExpandLe(ck, truncated)
NackedId(ck, truncated) == ExpandLe((ck + Bytes) % Word, truncated)

(* (ck - prev) as i32 < 0                                                  *)
(* mutant: any checkpoint is taken *)
Older_Never(ck, prev) == FALSE
Older(ck, prev) == 2 * ((ck - prev) % Word) >= Word
=============================================================================
