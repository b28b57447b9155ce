---------------------------- MODULE RtcpFeedback ----------------------------
(***************************************************************************)
(* parse_nacked_frames in cast_rtp.rs: it goes through the packets of a    *)
(* compound RTCP datagram and keeps the NACKs of the newest feedback that  *)
(* is meant for us; anything malformed on the way voids the compound.  The *)
(* names of its specification begin with Parser, so that one module can    *)
(* reason about it and about CastRtp, whose NACK thread calls it.          *)
(***************************************************************************)
EXTENDS FrameIds, Sequences

CONSTANTS
  LastSents,     (* the values of last_sent                                 *)
  Checkpoints,   (* the checkpoint bytes of the feedbacks                   *)
  LossLists,     (* the lists of loss fields of the feedbacks               *)
  MaxPackets     (* bound: packets in a compound                            *)

(* A loss field names the frame and, within it, packet 0 ("first"), all    *)
(* packets ("all") or another ("later").                                   *)
LossField == [frame : Byte, packet : {"first", "all", "later"}]

ASSUME FeedbackAssumption ==
  /\ LastSents \subseteq FrameId /\ Checkpoints \subseteq Byte
  /\ LossLists \subseteq Seq(LossField) /\ MaxPackets \in Nat

(* What a packet is to the parser.  "garbled": no RTCP header, or a length *)
(* past the end.  "other": not a Cast feedback.  "short": a feedback under *)
(* 16 bytes.  "otherSsrc": one for another sender.  "badMagic": ours, but  *)
(* without the CAST mark.  The rest are ours; one that overstates declares *)
(* more loss fields than it has, and those it has are not read.            *)
Malformed == {"garbled", "short", "badMagic"}
NotOurs == {"other", "otherSsrc"}
Feedback == [kind : {"feedback"}, checkpoint : Checkpoints, losses : LossLists,
             overstates : {FALSE}]
            \cup [kind : {"feedback"}, checkpoint : Checkpoints, losses : {<<>>},
                  overstates : {TRUE}]
Packet == [kind : Malformed \cup NotOurs] \cup Feedback

VARIABLES
  compound,      (* the datagram                                            *)
  reference,     (* last_sent                                               *)
  at,            (* how many packets have been dealt with                   *)
  pc,            (* at the loop over packets, the loop over fields, the end *)
  taken,         (* how many fields of the packet have been dealt with      *)
  checkpoint,    (* the Option<u32>: none or one ID                         *)
  nacked         (* the Vec it returns                                      *)

parserVars == <<compound, reference, at, pc, taken, checkpoint, nacked>>

ParserInit ==
  /\ compound \in UNION {[1..n -> Packet] : n \in 0..MaxPackets}
  /\ reference \in LastSents
  /\ at = 0 /\ pc = "packet" /\ taken = 0
  /\ checkpoint = {} /\ nacked = <<>>

-----------------------------------------------------------------------------
Parsing == pc = "packet" /\ at < Len(compound)
packet == compound[at + 1]
ck == CheckpointId(reference, packet.checkpoint)
Stale == \E prev \in checkpoint : Older(ck, prev)

RejectMalformed ==
  /\ Parsing /\ packet.kind \in Malformed
  /\ nacked' = <<>> /\ pc' = "returned"
  /\ UNCHANGED <<compound, reference, at, taken, checkpoint>>

SkipPacket ==
  /\ Parsing
  /\ packet.kind \in NotOurs \/ (packet.kind = "feedback" /\ Stale)
  /\ at' = at + 1
  /\ UNCHANGED <<compound, reference, pc, taken, checkpoint, nacked>>

(* mutant: the NACKs of the older feedbacks stay *)
Cleared_Not == nacked
Cleared == <<>>

TakeFeedback ==
  /\ Parsing /\ packet.kind = "feedback" /\ ~Stale
  /\ checkpoint' = {ck}
  /\ taken' = 0
  /\ IF packet.overstates THEN nacked' = <<>> /\ pc' = "returned"
                          ELSE nacked' = Cleared /\ pc' = "fields"
  /\ UNCHANGED <<compound, reference, at>>

(* Every frame is one packet, packet 0.                                    *)
NamesPacket0(field) == field.packet \in {"first", "all"}

TakeField ==
  /\ pc = "fields" /\ taken < Len(packet.losses)
  /\ LET field == packet.losses[taken + 1] IN
       nacked' = IF NamesPacket0(field) THEN Append(nacked, NackedId(ck, field.frame))
                                        ELSE nacked
  /\ taken' = taken + 1
  /\ UNCHANGED <<compound, reference, at, pc, checkpoint>>

FieldsDone ==
  /\ pc = "fields" /\ taken = Len(packet.losses)
  /\ at' = at + 1 /\ pc' = "packet"
  /\ UNCHANGED <<compound, reference, taken, checkpoint, nacked>>

Return ==
  /\ pc = "packet" /\ at = Len(compound)
  /\ pc' = "returned"
  /\ UNCHANGED <<compound, reference, at, taken, checkpoint, nacked>>

ParserNext ==
  \/ RejectMalformed \/ SkipPacket \/ TakeFeedback
  \/ TakeField \/ FieldsDone \/ Return

ParserSpec == ParserInit /\ [][ParserNext]_parserVars

-----------------------------------------------------------------------------
(* What the compound says, with no loop: the IDs that the bytes stand for, *)
(* the feedbacks no earlier one is newer than, the last of those.          *)

CheckpointOf(p) == CHOOSE x \in reference - Bytes + 1 .. reference : LowByte(x) = p.checkpoint
LostId(p, b) == (CHOOSE x \in CheckpointOf(p) + 1 .. CheckpointOf(p) + Bytes : LowByte(x) = b) % Word

Ours == {i \in DOMAIN compound : compound[i].kind = "feedback"}
Newest ==
  {i \in Ours : \A j \in Ours :
     j < i => CheckpointOf(compound[j]) <= CheckpointOf(compound[i])}

Void ==
  \/ \E i \in DOMAIN compound : compound[i].kind \in Malformed
  \/ \E i \in Newest : compound[i].overstates

Meant ==
  IF Void \/ Newest = {} THEN {}
  ELSE LET p == compound[CHOOSE i \in Newest : \A j \in Newest : j <= i] IN
       {LostId(p, p.losses[i].frame) :
          i \in {i \in DOMAIN p.losses : NamesPacket0(p.losses[i])}}

(* What the parser returns is what the compound says: the losses of the    *)
(* newest feedback and of no other, each the ID after its checkpoint that  *)
(* the byte stands for, and nothing from a compound with a fault in it.    *)
ReturnsWhatIsMeant ==
  pc = "returned" => {nacked[i] : i \in DOMAIN nacked} = Meant
=============================================================================
