--------------------------- MODULE MCRtcpFeedback ---------------------------
(***************************************************************************)
(* A small instance of RtcpFeedback.                                       *)
(***************************************************************************)
EXTENDS RtcpFeedback

(* Frame 3 is also a checkpoint, so that a loss may lie a whole range of   *)
(* the byte past it; frame 4 is none.  No loss, one of each kind, or a     *)
(* whole frame followed by a part of one.                                  *)
MCFields == {f \in LossField : f.frame \in {3, 4}}
MCLossLists ==
  {<<>>} \cup {<<f>> : f \in MCFields}
         \cup {<<f, g>> : f \in {x \in MCFields : x.packet = "all"},
                          g \in {x \in MCFields : x.packet = "later"}}
=============================================================================
