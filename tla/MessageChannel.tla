--------------------------- MODULE MessageChannel ---------------------------
(***************************************************************************)
(* What cast_channel.rs promises to the program: a queue of messages to    *)
(* the receiver and one from it.  The caller that drops the channel waits  *)
(* for its end, and everything it had queued is then delivered, once and   *)
(* in order, unless the connection was lost on the way.  Sending on a      *)
(* channel about to end succeeds; what was sent may then be lost with it.  *)
(* CastChannel implements this module, and Session is built on it.         *)
(***************************************************************************)
EXTENDS Sequences

CONSTANTS
  Outgoing,      (* the messages the caller sends                           *)
  Incoming,      (* the messages the peer sends to it                       *)
  Hello          (* what the peer gets first                                *)

VARIABLES
  state,         (* "none", "running" or "gone"                             *)
  ending,        (* the channel will end, by its caller or by itself        *)
  lost,          (* the connection has failed at least once                 *)
  outbound,      (* accepted by the channel, not yet delivered              *)
  delivered,     (* what the peer has got                                   *)
  inbound,       (* what the peer has sent, not yet forwarded               *)
  incoming       (* what the caller has been forwarded                      *)

vars == <<state, ending, lost, outbound, delivered, inbound, incoming>>

Init ==
  /\ state = "none" /\ ending = FALSE /\ lost = FALSE
  /\ outbound = <<>> /\ delivered = <<>>
  /\ inbound = <<>> /\ incoming = <<>>

(* A connection is only used once the peer has been greeted; a greeting of *)
(* a connection that then fails may still get through.                     *)
Open ==
  /\ state = "none"
  /\ state' = "running"
  /\ delivered' = <<Hello>>
  /\ UNCHANGED <<ending, lost, outbound, inbound, incoming>>

OpenFails ==
  /\ state = "none"
  /\ state' = "gone" /\ ending' = TRUE /\ lost' = TRUE
  /\ delivered' \in {delivered, <<Hello>>}
  /\ UNCHANGED <<outbound, inbound, incoming>>

Send(m) ==
  /\ state = "running"
  /\ outbound' = Append(outbound, m)
  /\ UNCHANGED <<state, ending, lost, delivered, inbound, incoming>>

Deliver ==
  /\ state = "running" /\ outbound # <<>>
  /\ outbound' = Tail(outbound)
  /\ delivered' = Append(delivered, Head(outbound))
  /\ UNCHANGED <<state, ending, lost, inbound, incoming>>

PeerSend(m) ==
  /\ state = "running"
  /\ inbound' = Append(inbound, m)
  /\ UNCHANGED <<state, ending, lost, outbound, delivered, incoming>>

Forward ==
  /\ state = "running" /\ inbound # <<>>
  /\ inbound' = Tail(inbound)
  /\ incoming' = Append(incoming, Head(inbound))
  /\ UNCHANGED <<state, ending, lost, outbound, delivered>>

(* A failure the channel may or may not end by: the message it was         *)
(* delivering, if any, is gone from the queue, delivered or not.           *)
Break ==
  /\ state = "running"
  /\ lost' = TRUE
  /\ ending' \in {ending, TRUE}
  /\ \/ UNCHANGED <<outbound, delivered>>
     \/ /\ outbound # <<>> /\ outbound' = Tail(outbound)
        /\ delivered' \in {delivered, Append(delivered, Head(outbound))}
  /\ UNCHANGED <<state, inbound, incoming>>

Stop ==
  /\ state # "none"
  /\ ending' = TRUE
  /\ UNCHANGED <<state, lost, outbound, delivered, inbound, incoming>>

End ==
  /\ state = "running" /\ ending
  /\ lost \/ outbound = <<>>
  /\ state' = "gone"
  /\ UNCHANGED <<ending, lost, outbound, delivered, inbound, incoming>>

Next ==
  \/ Open \/ OpenFails \/ Deliver \/ Forward \/ Break \/ Stop \/ End
  \/ \E m \in Outgoing : Send(m)
  \/ \E m \in Incoming : PeerSend(m)

Progress ==
  /\ ending ~> (state = "gone")
  /\ (outbound # <<>>) ~> (outbound = <<>> \/ ending)
  /\ (inbound # <<>>) ~> (inbound = <<>> \/ ending)

Safety == Init /\ [][Next]_vars
Spec == Safety /\ Progress
=============================================================================
