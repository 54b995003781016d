--------------------------- MODULE MessageChannel ---------------------------
(***************************************************************************)
(* What a connection promises to MainLoop: the messages it receives are    *)
(* those the peer has sent over this connection, each whole, in order and  *)
(* once.  A new connection starts empty; an old one may end anywhere.      *)
(***************************************************************************)
EXTENDS Naturals, Sequences

CONSTANT Message

VARIABLES sent, received

Init == sent = <<>> /\ received = <<>>

Open == sent' = <<>> /\ received' = <<>>

Send == \E m \in Message : sent' = Append(sent, m) /\ UNCHANGED received

Receive ==
  /\ Len(received) < Len(sent)
  /\ received' = Append(received, sent[Len(received) + 1])
  /\ UNCHANGED sent

Spec == Init /\ [][Open \/ Send \/ Receive]_<<sent, received>>
=============================================================================
