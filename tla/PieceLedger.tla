---------------------------- MODULE PieceLedger ----------------------------
(***************************************************************************)
(* What PieceStorage and the connections together promise about a piece:   *)
(* it waits in the queue, is leased to one connection, is on disk, or was  *)
(* lost by a connection that dropped it without giving it back.  Only the  *)
(* leaseholder gives it back or has it saved, and saved is for good.       *)
(***************************************************************************)
CONSTANTS Conns, WantedPieces

VARIABLE holder

Init == holder = [p \in WantedPieces |-> "Queued"]

Move(p, from, to) ==
  /\ holder[p] = from
  /\ holder' = [holder EXCEPT ![p] = to]

Lease(c, p) ==
  /\ \A q \in WantedPieces : holder[q] # c
  /\ Move(p, "Queued", c)
GiveBack(c, p) == Move(p, c, "Queued")
Save(c, p)     == Move(p, c, "Saved")
Lose(c, p)     == Move(p, c, "Lost")

Next == /\ holder' # holder
        /\ \E c \in Conns, p \in WantedPieces :
          Lease(c, p) \/ GiveBack(c, p) \/ Save(c, p) \/ Lose(c, p)

Spec == Init /\ [][Next]_holder
=============================================================================
