----------------------------- MODULE GameOutcome -----------------------------
(***************************************************************************)
(* What a single game promises to the match that is played over it: every  *)
(* seat gets a place.  No cards, no tricks, no turns: singleGame.ts        *)
(* implements this (module SingleGame), and the match (module Match) is    *)
(* built on it.                                                            *)
(***************************************************************************)
EXTENDS Places

VARIABLE outcome

Init == outcome = NewGame

Empty(seat) == /\ ~outcome.over
               /\ seat \in outcome.holding
               /\ outcome' = Emptied(outcome, seat)

Leave(seat) == outcome' = Left(outcome, seat)

Next == \E seat \in Seats : Empty(seat) \/ Leave(seat)

Spec == Init /\ [][Next]_outcome

=============================================================================
