--------------------------- MODULE MCWithdrawals ---------------------------
(***************************************************************************)
(* Withdrawals on a small instance: two withdrawals to one address, of one *)
(* user or of two.  Each cap leaves room for either of them, not for both. *)
(***************************************************************************)
EXTENDS Withdrawals, TLC

MCOwners == {[w \in {1, 2} |-> "ana"], 1 :> "ana" @@ 2 :> "ben"}
MCAmountOf == 1 :> 2 @@ 2 :> 3
MCDestOf == [w \in {1, 2} |-> "t1"]

Config(live, auto, daily, global, dest) ==
    [provider |-> live, auto |-> auto, daily |-> daily, global |-> global, dest |-> dest]

MCDeployments ==
    { Config(FALSE, 3, 4, 0, 0),   \* no provider: payouts by hand
      Config(TRUE, 3, 4, 0, 0),    \* a cap per user
      Config(TRUE, 3, 0, 4, 3),    \* caps that all users share
      Config(TRUE, 2, 0, 0, 0) }   \* only a limit per payout
=============================================================================
