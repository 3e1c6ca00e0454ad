---------------------------- MODULE MCSingleGame ----------------------------
(***************************************************************************)
(* Small tables for TLC: hands of two or three cards in which pairs, a     *)
(* bomb, a joker and equal strengths meet.                                 *)
(***************************************************************************)
EXTENDS BotBrain, TLC

cd(r, s) == [rank |-> r, suit |-> s]

MCDeals3 ==
    {(0 :> {cd("3", "S"), cd("5", "S"), cd("5", "H")}
      @@ 1 :> {cd("4", "S"), cd("6", "S"), cd("joker", "red")}
      @@ 2 :> {cd("4", "H"), cd("6", "H"), cd("6", "D")}),
     (0 :> {cd("K", "S"), cd("3", "H")}
      @@ 1 :> {cd("9", "S"), cd("9", "H")}
      @@ 2 :> {cd("2", "H"), cd("10", "S")})}

MCDeals4 ==
    {(0 :> {cd("3", "S"), cd("7", "H")}
      @@ 1 :> {cd("4", "H"), cd("4", "D")}
      @@ 2 :> {cd("5", "S"), cd("joker", "black")}
      @@ 3 :> {cd("6", "H"), cd("8", "D")}),
     (0 :> {cd("4", "S"), cd("5", "S"), cd("6", "S"), cd("7", "S"), cd("8", "S"), cd("8", "H")}
      @@ 1 :> {cd("9", "H")}
      @@ 2 :> {cd("9", "D"), cd("9", "C")}
      @@ 3 :> {cd("3", "H")})}
=============================================================================
