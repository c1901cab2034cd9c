--------------------------- MODULE MCLeaderRound ---------------------------
(***************************************************************************)
(* Small networks for LeaderRound: K holds the genesis key, M mines.       *)
(***************************************************************************)
EXTENDS LeaderRound, TLC

CONSTANTS K, M,
          MaxInFlight    \* bound: messages in flight, explored states only

\* Two conodes that know each other.
PairPeers == (K :> {M}) @@ (M :> {K})

\* Messages on their way or in the hands of a RefererBlock handler.
HandledAndSent == Cardinality(net) + Cardinality(referring)

InFlight == HandledAndSent <= MaxInFlight
=============================================================================
