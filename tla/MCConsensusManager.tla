------------------------ MODULE MCConsensusManager ------------------------
(* Two validators that share a step of the sort key; amounts of a few      *)
(* smallest units, so that every division rounds.                          *)
EXTENDS ConsensusManager, TLC
CONSTANTS v1, v2, k1, k2
MCAddressOrder == <<v2, v1>>
MCGenesisStake == (v1 :> 3) @@ (v2 :> 2)
MCInitialLeaders == {<<>>, <<1>>}
MCFirstKey == (v1 :> k1) @@ (v2 :> k1)
Network(size, min, max, target, time, gap, tried) ==
  [max_validators |-> size, min_round_count |-> min, max_round_count |-> max, target_duration_millis |-> target,
   max_time |-> time, max_gap |-> gap, max_calls |-> tried]
(* One where users and owners are busy, one in between, one with long epochs, *)
(* and one whose set has no place for the second validator.                   *)
MCNetworks ==
  {Network(2, 1, 1, 1, 0, 0, 3), Network(2, 1, 2, 1, 1, 1, 1), Network(2, 1, 3, 2, 3, 2, 0),
   Network(1, 1, 1, 1, 0, 0, 2)}
MCShortEpochs == {Network(2, 1, 2, 3, 4, 1, 0)}
=============================================================================
