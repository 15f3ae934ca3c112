----------------------------- MODULE MCIntents -----------------------------
(* All relations of a root and three subintents, one hash that is not part *)
(* of the transaction included, with at most two children per intent.      *)
EXTENDS Intents

Valid(s, e, f, t) == [network |-> "main", start |-> s, end |-> e, from |-> f, to |-> t]
(* Overlapping and disjoint ranges; then one that is empty by itself, one  *)
(* that is too long and one for another network.                           *)
MCHeaders == {Valid(1, 3, <<1>>, <<>>), Valid(0, 1, <<>>, <<1>>), Valid(0, 2, <<0>>, <<2>>),
              Valid(1, 3, <<>>, <<>>), Valid(2, 2, <<>>, <<>>), Valid(0, 3, <<>>, <<>>),
              [Valid(0, 2, <<>>, <<>>) EXCEPT !.network = "test"]}
=============================================================================
