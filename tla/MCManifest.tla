----------------------------- MODULE MCManifest -----------------------------
(* Manifest on small accounts: two units of a fungible, two non-fungibles, *)
(* or one of each, so that proofs overlap, contents are split and the two  *)
(* kinds meet in one auth zone.                                            *)
EXTENDS Manifest

CONSTANTS rork, nft, n1, n2

Holds(units, ids) == (rork :> units) @@ (nft :> ids)
MCAccounts == {Holds(2, {}), Holds(0, {n1, n2}), Holds(1, {n1}), Holds(1, {n2})}

(* MCAccounts is closed under renaming the ids. *)
Symmetry == Permutations(Ids)
=============================================================================
