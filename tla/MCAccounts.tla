----------------------------- MODULE MCAccounts -----------------------------
(* One fungible unit and two non-fungibles, an account whose settings      *)
(* change and one that keeps the defaults.                                 *)
EXTENDS Accounts, TLC

(* Non-fungibles only, or by a badge nobody has.  A change then authorises *)
(* another badge or the locker, or makes the rule AllowExisting.           *)
MCInitialSettings ==
  {[rule |-> "Reject", depositors |-> {"lost"},
    preference |-> [r \in Resource |-> IF r \in NonFungibles THEN "Allowed" ELSE "None"]]}
Symmetry == Permutations(Ids)
=============================================================================
