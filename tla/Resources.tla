----------------------------- MODULE Resources -----------------------------
(***************************************************************************)
(* What buckets and vaults hold, and how proofs lock it.                   *)
(*                                                                         *)
(* A container is [resource, liquid, locked].  For a fungible resource the *)
(* liquid part is an amount and locked counts, for every amount, the       *)
(* proofs of that amount; the locked part is the LARGEST amount with a     *)
(* proof, since proofs of one container overlap.  For a non-fungible       *)
(* resource the liquid part is a set of ids and locked counts the proofs   *)
(* on every id.  The two kinds run the same way, so each operator is       *)
(* defined for both.  Amounts count the smallest unit of the resource.     *)
(***************************************************************************)
EXTENDS Naturals, FiniteSets, FiniteSetsExt, Sequences, SequencesExt

CONSTANTS Fungibles,      \* fungible resources
          NonFungibles,   \* non-fungible resources
          MaxUnits,       \* the largest amount of a fungible resource
          Ids             \* local ids of non-fungibles

ASSUME ResourceAssumption ==
  /\ Fungibles \cap NonFungibles = {}
  /\ MaxUnits \in Nat \ {0}

Resource == Fungibles \cup NonFungibles

(* Contents of a resource and their arithmetic. *)
Contents(r) == IF r \in Fungibles THEN 0 .. MaxUnits ELSE SUBSET Ids
Nothing(r) == IF r \in Fungibles THEN 0 ELSE {}
Join(r, x, y) == IF r \in Fungibles THEN x + y ELSE x \cup y
Without(r, x, y) == IF r \in Fungibles THEN x - y ELSE x \ y
Covers(r, x, y) == IF r \in Fungibles THEN y <= x ELSE y \subseteq x

-----------------------------------------------------------------------------
LockKeys(r) == IF r \in Fungibles THEN 1 .. MaxUnits ELSE Ids

NewContainer(r, x) ==
  [resource |-> r, liquid |-> x, locked |-> [k \in LockKeys(r) |-> 0]]

LockedKeys(c) == {k \in DOMAIN c.locked : c.locked[k] > 0}
IsLocked(c) == LockedKeys(c) # {}
LockedPart(c) ==
  IF c.resource \in Fungibles THEN Max(LockedKeys(c) \cup {0}) ELSE LockedKeys(c)

(* get_amount, get_non_fungible_local_ids: the locked part still counts. *)
Holding(c) == Join(c.resource, c.liquid, LockedPart(c))

(* internal_take and internal_put work on the liquid part only. *)
CanTake(c, x) == Covers(c.resource, c.liquid, x)
Take(c, x) == [c EXCEPT !.liquid = Without(c.resource, @, x)]
Put(c, x) == [c EXCEPT !.liquid = Join(c.resource, @, x)]

(* Which of the lock counts a proof of x concerns. *)
KeysOf(r, x) == IF r \in Fungibles THEN {x} \ {0} ELSE x

(* Mutant: a second proof locks its amount again. *)
LockDelta_Whole(c, x) == x
(* lock_amount and lock_non_fungibles: only what is not locked yet leaves  *)
(* the liquid part.                                                        *)
LockDelta(c, x) ==
  IF c.resource \in Fungibles
  THEN IF x > LockedPart(c) THEN x - LockedPart(c) ELSE 0
  ELSE x \ LockedPart(c)
CanLock(c, x) == CanTake(c, LockDelta(c, x))
Lock(c, x) ==
  [Take(c, LockDelta(c, x)) EXCEPT
     !.locked = [k \in DOMAIN @ |-> IF k \in KeysOf(c.resource, x) THEN @[k] + 1 ELSE @[k]]]

(* unlock_amount and unlock_non_fungibles, n[k] calls for the key k: what   *)
(* no proof locks any more becomes liquid.                                 *)
UnlockCounts(c, n) ==
  LET rest == [c EXCEPT !.locked = [k \in DOMAIN @ |-> @[k] - n[k]]]
  IN Put(rest, Without(c.resource, LockedPart(c), LockedPart(rest)))

-----------------------------------------------------------------------------
(* A proof is [resource, total, evidence]; its evidence lists containers   *)
(* and what of each is locked for it, in the order they were inserted.     *)
Proof(r, x, evidence) == [resource |-> r, total |-> x, evidence |-> evidence]
Evidence(c, x) == [container |-> c, part |-> x]

(* One call per piece of evidence, as in clone_proof. *)
EvidenceOn(p, c) == SelectSeq(p.evidence, LAMBDA e : e.container = c)
CanLockAll(cs, p) ==
  \A i \in DOMAIN p.evidence :
    LET e == p.evidence[i] IN e.container \in DOMAIN cs /\ CanLock(cs[e.container], e.part)
LockAll(cs, p) ==
  [c \in DOMAIN cs |-> IF EvidenceOn(p, c) = <<>> THEN cs[c]
                       ELSE Lock(cs[c], EvidenceOn(p, c)[1].part)]
=============================================================================
