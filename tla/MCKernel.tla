------------------------------ MODULE MCKernel ------------------------------
(* Small instances of Kernel for TLC. *)
EXTENDS Kernel, TLC

CONSTANTS component, account, vault1, bucket1, proof1, proof2, object, inner, kvstore

Val(owns, refs) == [owns |-> owns, refs |-> refs]

\* a node in another one, a proof on a vault or bucket, a reference to a global node
Contents ==
  {NoValue, Val({vault1}, {}), Val({object}, {}), Val({bucket1}, {}), Val({kvstore}, {}),
   Val({}, {vault1}), Val({}, {bucket1}), Val({}, {account})}

Transaction(stored, directs, allocates, intents) ==
  [stored |-> stored, directs |-> directs, allocates |-> allocates, intents |-> intents]

NothingStored == [x \in {} |-> NoValue]

\* a stored global node with a vault
AccountStored ==
  [x \in {account, vault1} |-> IF x = account THEN Val({vault1}, {}) ELSE NoValue]

\* A vault that goes into a component, directly or in an object, with two proofs on it; two
\* intents that pass each other a bucket, an object that may hold it and a proof on it; two
\* intents that share a stored account, one of its inner objects, a key value store and
\* direct access to its vault; and proofs on the vault of a stored account.
SomeTransactions ==
  {Transaction(NothingStored, {}, {component, object, vault1, proof1, proof2}, {1}),
   Transaction(NothingStored, {}, {component, object, bucket1, proof1}, {1, 2}),
   Transaction(AccountStored, {vault1}, {inner, kvstore}, {1, 2}),
   Transaction(AccountStored, {}, {object, proof1, proof2}, {1})}

OuterOfInner == [x \in {inner} |-> account]

\* proofs are interchangeable
ProofSymmetry == Permutations(Proofs)

=============================================================================
