------------------------- MODULE TransactionTracker -------------------------
(***************************************************************************)
(* Replay protection: the transaction tracker keeps the status of every    *)
(* committed intent until it has expired, in a ring of partitions that     *)
(* each cover a fixed number of expiry epochs.  System::init rejects a     *)
(* transaction with an intent found in the ring;                           *)
(* update_transaction_tracker records the intents of a commit and drops    *)
(* the oldest partition once all of it has expired.                        *)
(*                                                                         *)
(* One action is one transaction: validation, execution and commit are not *)
(* interleaved with other transactions.  Simulated intents (previews) are  *)
(* left out, as nothing of a preview is committed.                         *)
(***************************************************************************)
EXTENDS Naturals, FiniteSets

CONSTANTS
    Transactions,        \* transaction intents
    Subintents,          \* subintents, which any transaction may include
    First, Last,         \* partition_range_start_inclusive, partition_range_end_inclusive
    EpochsPerPartition,  \* epochs_per_partition
    MaxEpochRange,       \* max_epoch_range of the transaction validation
    MaxEpoch             \* bound on the epochs explored

ASSUME TrackerAssumption ==
    /\ Transactions \cap Subintents = {}
    /\ First \in Nat /\ Last \in Nat /\ First < Last
    /\ EpochsPerPartition \in Nat \ {0}
    /\ MaxEpochRange \in Nat \ {0}
    /\ MaxEpoch \in Nat

Intents == Transactions \cup Subintents
Partitions == First..Last
NumPartitions == Last - First + 1

\* what the test calculate_coverage asserts of the parameters
ASSUME CoverageAssumption == EpochsPerPartition * (Last - First) >= MaxEpochRange

VARIABLES
    header,         \* the epoch range of each intent
    epoch,          \* the epoch of the consensus manager
    startEpoch,     \* start_epoch
    startPartition, \* start_partition
    tracker,        \* the intents each partition holds
    committed,      \* history: commits of each transaction intent
    applied         \* history: successful commits of each intent

vars == <<header, epoch, startEpoch, startPartition, tracker, committed, applied>>

\* the epoch checks of the header validation
ValidHeader(h) == h.start < h.end /\ h.end <= h.start + MaxEpochRange

\* TransactionTrackerBlueprint::create, at genesis
Init ==
    /\ header \in [Intents -> {h \in [start : 0..MaxEpoch, end : 1..(MaxEpoch + MaxEpochRange + 1)] :
                                    ValidHeader(h)}]
    /\ epoch = 0
    /\ startEpoch = 0
    /\ startPartition = First
    /\ tracker = [p \in Partitions |-> {}]
    /\ committed = [i \in Transactions |-> 0]
    /\ applied = [i \in Intents |-> 0]

\* partition_for_expiry_epoch returns a partition
Covers(e) == startEpoch <= e /\ e < startEpoch + NumPartitions * EpochsPerPartition

\* partition_for_expiry_epoch for an epoch the ring covers
PartitionForExpiryEpoch(e) ==
    LET n == startPartition + (e - startEpoch) \div EpochsPerPartition
    IN  IF n > Last THEN n - NumPartitions ELSE n

\* validate_epoch_range on the intersection of the epoch ranges of the intents
InEpochRange(I) == \A i \in I : header[i].start <= epoch /\ epoch < header[i].end

\* broken variant: subintents are not looked up
PreviouslyCommitted_TransactionsOnly(I) ==
    \E i \in I \cap Transactions : i \in tracker[PartitionForExpiryEpoch(header[i].end)]

\* validate_intent_hash_uncosted finds one of the intents
PreviouslyCommitted(I) ==
    \E i \in I : i \in tracker[PartitionForExpiryEpoch(header[i].end)]

\* Nullification::of_intent: subintents are only nullified by a success
Nullified(I, success) == IF success THEN I ELSE I \cap Transactions

Record(I) ==
    [p \in Partitions |-> tracker[p] \cup {i \in I : PartitionForExpiryEpoch(header[i].end) = p}]

\* broken variant: a partition is dropped while its last epoch is still running
Expired_Early(nextEpoch) == nextEpoch + 1 >= startEpoch + EpochsPerPartition

\* every intent of the first partition has expired
Expired(nextEpoch) == nextEpoch >= startEpoch + EpochsPerPartition

NextPartition == IF startPartition = Last THEN First ELSE startPartition + 1

\* advance, and the deletion of the partition it returns
Advance(contents) ==
    /\ startEpoch' = startEpoch + EpochsPerPartition
    /\ startPartition' = NextPartition
    /\ tracker' = [contents EXCEPT ![startPartition] = {}]

\* update_transaction_tracker at the end of a commit that leaves the ledger in nextEpoch
UpdateTransactionTracker(nextEpoch, I) ==
    IF Expired(nextEpoch)
    THEN Advance(Record(I))
    ELSE tracker' = Record(I) /\ UNCHANGED <<startEpoch, startPartition>>

\* a transaction with subintents S passes the checks of System::init and is committed,
\* as a success or as a failure
Commit(t, S, success) ==
    LET I == {t} \cup S IN
    /\ InEpochRange(I)
    /\ ~PreviouslyCommitted(I)
    /\ UpdateTransactionTracker(epoch, Nullified(I, success))
    /\ committed' = [committed EXCEPT ![t] = @ + 1]
    /\ applied' = [i \in Intents |-> IF success /\ i \in I THEN applied[i] + 1 ELSE applied[i]]
    /\ UNCHANGED <<header, epoch>>

\* the round update that ends an epoch, a transaction without intents
NextEpoch ==
    /\ epoch < MaxEpoch
    /\ epoch' = epoch + 1
    /\ UpdateTransactionTracker(epoch + 1, {})
    /\ UNCHANGED <<header, committed, applied>>

Next ==
    \/ \E t \in Transactions, S \in SUBSET Subintents, success \in BOOLEAN : Commit(t, S, success)
    \/ NextEpoch

Spec == Init /\ [][Next]_vars

-----------------------------------------------------------------------------
(***************************************************************************)
(* Properties                                                              *)
(***************************************************************************)

\* The type of the tracker: in particular the ring stays in its partition range.
TypeOK ==
    /\ header \in [Intents -> [start : Nat, end : Nat]]
    /\ epoch \in Nat /\ startEpoch \in Nat
    /\ startPartition \in Partitions
    /\ tracker \in [Partitions -> SUBSET Intents]
    /\ committed \in [Transactions -> Nat]
    /\ applied \in [Intents -> Nat]

\* No intent is replayed, however far the ring has turned: a transaction intent is
\* committed once, as a success or as a failure, and a subintent succeeds once.
NoReplay ==
    /\ \A t \in Transactions : committed[t] <= 1
    /\ \A i \in Intents : applied[i] <= 1

\* The ring is where it has to be: the current epoch is in its first partition, an
\* intent that passes the epoch check expires in an epoch it covers (the two expects on
\* partition_for_expiry_epoch), and it holds nothing but intents it can still find, so a
\* partition that is reused for later epochs was emptied before.
RingIsSound ==
    /\ TypeOK
    /\ startEpoch <= epoch /\ epoch < startEpoch + EpochsPerPartition
    /\ \A i \in Intents : InEpochRange({i}) => Covers(header[i].end)
    /\ \A p \in Partitions : \A i \in tracker[p] :
           Covers(header[i].end) /\ PartitionForExpiryEpoch(header[i].end) = p
=============================================================================
