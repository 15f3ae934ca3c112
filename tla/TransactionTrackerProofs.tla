---------------------- MODULE TransactionTrackerProofs ----------------------
(***************************************************************************)
(* Proofs about TransactionTracker, for every number of intents, every     *)
(* partition range, partition length and validity range for which the ring *)
(* is large enough (CoverageAssumption).                                   *)
(***************************************************************************)
EXTENDS TransactionTracker, TLAPS

(***************************************************************************)
(* The inductive invariant.                                                *)
(***************************************************************************)

\* Intent i cannot be used again: a look-up finds it, or its expiry epoch has left the ring.
Spent(i) ==
    \/ header[i].end < startEpoch
    \/ Covers(header[i].end) /\ i \in tracker[PartitionForExpiryEpoch(header[i].end)]

HeadersValid == \A i \in Intents : ValidHeader(header[i])

CommittedOnce == \A t \in Transactions : committed[t] = 0 \/ (committed[t] = 1 /\ Spent(t))

AppliedOnce == \A i \in Intents : applied[i] = 0 \/ (applied[i] = 1 /\ Spent(i))

IInv == RingIsSound /\ HeadersValid /\ CommittedOnce /\ AppliedOnce

-----------------------------------------------------------------------------
(***************************************************************************)
(* Arithmetic of the ring.                                                 *)
(***************************************************************************)

\* The quotient of a division with remainder.
LEMMA DivRange ==
    ASSUME NEW d \in Nat, NEW c \in Nat \ {0}
    PROVE  d \div c \in Nat /\ c * (d \div c) <= d /\ d < c * (d \div c) + c
    BY Z3

\* A distance below n times c has a quotient below n.
LEMMA DivLess ==
    ASSUME NEW d \in Nat, NEW c \in Nat \ {0}, NEW n \in Nat, d < c * n
    PROVE  d \div c < n
    BY DivRange, Z3

\* Moving the origin by c lowers the quotient by one.
LEMMA DivStep ==
    ASSUME NEW d \in Nat, NEW c \in Nat \ {0}, d >= c
    PROVE  (d - c) \div c = (d \div c) - 1 /\ d \div c >= 1
    BY DivRange, Z3

\* The distances with quotient 0 are the ones below c.
LEMMA DivZero ==
    ASSUME NEW d \in Nat, NEW c \in Nat \ {0}
    PROVE  d \div c = 0 <=> d < c
    BY DivRange, Z3

\* What the constants and the type invariant say of the ring's numbers.
LEMMA RingNumbers ==
    ASSUME TypeOK
    PROVE  /\ First \in Nat /\ Last \in Nat /\ First < Last
           /\ EpochsPerPartition \in Nat \ {0} /\ MaxEpochRange \in Nat
           /\ startEpoch \in Nat /\ epoch \in Nat /\ startPartition \in First..Last
           /\ NumPartitions \in Nat /\ NumPartitions = Last - First + 1
           /\ NumPartitions * EpochsPerPartition \in Nat
           /\ MaxEpochRange + EpochsPerPartition <= NumPartitions * EpochsPerPartition
<1>1. /\ First \in Nat /\ Last \in Nat /\ First < Last
      /\ EpochsPerPartition \in Nat \ {0} /\ MaxEpochRange \in Nat
      /\ startEpoch \in Nat /\ epoch \in Nat /\ startPartition \in First..Last
    BY TrackerAssumption DEF TypeOK, Partitions
<1>2. NumPartitions \in Nat /\ NumPartitions = Last - First + 1
    BY <1>1 DEF NumPartitions
<1>3. MaxEpochRange + EpochsPerPartition <= NumPartitions * EpochsPerPartition
    BY <1>1, <1>2, CoverageAssumption, Z3
<1> QED
    BY <1>1, <1>2, <1>3

\* partition_for_expiry_epoch returns a partition of the ring for every epoch it covers,
\* and the first one exactly for the epochs that the next advance drops.
LEMMA PartitionInRing ==
    ASSUME TypeOK, NEW e \in Nat, Covers(e)
    PROVE  /\ PartitionForExpiryEpoch(e) \in Partitions
           /\ PartitionForExpiryEpoch(e) = startPartition <=> e < startEpoch + EpochsPerPartition
<1> DEFINE q == (e - startEpoch) \div EpochsPerPartition
<1>1. e - startEpoch \in Nat /\ e - startEpoch < EpochsPerPartition * NumPartitions
    BY RingNumbers DEF Covers
<1>2. q \in Nat /\ q < NumPartitions
    BY <1>1, RingNumbers, DivRange, DivLess
<1>3. q = 0 <=> e - startEpoch < EpochsPerPartition
    BY <1>1, RingNumbers, DivZero
<1> HIDE DEF q
<1>4. PartitionForExpiryEpoch(e)
        = IF startPartition + q > Last THEN startPartition + q - NumPartitions
          ELSE startPartition + q
    BY <1>2, RingNumbers DEF PartitionForExpiryEpoch, q
<1> QED
    BY <1>2, <1>3, <1>4, RingNumbers DEF Partitions

\* advance keeps the partition of every expiry epoch that stays in the ring.
LEMMA PartitionKept ==
    ASSUME TypeOK, NEW e \in Nat, Covers(e), e >= startEpoch + EpochsPerPartition,
           startEpoch' = startEpoch + EpochsPerPartition, startPartition' = NextPartition
    PROVE  Covers(e)' /\ PartitionForExpiryEpoch(e)' = PartitionForExpiryEpoch(e)
<1> DEFINE q == (e - startEpoch) \div EpochsPerPartition
<1>1. /\ e - startEpoch \in Nat /\ e - startEpoch >= EpochsPerPartition
      /\ e - startEpoch < EpochsPerPartition * NumPartitions
    BY RingNumbers DEF Covers
<1>2. q \in Nat /\ q < NumPartitions
    BY <1>1, RingNumbers, DivRange, DivLess
<1>3. (e - startEpoch') \div EpochsPerPartition = q - 1 /\ q >= 1
    <2>1. e - startEpoch' = (e - startEpoch) - EpochsPerPartition
        BY RingNumbers
    <2> QED
        BY <1>1, <2>1, RingNumbers, DivStep
<1>4. PartitionForExpiryEpoch(e)
        = IF startPartition + q > Last THEN startPartition + q - NumPartitions
          ELSE startPartition + q
    BY <1>2, RingNumbers DEF PartitionForExpiryEpoch
<1> HIDE DEF q
<1>5. startPartition' \in Nat
    BY RingNumbers DEF NextPartition
<1>6. PartitionForExpiryEpoch(e)'
        = IF startPartition' + (q - 1) > Last THEN startPartition' + (q - 1) - NumPartitions
          ELSE startPartition' + (q - 1)
    BY <1>2, <1>3, <1>5, RingNumbers DEF PartitionForExpiryEpoch, NumPartitions
<1>7. PartitionForExpiryEpoch(e)' = PartitionForExpiryEpoch(e)
    BY <1>2, <1>3, <1>4, <1>6, RingNumbers DEF NextPartition
<1>8. Covers(e)'
    BY RingNumbers DEF Covers, NumPartitions
<1> QED
    BY <1>7, <1>8

-----------------------------------------------------------------------------
(***************************************************************************)
(* The invariant is inductive.                                             *)
(***************************************************************************)

\* An intent that passes the epoch check expires in an epoch that the ring covers.
LEMMA InRangeIsCovered ==
    ASSUME TypeOK, HeadersValid, startEpoch <= epoch, epoch < startEpoch + EpochsPerPartition,
           NEW i \in Intents, InEpochRange({i})
    PROVE  Covers(header[i].end)
<1>1. header[i].start \in Nat /\ header[i].end \in Nat
    BY DEF TypeOK
<1>2. header[i].start <= epoch /\ epoch < header[i].end
    BY DEF InEpochRange
<1>3. header[i].end <= header[i].start + MaxEpochRange
    BY DEF HeadersValid, ValidHeader
<1> QED
    BY <1>1, <1>2, <1>3, RingNumbers DEF Covers

\* The invariant holds at genesis.
LEMMA InitIInv == Init => IInv
<1> SUFFICES ASSUME Init PROVE IInv
    OBVIOUS
<1>1. TypeOK
    <2>1. header \in [Intents -> [start : Nat, end : Nat]]
        BY TrackerAssumption DEF Init
    <2>2. startPartition \in Partitions
        BY TrackerAssumption DEF Init, Partitions
    <2> QED
        BY <2>1, <2>2 DEF Init, TypeOK
<1>2. HeadersValid
    BY DEF Init, HeadersValid
<1>3. startEpoch <= epoch /\ epoch < startEpoch + EpochsPerPartition
    BY TrackerAssumption DEF Init
<1>4. \A i \in Intents : InEpochRange({i}) => Covers(header[i].end)
    BY <1>1, <1>2, <1>3, InRangeIsCovered
<1>5. RingIsSound
    BY <1>1, <1>3, <1>4 DEF RingIsSound, Init
<1>6. CommittedOnce /\ AppliedOnce
    BY DEF Init, CommittedOnce, AppliedOnce
<1> QED
    BY <1>2, <1>5, <1>6 DEF IInv

\* Recording covered intents keeps every recorded intent where a look-up finds it.
LEMMA RecordKeeps ==
    ASSUME IInv, NEW I \in SUBSET Intents, \A i \in I : Covers(header[i].end),
           tracker' = Record(I), UNCHANGED <<header, startEpoch, startPartition>>
    PROVE  /\ tracker' \in [Partitions -> SUBSET Intents]
           /\ \A p \in Partitions : \A i \in tracker'[p] :
                  Covers(header[i].end)' /\ PartitionForExpiryEpoch(header[i].end)' = p
           /\ \A i \in Intents : Spent(i) \/ i \in I => Spent(i)'
<1> USE DEF IInv, RingIsSound, TypeOK
<1>1. \A i \in Intents : /\ Covers(header[i].end)' = Covers(header[i].end)
                         /\ PartitionForExpiryEpoch(header[i].end)'
                                = PartitionForExpiryEpoch(header[i].end)
    BY DEF Covers, PartitionForExpiryEpoch, NumPartitions
<1>2. tracker' \in [Partitions -> SUBSET Intents]
    BY DEF Record
<1>3. ASSUME NEW p \in Partitions, NEW i \in tracker'[p]
      PROVE  Covers(header[i].end)' /\ PartitionForExpiryEpoch(header[i].end)' = p
    <2>1. i \in Intents
        BY <1>2
    <2>2. i \in tracker[p] \/ (i \in I /\ PartitionForExpiryEpoch(header[i].end) = p)
        BY DEF Record
    <2>3. Covers(header[i].end) /\ PartitionForExpiryEpoch(header[i].end) = p
        BY <2>2
    <2> QED
        BY <1>1, <2>1, <2>3
<1>4. ASSUME NEW i \in Intents, Spent(i) \/ i \in I
      PROVE  Spent(i)'
    <2>1. CASE header[i].end < startEpoch
        BY <2>1 DEF Spent
    <2>2. CASE Covers(header[i].end)
        <3>1. PartitionForExpiryEpoch(header[i].end) \in Partitions
            BY <2>2, PartitionInRing
        <3>2. i \in I \/ i \in tracker[PartitionForExpiryEpoch(header[i].end)]
            BY <1>4, <2>2, RingNumbers DEF Spent, Covers
        <3>3. i \in tracker'[PartitionForExpiryEpoch(header[i].end)]
            BY <3>1, <3>2 DEF Record
        <3> QED
            BY <1>1, <2>2, <3>3 DEF Spent
    <2> QED
        BY <1>4, <2>1, <2>2 DEF Spent
<1> QED
    BY <1>2, <1>3, <1>4

\* Advancing the ring drops only intents whose expiry epoch leaves it, and keeps the others
\* where a look-up finds them.
LEMMA AdvanceKeeps ==
    ASSUME IInv, Advance(tracker), header' = header
    PROVE  /\ startPartition' \in Partitions
           /\ tracker' \in [Partitions -> SUBSET Intents]
           /\ \A p \in Partitions : \A i \in tracker'[p] :
                  Covers(header[i].end)' /\ PartitionForExpiryEpoch(header[i].end)' = p
           /\ \A i \in Intents : Spent(i) => Spent(i)'
<1> USE DEF IInv, RingIsSound, TypeOK
<1>1. startPartition' \in Partitions
    BY TrackerAssumption DEF Advance, NextPartition, Partitions
<1>2. tracker' \in [Partitions -> SUBSET Intents]
    BY DEF Advance
<1>3. ASSUME NEW i \in Intents, Covers(header[i].end),
             header[i].end >= startEpoch + EpochsPerPartition
      PROVE  /\ Covers(header[i].end)'
             /\ PartitionForExpiryEpoch(header[i].end)' = PartitionForExpiryEpoch(header[i].end)
    BY <1>3, PartitionKept DEF Advance
<1>4. ASSUME NEW p \in Partitions, NEW i \in tracker'[p]
      PROVE  Covers(header[i].end)' /\ PartitionForExpiryEpoch(header[i].end)' = p
    <2>1. i \in tracker[p] /\ p # startPartition
        BY DEF Advance
    <2>2. i \in Intents /\ Covers(header[i].end) /\ PartitionForExpiryEpoch(header[i].end) = p
        BY <2>1
    <2>3. header[i].end >= startEpoch + EpochsPerPartition
        BY <2>1, <2>2, PartitionInRing, RingNumbers
    <2> QED
        BY <1>3, <2>2, <2>3
<1>5. ASSUME NEW i \in Intents, Spent(i)
      PROVE  Spent(i)'
    <2>1. CASE header[i].end < startEpoch + EpochsPerPartition
        BY <2>1 DEF Spent, Advance
    <2>2. CASE header[i].end >= startEpoch + EpochsPerPartition
        <3>1. Covers(header[i].end) /\ i \in tracker[PartitionForExpiryEpoch(header[i].end)]
            BY <1>5, <2>2, RingNumbers DEF Spent
        <3>2. PartitionForExpiryEpoch(header[i].end) \in Partitions \ {startPartition}
            BY <2>2, <3>1, PartitionInRing, RingNumbers
        <3>3. i \in tracker'[PartitionForExpiryEpoch(header[i].end)]
            BY <3>1, <3>2 DEF Advance
        <3> QED
            BY <1>3, <2>2, <3>1, <3>3 DEF Spent
    <2> QED
        BY <2>1, <2>2, RingNumbers
<1> QED
    BY <1>1, <1>2, <1>4, <1>5

\* Every step keeps the invariant.
LEMMA NextIInv == IInv /\ [Next]_vars => IInv'
<1> SUFFICES ASSUME IInv, [Next]_vars PROVE IInv'
    OBVIOUS
<1> USE DEF IInv, RingIsSound
<1>1. ASSUME NEW t \in Transactions, NEW S \in SUBSET Subintents, NEW success \in BOOLEAN,
             Commit(t, S, success)
      PROVE  IInv'
    <2> DEFINE I == {t} \cup S
               N == Nullified(I, success)
    <2>1. /\ InEpochRange(I) /\ ~PreviouslyCommitted(I)
          /\ UpdateTransactionTracker(epoch, N)
          /\ committed' = [committed EXCEPT ![t] = @ + 1]
          /\ applied' = [i \in Intents |-> IF success /\ i \in I THEN applied[i] + 1 ELSE applied[i]]
          /\ header' = header /\ epoch' = epoch
        BY <1>1 DEF Commit
    <2>2. I \subseteq Intents /\ N \subseteq I /\ t \in N /\ (success => N = I)
        BY DEF Nullified, Intents
    <2>3. \A i \in I : InEpochRange({i}) /\ Covers(header[i].end)
        BY <2>1, <2>2, InRangeIsCovered DEF InEpochRange
    <2>4. \A i \in I : ~Spent(i)
        <3> SUFFICES ASSUME NEW i \in I, Spent(i) PROVE FALSE
            OBVIOUS
        <3>1. epoch < header[i].end /\ header[i].end \in Nat
            BY <2>1, <2>2 DEF InEpochRange, TypeOK
        <3>2. i \in tracker[PartitionForExpiryEpoch(header[i].end)]
            BY <3>1, RingNumbers DEF Spent
        <3> QED
            BY <2>1, <3>2 DEF PreviouslyCommitted
    <2> HIDE DEF N, I
    <2>5. tracker' = Record(N) /\ UNCHANGED <<startEpoch, startPartition>>
        BY <2>1, RingNumbers DEF UpdateTransactionTracker, Expired
    <2>6. /\ tracker' \in [Partitions -> SUBSET Intents]
          /\ \A p \in Partitions : \A i \in tracker'[p] :
                 Covers(header[i].end)' /\ PartitionForExpiryEpoch(header[i].end)' = p
          /\ \A i \in Intents : Spent(i) \/ i \in N => Spent(i)'
        BY <2>1, <2>2, <2>3, <2>5, RecordKeeps
    <2>7. TypeOK'
        BY <2>1, <2>5, <2>6 DEF TypeOK
    <2>8. HeadersValid'
        BY <2>1 DEF HeadersValid, ValidHeader
    <2>9. (startEpoch <= epoch /\ epoch < startEpoch + EpochsPerPartition)'
        BY <2>1, <2>5
    <2>10. \A i \in Intents : InEpochRange({i})' => Covers(header[i].end)'
        BY <2>1, <2>5 DEF InEpochRange, Covers, NumPartitions
    <2>11. CommittedOnce'
        <3> SUFFICES ASSUME NEW u \in Transactions
                     PROVE  committed'[u] = 0 \/ (committed'[u] = 1 /\ Spent(u)')
            BY DEF CommittedOnce
        <3>1. CASE u = t
            BY <2>1, <2>2, <2>4, <2>6, <3>1 DEF CommittedOnce, TypeOK
        <3>2. CASE u # t
            BY <2>1, <2>6, <3>2 DEF CommittedOnce, TypeOK, Intents
        <3> QED
            BY <3>1, <3>2
    <2>12. AppliedOnce'
        <3> SUFFICES ASSUME NEW i \in Intents
                     PROVE  applied'[i] = 0 \/ (applied'[i] = 1 /\ Spent(i)')
            BY DEF AppliedOnce
        <3>1. CASE success /\ i \in I
            BY <2>1, <2>2, <2>4, <2>6, <3>1 DEF AppliedOnce
        <3>2. CASE ~(success /\ i \in I)
            BY <2>1, <2>6, <3>2 DEF AppliedOnce
        <3> QED
            BY <3>1, <3>2
    <2> QED
        BY <2>6, <2>7, <2>8, <2>9, <2>10, <2>11, <2>12, <2>1
<1>2. CASE NextEpoch
    <2>1. /\ epoch' = epoch + 1 /\ UpdateTransactionTracker(epoch + 1, {})
          /\ header' = header /\ committed' = committed /\ applied' = applied
        BY <1>2 DEF NextEpoch
    <2>2. Record({}) = tracker
        BY DEF Record, TypeOK
    <2>3. /\ startPartition' \in Partitions
          /\ tracker' \in [Partitions -> SUBSET Intents]
          /\ \A p \in Partitions : \A i \in tracker'[p] :
                 Covers(header[i].end)' /\ PartitionForExpiryEpoch(header[i].end)' = p
          /\ \A i \in Intents : Spent(i) => Spent(i)'
        <3>1. CASE Expired(epoch + 1)
            BY <2>1, <2>2, <3>1, AdvanceKeeps DEF UpdateTransactionTracker
        <3>2. CASE ~Expired(epoch + 1)
            <4>1. tracker' = Record({}) /\ UNCHANGED <<startEpoch, startPartition>>
                BY <2>1, <3>2 DEF UpdateTransactionTracker
            <4> QED
                BY <2>1, <4>1, RecordKeeps DEF TypeOK
        <3> QED
            BY <3>1, <3>2
    <2>4. /\ startEpoch' \in Nat
          /\ startEpoch' <= epoch' /\ epoch' < startEpoch' + EpochsPerPartition
        BY <2>1, RingNumbers DEF UpdateTransactionTracker, Expired, Advance
    <2>5. TypeOK'
        BY <2>1, <2>3, <2>4 DEF TypeOK
    <2>6. HeadersValid'
        BY <2>1 DEF HeadersValid, ValidHeader
    <2>7. \A i \in Intents : InEpochRange({i})' => Covers(header[i].end)'
        <3>1. TypeOK' /\ HeadersValid' /\ startEpoch' <= epoch' /\ epoch' < startEpoch' + EpochsPerPartition
            BY <2>4, <2>5, <2>6
        <3> SUFFICES ASSUME NEW i \in Intents, InEpochRange({i})'
                     PROVE  Covers(header[i].end)'
            OBVIOUS
        <3> QED
            BY <3>1, RingNumbers DEF InEpochRange, Covers, TypeOK, HeadersValid, ValidHeader, NumPartitions
    <2>8. CommittedOnce' /\ AppliedOnce'
        BY <2>1, <2>3 DEF CommittedOnce, AppliedOnce, Intents
    <2> QED
        BY <2>3, <2>4, <2>5, <2>6, <2>7, <2>8, <2>1
<1>3. CASE UNCHANGED vars
    BY <1>3 DEF vars, TypeOK, HeadersValid, ValidHeader, CommittedOnce, AppliedOnce, Spent,
                InEpochRange, Covers, PartitionForExpiryEpoch, NumPartitions
<1> QED
    BY <1>1, <1>2, <1>3 DEF Next

\* Everything the tracker does keeps the invariant.
LEMMA SpecIInv == Spec => []IInv
    BY InitIInv, NextIInv, PTL DEF Spec

-----------------------------------------------------------------------------
(***************************************************************************)
(* Theorems                                                                *)
(***************************************************************************)

\* The ring is where it has to be, for every partition range and partition length that
\* cover the epoch range: the two expects on partition_for_expiry_epoch never fail, and
\* a partition that is reused was emptied before.
THEOREM RingSafe == Spec => []RingIsSound
<1>1. IInv => RingIsSound
    BY DEF IInv
<1> QED
    BY <1>1, SpecIInv, PTL

\* No intent is replayed: each transaction intent is committed once and each subintent
\* succeeds once, however far the ring has turned since its partition was dropped.
THEOREM NeverReplayed == Spec => []NoReplay
<1>1. IInv => NoReplay
    BY DEF IInv, CommittedOnce, AppliedOnce, NoReplay
<1> QED
    BY <1>1, SpecIInv, PTL
=============================================================================
