-------------------------- MODULE FeePaymentProofs --------------------------
(***************************************************************************)
(* Proofs about FeeReserve: what a transaction pays, what a failure leaves *)
(* in the vaults, and that no RORK is lost or created, for any finite set  *)
(* of vaults.                                                              *)
(***************************************************************************)
EXTENDS FeeReserveProofs, SumProofs

\* The leaves that need arithmetic or sequences name the backend they need.
USE Zenon

(***************************************************************************)
(* The invariant of the distribution, and of the sums over the vaults.     *)
(***************************************************************************)

\* Nothing is distributed before the result is known.
DistributionStarts ==
    /\ phase \notin {"paying", "done"} => royaltyPaid = 0 /\ collected = 0
    /\ phase # "done" => rewards = 0 /\ burnt = 0
    /\ phase = "done" /\ result \in {"Reject", "Abort"} =>
           royaltyPaid = 0 /\ rewards = 0 /\ burnt = 0
    /\ phase \notin {"paying", "done"} => \A v \in Vaults : payments[v] = 0

\* The fees that are still to be processed and the free credit cover what is required.
CostCovered ==
    phase = "paying" =>
        /\ collected + required = TotalCost
        /\ required <= freeCredit + SumUpTo(left)
        /\ royaltyPaid = royalty

\* What a failure has paid so far is missing in the vaults, with the fees that are still to
\* be processed.
FailurePays ==
    phase = "paying" /\ result = "CommitFailure" =>
        /\ \A i \in 1..left : /\ payments[locked[i].vault] = 0
                              /\ vault[locked[i].vault] = base[locked[i].vault] - locked[i].amount
        /\ \A v \in Vaults : (\A i \in 1..left : locked[i].vault # v) =>
                                 vault[v] = base[v] - payments[v]
        /\ \A i \in 1..Len(locked) : locked[i].contingent => payments[locked[i].vault] = 0

DistributionKnown ==
    DistributionStarts /\ CostCovered /\ FailurePays /\ FailureCostsOnlyFees

\* the first k locked fees
LockedSum(k) == SumFunctionOnSet([i \in 1..Len(locked) |-> locked[i].amount], 1..k)

\* the vaults that a failure leaves, before the refunds
Kept == [v \in Vaults |-> IF forced[v] = -1 THEN base[v] ELSE forced[v]]

BeingTaken == IF phase = "locking" THEN taking[1].amount ELSE 0

\* What is missing in the vaults is locked, being locked, or collected; what is missing in
\* the vaults that a failure leaves is locked.
VaultsAddUp ==
    phase \in {"booting", "executing", "locking", "closing", "executed"} =>
        SumOver(vault) + LockedSum(Len(locked)) + BeingTaken = SumOver(base)

KeptAddsUp == SumOver(Kept) + LockedSum(Len(locked)) = SumOver(base)

PaidAddsUp == phase = "paying" => SumOver(vault) + LockedSum(left) + collected = SumOver(base)

SumsKnown == VaultsAddUp /\ KeptAddsUp /\ PaidAddsUp /\ RorkConserved

PaymentsInv == DistributionKnown /\ SumsKnown

-----------------------------------------------------------------------------
\* The locked fees and the free credit cover the cost of a transaction without debt.
LEMMA CostPayable ==
    TypeOK /\ Books /\ owed = 0 => TotalCost \in Nat /\ TotalCost <= freeCredit + NonContingent
<1> SUFFICES ASSUME TypeOK, Books, owed = 0
             PROVE  TotalCost \in Nat /\ TotalCost <= freeCredit + NonContingent
    OBVIOUS
<1> DEFINE X == EffExec * execC
           Y == EffFin * finC
           N == NonContingent
<1>1. TotalCost = X + Y + storC + royalty /\ TotalCost \in Nat
    BY Shares
<1>2. balance + X + Y + storC + royalty = freeCredit + owed + N
    BY DEF Books
<1>3. /\ X \in Nat /\ Y \in Nat /\ N \in Nat
      /\ balance \in Nat /\ storC \in Nat /\ royalty \in Nat /\ freeCredit \in Nat
    BY BookTypes
<1> HIDE DEF X, Y, N
<1>4. X + Y + storC + royalty <= freeCredit + N
    BY <1>2, <1>3, SMT
<1> QED
    BY <1>1, <1>4 DEF N

\* The last entry of locked_fees carries the total of the unconditional fees.
LEMMA SumOfAll ==
    ASSUME TypeOK
    PROVE  SumUpTo(Len(locked)) = NonContingent
<1>1. locked \in Seq([vault : Vaults, amount : Nat, contingent : BOOLEAN, sum : Nat])
    BY DEF TypeOK
<1> QED
    BY <1>1, SMT DEF SumUpTo, NonContingent

\* Every step keeps what is known of the distribution.
LEMMA DistributionNext ==
    IInv /\ DistributionKnown /\ Next /\ TypeOK' /\ Books' /\ LoanKnown' => DistributionKnown'
<1> SUFFICES ASSUME IInv, DistributionKnown, Next, TypeOK', Books', LoanKnown'
             PROVE  DistributionKnown'
    OBVIOUS
<1>0. /\ TypeOK /\ LoanKnown /\ LocksForced /\ left <= Len(locked)
      /\ DistributionStarts /\ CostCovered /\ FailurePays /\ FailureCostsOnlyFees
    BY DEF IInv, ReserveInv, ReserveBalanced, LocksKnown, LeftKnown, DistributionKnown
<1>v. /\ locked \in Seq([vault : Vaults, amount : Nat, contingent : BOOLEAN, sum : Nat])
      /\ Len(locked) \in Nat /\ left \in Nat
      /\ vault \in [Vaults -> Nat] /\ base \in [Vaults -> Nat]
      /\ payments \in [Vaults -> Nat]
    <2>1. ReserveTypes /\ VaultTypes /\ FinalizationTypes
        BY <1>0, TypeParts
    <2>2. locked \in Seq([vault : Vaults, amount : Nat, contingent : BOOLEAN, sum : Nat])
        BY <2>1 DEF ReserveTypes
    <2> QED
        BY <2>1, <2>2, SMT DEF VaultTypes, FinalizationTypes
<1>q. owed' = 0 => TotalCost' \in Nat /\ TotalCost' <= freeCredit' + NonContingent'
    <2>1. (TypeOK /\ Books /\ owed = 0 => TotalCost \in Nat /\ TotalCost <= freeCredit + NonContingent)'
        BY CostPayable, PTL
    <2> QED
        BY <2>1
<1>s. ASSUME UNCHANGED finalization, phase \notin {"paying", "done"},
             phase' \notin {"paying", "done"}
      PROVE  DistributionKnown'
    BY <1>0, <1>v, <1>s DEF DistributionKnown, DistributionStarts, CostCovered, FailurePays,
                            FailureCostsOnlyFees, finalization
<1>1. ASSUME NEW units \in Deferred, NEW size \in Deferred, Boot(units, size)
      PROVE  DistributionKnown'
    BY <1>1, <1>s DEF Boot
<1>2. ASSUME NEW units \in 1..MaxUnits, NEW v \in Vaults, NEW w \in Vaults,
             NEW amount \in {0} \cup Amounts, Execute(units, v, w, amount)
      PROVE  DistributionKnown'
    BY <1>2, <1>s DEF Execute, PhaseAfter
<1>3. ASSUME NEW r \in Recipients, NEW amount \in 1..MaxUnits, ConsumeRoyalty(r, amount)
      PROVE  DistributionKnown'
    BY <1>3, <1>s DEF ConsumeRoyalty
<1>4. ASSUME NEW v \in Vaults, NEW amount \in Amounts, NEW contingent \in BOOLEAN,
             TakeForLock(v, amount, contingent)
      PROVE  DistributionKnown'
    BY <1>4, <1>s DEF TakeForLock, reserve
<1>5. ASSUME NEW units \in 1..MaxUnits, LockFee(units)
      PROVE  DistributionKnown'
    BY <1>5, <1>s DEF LockFee, PhaseAfter
<1>6. CASE ExecutionFails
    BY <1>6, <1>s DEF ExecutionFails, reserve
<1>7. CASE ExecutionReturns
    BY <1>7, <1>s DEF ExecutionReturns, reserve
<1>8. ASSUME NEW units \in 1..MaxUnits, ConsumeFinalization(units)
      PROVE  DistributionKnown'
    BY <1>8, <1>s DEF ConsumeFinalization
<1>9. ASSUME NEW t \in StorageTypes, NEW size \in 1..MaxSize, ConsumeStorage(t, size)
      PROVE  DistributionKnown'
    BY <1>9, <1>s DEF ConsumeStorage
<1>10. CASE ExecutionSucceeds
    BY <1>10, <1>s DEF ExecutionSucceeds, reserve
<1>11. CASE RejectOrAbort
    <2>1. /\ phase \notin {"paying", "done"} /\ phase' = "done" /\ result' \in {"Reject", "Abort"}
          /\ UNCHANGED <<locked, finalization>>
        BY <1>11 DEF RejectOrAbort
    <2> QED
        BY <1>0, <2>1 DEF DistributionKnown, DistributionStarts, CostCovered, FailurePays,
                          FailureCostsOnlyFees, finalization
<1>12. CASE CommitSuccess
    <2>1. /\ phase \notin {"paying", "done"} /\ phase' = "paying" /\ result' = "CommitSuccess"
          /\ royaltyPaid' = royaltyPaid + royalty /\ left' = Len(locked)
          /\ UNCHANGED <<parameters, royalty, locked, rewards, burnt, collected, payments>>
          /\ required' = TotalCost'
        BY <1>12 DEF CommitSuccess
    <2>2. owed' = 0
        BY <2>1 DEF LoanKnown
    <2>3. SumUpTo(left)' = NonContingent'
        BY <1>0, <2>1, SumOfAll DEF SumUpTo, NonContingent
    <2>4. royaltyPaid = 0 /\ collected = 0 /\ royalty \in Nat
        BY <1>0, <2>1 DEF DistributionStarts, TypeOK
    <2>5. CostCovered'
        BY <1>q, <2>1, <2>2, <2>3, <2>4, SMT DEF CostCovered
    <2>6. DistributionStarts'
        BY <1>0, <1>v, <2>1 DEF DistributionStarts
    <2> QED
        BY <2>1, <2>5, <2>6 DEF DistributionKnown, FailurePays, FailureCostsOnlyFees
<1>13. CASE CommitFailure
    <2>1. /\ phase \notin {"paying", "done"} /\ phase' = "paying" /\ result' = "CommitFailure"
          /\ royalty' = 0 /\ left' = Len(locked)
          /\ vault' = [v \in Vaults |-> IF forced[v] = -1 THEN base[v] ELSE forced[v]]
          /\ UNCHANGED <<parameters, locked, base, royaltyPaid, rewards, burnt, collected, payments>>
          /\ required' = TotalCost'
        BY <1>13 DEF CommitFailure
    <2>2. owed' = 0
        BY <2>1 DEF LoanKnown
    <2>3. SumUpTo(left)' = NonContingent'
        BY <1>0, <2>1, SumOfAll DEF SumUpTo, NonContingent
    <2>4. /\ royaltyPaid = 0 /\ collected = 0
          /\ \A v \in Vaults : payments[v] = 0
        BY <1>0, <2>1 DEF DistributionStarts
    <2>5. CostCovered'
        BY <1>q, <2>1, <2>2, <2>3, <2>4, SMT DEF CostCovered
    <2>6. DistributionStarts'
        BY <1>0, <1>v, <2>1 DEF DistributionStarts
    <2>7. FailurePays'
        <3>1. \A i \in 1..Len(locked) :
                 /\ locked[i].vault \in Vaults
                 /\ vault'[locked[i].vault] = base[locked[i].vault] - locked[i].amount
            BY <1>0, <2>1, LockedType, SMT DEF LocksForced
        <3>2. \A v \in Vaults : (\A i \in 1..Len(locked) : locked[i].vault # v) => vault'[v] = base[v] - payments[v]
            <4> SUFFICES ASSUME NEW v \in Vaults, \A i \in 1..Len(locked) : locked[i].vault # v
                         PROVE  vault'[v] = base[v] - payments[v]
                OBVIOUS
            <4>1. v \notin LockedVaults
                BY DEF LockedVaults
            <4>2. forced[v] = -1
                BY <1>0, <4>1 DEF LocksForced
            <4>3. vault'[v] = base[v] /\ payments[v] = 0 /\ base[v] \in Nat
                BY <1>v, <2>1, <2>4, <4>2
            <4> QED
                BY <4>3, SMT
        <3> QED
            BY <2>1, <2>4, <3>1, <3>2 DEF FailurePays
    <2> QED
        BY <2>1, <2>5, <2>6, <2>7 DEF DistributionKnown, FailureCostsOnlyFees
<1>14. CASE TakeFee
    <2> DEFINE l == locked[left]
    <2>1. /\ left \in 1..Len(locked) /\ left - 1 \in Nat
        BY <1>0, <1>v, <1>14, SMT DEF TakeFee, DistributionStarts
    <2>2. /\ l.vault \in Vaults /\ l.amount \in Nat /\ l.contingent \in BOOLEAN /\ l.sum \in Nat
        BY <1>0, <2>1, LockedType
    <2>3. /\ phase = "paying" /\ phase' = "paying"
          /\ collected' = collected + Taken(l)
          /\ required' = required - Taken(l)
          /\ vault' = [vault EXCEPT ![l.vault] = @ + (l.amount - Taken(l))]
          /\ payments' = [payments EXCEPT ![l.vault] = @ + Taken(l)]
          /\ left' = left - 1
          /\ UNCHANGED <<reserve, base, royaltyPaid, rewards, burnt, result>>
        BY <1>14 DEF TakeFee, Refund
    <2>4. /\ Taken(l) \in Nat /\ Taken(l) <= l.amount /\ Taken(l) <= required
          /\ required \in Nat /\ collected \in Nat
          /\ Taken(l) = required \/ Taken(l) = l.amount \/ l.contingent
          /\ result = "CommitFailure" /\ l.contingent => Taken(l) = 0
        <3>1. required \in Nat /\ collected \in Nat
            BY <1>0 DEF TypeOK
        <3> HIDE DEF l
        <3>2. CASE l.contingent /\ result # "CommitSuccess"
            <4>1. Taken(l) = 0
                BY <3>2 DEF Taken
            <4> QED
                BY <2>2, <3>1, <3>2, <4>1, SMT
        <3>3. CASE ~(l.contingent /\ result # "CommitSuccess")
            <4>1. Taken(l) = Min(l.amount, required)
                BY <3>3 DEF Taken
            <4> QED
                BY <2>2, <3>1, <3>3, <4>1, SMT DEF Min
        <3> QED
            BY <3>2, <3>3
    <2>5. locked' = locked
        BY <2>3 DEF reserve
    <2>6. DistributionStarts'
        BY <1>0, <1>v, <2>1, <2>3, <2>5 DEF DistributionStarts
    <2>7. CostCovered'
        <3>1. TotalCost' = TotalCost /\ royalty' = royalty /\ freeCredit' = freeCredit
            BY <2>3 DEF TotalCost, NetworkFees, TippingCost, reserve, parameters
        <3>2. collected + required = TotalCost /\ required <= freeCredit + SumUpTo(left)
              /\ royaltyPaid = royalty
            BY <1>0, <2>3 DEF CostCovered
        <3>3. SumUpTo(left) = SumUpTo(left - 1) + Credit(l.amount, l.contingent)
            BY <1>0, <2>1, SMT DEF SumUpTo, LocksForced
        <3>4. SumUpTo(left - 1) \in Nat
            BY <1>0, <2>1, LockedType, SMT DEF SumUpTo
        <3>5. SumUpTo(left)' = SumUpTo(left - 1)
            BY <2>3, <2>5 DEF SumUpTo
        <3>6. freeCredit \in Nat
            BY <1>0 DEF TypeOK
        <3>7. required - Taken(l) <= freeCredit + SumUpTo(left - 1)
            <4>1. CASE l.contingent
                BY <2>2, <2>4, <3>2, <3>3, <3>4, <3>6, <4>1, SMT DEF Credit
            <4>2. CASE ~l.contingent
                BY <2>2, <2>4, <3>2, <3>3, <3>4, <3>6, <4>2, SMT DEF Credit
            <4> QED
                BY <4>1, <4>2
        <3>8. collected' + required' = collected + required
            BY <2>3, <2>4, SMT
        <3> QED
            BY <2>3, <3>1, <3>2, <3>5, <3>7, <3>8 DEF CostCovered
    <2>8. FailurePays'
        <3> SUFFICES ASSUME result = "CommitFailure" PROVE FailurePays'
            BY <2>3 DEF FailurePays
        <3>1. /\ \A i \in 1..left : /\ payments[locked[i].vault] = 0
                                    /\ vault[locked[i].vault] = base[locked[i].vault] - locked[i].amount
              /\ \A v \in Vaults : (\A i \in 1..left : locked[i].vault # v) =>
                                       vault[v] = base[v] - payments[v]
              /\ \A i \in 1..Len(locked) : locked[i].contingent => payments[locked[i].vault] = 0
            BY <1>0, <2>3 DEF FailurePays
        <3>2. \A v \in Vaults : v # l.vault => vault'[v] = vault[v] /\ payments'[v] = payments[v]
            BY <1>v, <2>3
        <3>3. payments'[l.vault] = Taken(l) /\ vault'[l.vault] = base[l.vault] - payments'[l.vault]
            <4>1. payments[l.vault] = 0 /\ vault[l.vault] = base[l.vault] - l.amount
                BY <2>1, <3>1, SMT
            <4>2. base[l.vault] \in Nat /\ vault[l.vault] \in Nat
                BY <1>v, <2>2
            <4> HIDE DEF l
            <4>3. payments'[l.vault] = payments[l.vault] + Taken(l)
                BY <1>v, <2>2, <2>3
            <4>4. vault'[l.vault] = vault[l.vault] + (l.amount - Taken(l))
                BY <1>v, <2>2, <2>3
            <4> QED
                BY <2>2, <2>4, <4>1, <4>2, <4>3, <4>4, SMT
        <3>4. \A i \in 1..Len(locked) : i # left => locked[i].vault # l.vault /\ locked[i].vault \in Vaults
            BY <1>0, <2>1, LockedType DEF LocksForced
        <3> HIDE DEF l
        <3>5. \A i \in 1..left' : i \in 1..left /\ i # left /\ i \in 1..Len(locked)
            <4>1. left' = left - 1
                BY <2>3
            <4> QED
                BY <1>v, <2>1, <4>1, SMTT(20)
        <3>6. \A i \in 1..left' : /\ payments'[locked[i].vault] = 0
                                  /\ vault'[locked[i].vault] = base[locked[i].vault] - locked[i].amount
            BY <3>1, <3>2, <3>4, <3>5
        <3>7. ASSUME NEW v \in Vaults, \A i \in 1..left' : locked[i].vault # v
              PROVE  vault'[v] = base[v] - payments'[v]
            <4>1. CASE v = l.vault
                BY <3>3, <4>1
            <4>2. CASE v # l.vault
                <5>1. \A i \in 1..left : i \in 1..left' \/ i = left
                    BY <1>v, <2>1, <2>3, SMT
                <5>2. \A i \in 1..left : locked[i].vault # v
                    BY <3>7, <4>2, <5>1 DEF l
                <5> QED
                    BY <3>1, <3>2, <4>2, <5>2
            <4> QED
                BY <4>1, <4>2
        <3>8. ASSUME NEW i \in 1..Len(locked), locked[i].contingent
              PROVE  payments'[locked[i].vault] = 0
            <4>1. CASE i = left
                BY <2>4, <3>3, <3>8, <4>1 DEF l
            <4>2. CASE i # left
                BY <3>1, <3>2, <3>4, <3>8, <4>2
            <4> QED
                BY <4>1, <4>2
        <3> QED
            BY <2>3, <2>5, <3>6, <3>7, <3>8 DEF FailurePays
    <2> QED
        BY <2>3, <2>6, <2>7, <2>8 DEF DistributionKnown, FailureCostsOnlyFees
<1>15. CASE Distribute
    <2>1. /\ phase = "paying" /\ left = 0 /\ phase' = "done"
          /\ UNCHANGED <<locked, vault, base, left, payments, result>>
        BY <1>15 DEF Distribute, reserve, vaults
    <2>2. result \in {"CommitSuccess", "CommitFailure"}
        BY <1>0, <2>1 DEF LoanKnown
    <2>3. DistributionStarts'
        BY <1>0, <2>1, <2>2 DEF DistributionStarts
    <2>4. FailureCostsOnlyFees'
        BY <1>0, <2>1, SMT DEF FailurePays, FailureCostsOnlyFees
    <2> QED
        BY <2>1, <2>3, <2>4 DEF DistributionKnown, CostCovered, FailurePays
<1> QED
    BY <1>1, <1>2, <1>3, <1>4, <1>5, <1>6, <1>7, <1>8, <1>9, <1>10, <1>11, <1>12, <1>13, <1>14,
       <1>15 DEF Next

\* The sum over the vaults, and what changing one of them does to it.
LEMMA VaultSums ==
    /\ IsFiniteSet(Vaults)
    /\ \A f \in [Vaults -> Nat] : SumOver(f) \in Nat
    /\ \A f, g \in [Vaults -> Nat], v \in Vaults :
           (\A w \in Vaults : w # v => g[w] = f[w]) => SumOver(g) = SumOver(f) + (g[v] - f[v])
<1>1. IsFiniteSet(Vaults)
    BY FeeAssumption
<1>2. \A f \in [Vaults -> Nat] : SumOver(f) \in Nat
    BY <1>1, SumNat DEF SumOver
<1>3. ASSUME NEW f \in [Vaults -> Nat], NEW g \in [Vaults -> Nat], NEW v \in Vaults,
             \A w \in Vaults : w # v => g[w] = f[w]
      PROVE  SumOver(g) = SumOver(f) + (g[v] - f[v])
    <2>1. \A w \in Vaults : f[w] \in Int /\ g[w] \in Int
        BY SMT
    <2> QED
        BY <1>1, <1>3, <2>1, SumUpdate, SMT DEF SumOver
<1> QED
    BY <1>1, <1>2, <1>3

\* The sums of the locked fees.
LEMMA LockedSums ==
    ASSUME TypeOK
    PROVE  /\ Len(locked) \in Nat
           /\ \A k \in 0..Len(locked) : LockedSum(k) \in Nat
           /\ LockedSum(0) = 0
           /\ \A k \in 1..Len(locked) : LockedSum(k) = locked[k].amount + LockedSum(k - 1)
<1> DEFINE f == [i \in 1..Len(locked) |-> locked[i].amount]
<1>1. Len(locked) \in Nat
    <2>1. locked \in Seq([vault : Vaults, amount : Nat, contingent : BOOLEAN, sum : Nat])
        BY DEF TypeOK
    <2> QED
        BY <2>1, SMT
<1>2. \A i \in 1..Len(locked) : f[i] = locked[i].amount /\ f[i] \in Nat
    BY LockedType
<1>3. \A k : LockedSum(k) = SumFunctionOnSet(f, 1..k)
    BY DEF LockedSum
<1> HIDE DEF f
<1>4. \A k \in 0..Len(locked) : IsFiniteSet(1..k) /\ \A i \in 1..k : i \in 1..Len(locked)
    BY <1>1, FS_Interval, SMT
<1>5. \A k \in 0..Len(locked) : LockedSum(k) \in Nat
    BY <1>2, <1>3, <1>4, SumNat
<1>6. LockedSum(0) = 0
    <2>1. 1..0 = {}
        BY SMT
    <2> QED
        BY <1>3, <2>1, SumEmpty
<1>7. ASSUME NEW k \in 1..Len(locked)
      PROVE  LockedSum(k) = locked[k].amount + LockedSum(k - 1)
    <2>1. (1..k) \ {k} = 1..(k - 1) /\ k \in 1..k /\ k \in 0..Len(locked)
        BY <1>1, SMT
    <2>2. \A i \in 1..k : f[i] \in Int
        BY <1>2, <1>4, <2>1, SMT
    <2>3. SumFunctionOnSet(f, 1..k) = f[k] + SumFunctionOnSet(f, (1..k) \ {k})
        BY <1>4, <2>1, <2>2, SumSplit
    <2> QED
        BY <1>2, <1>3, <2>1, <2>3
<1> QED
    BY <1>1, <1>5, <1>6, <1>7

\* Locking one more fee adds it to the sum.
LEMMA LockedSumAppend ==
    ASSUME TypeOK, NEW e, e.amount \in Nat, locked' = Append(locked, e)
    PROVE  LockedSum(Len(locked))' = LockedSum(Len(locked)) + e.amount
<1> DEFINE n == Len(locked)
           f == [i \in 1..n |-> locked[i].amount]
           g == [i \in 1..(n + 1) |-> locked'[i].amount]
<1>1. locked \in Seq([vault : Vaults, amount : Nat, contingent : BOOLEAN, sum : Nat])
    BY DEF TypeOK
<1>2. /\ n \in Nat /\ Len(locked') = n + 1 /\ locked'[n + 1] = e
      /\ \A i \in 1..n : locked'[i] = locked[i]
    BY <1>1, SMT
<1>3. LockedSum(Len(locked)) = SumFunctionOnSet(f, 1..n)
    BY DEF LockedSum
<1>4. LockedSum(Len(locked))' = SumFunctionOnSet(g, 1..(n + 1))
    BY <1>2 DEF LockedSum
<1>5. \A i \in 1..n : f[i] = g[i] /\ g[i] \in Nat
    BY <1>2, LockedType, SMT
<1>6. g[n + 1] = e.amount
    BY <1>2, SMT
<1> HIDE DEF n, f, g
<1>7. IsFiniteSet(1..n) /\ IsFiniteSet(1..(n + 1))
    BY <1>2, FS_Interval, SMT
<1>8. (1..(n + 1)) \ {n + 1} = 1..n /\ n + 1 \in 1..(n + 1)
    BY <1>2, SMT
<1>9. \A i \in 1..(n + 1) : i \in 1..n \/ i = n + 1
    BY <1>2, SMT
<1>10. \A i \in 1..(n + 1) : g[i] \in Int
    BY <1>5, <1>6, <1>9, SMT
<1>11. SumFunctionOnSet(g, 1..(n + 1)) = e.amount + SumFunctionOnSet(g, 1..n)
    <2> DEFINE S == 1..(n + 1)
    <2>1. IsFiniteSet(S) /\ n + 1 \in S /\ S \ {n + 1} = 1..n /\ \A i \in S : g[i] \in Int
        BY <1>7, <1>8, <1>10
    <2> HIDE DEF S
    <2>2. \A x \in S : SumFunctionOnSet(g, S) = g[x] + SumFunctionOnSet(g, S \ {x})
        BY <2>1, SumSplit
    <2>3. SumFunctionOnSet(g, S) = g[n + 1] + SumFunctionOnSet(g, S \ {n + 1})
        BY <2>1, <2>2
    <2> QED
        BY <1>6, <2>1, <2>3 DEF S
<1>12. SumFunctionOnSet(g, 1..n) = SumFunctionOnSet(f, 1..n)
    BY <1>5, <1>7, SumSame
<1>13. SumFunctionOnSet(g, 1..n) \in Nat
    BY <1>5, <1>7, SumNat
<1> QED
    BY <1>3, <1>4, <1>11, <1>12, <1>13, SMT

\* Every step keeps the sums.
LEMMA SumsNext == IInv /\ DistributionKnown /\ SumsKnown /\ Next /\ TypeOK' => SumsKnown'
<1> SUFFICES ASSUME IInv, DistributionKnown, SumsKnown, Next, TypeOK' PROVE SumsKnown'
    OBVIOUS
<1>0. /\ TypeOK /\ LoanKnown /\ LocksForced /\ UntouchedKept /\ TakingKnown /\ LeftKnown
      /\ DistributionStarts /\ CostCovered
      /\ VaultsAddUp /\ KeptAddsUp /\ PaidAddsUp
    BY DEF IInv, ReserveInv, ReserveBalanced, LocksKnown, DistributionKnown, SumsKnown
<1>v. /\ vault \in [Vaults -> Nat] /\ base \in [Vaults -> Nat] /\ vault' \in [Vaults -> Nat]
      /\ forced \in [Vaults -> Nat \cup {-1}] /\ left \in Nat /\ left' \in Nat
    <2>1. VaultTypes /\ FinalizationTypes
        BY <1>0, TypeParts
    <2>2. VaultTypes' /\ FinalizationTypes'
        BY TypeParts, PTL
    <2> QED
        BY <2>1, <2>2 DEF VaultTypes, FinalizationTypes
<1>k. Kept \in [Vaults -> Nat]
    BY <1>v DEF Kept
<1>n. /\ SumOver(vault) \in Nat /\ SumOver(base) \in Nat /\ SumOver(vault') \in Nat
      /\ SumOver(Kept) \in Nat
      /\ Len(locked) \in Nat
      /\ \A k \in 0..Len(locked) : LockedSum(k) \in Nat
      /\ LockedSum(Len(locked)) \in Nat
    <2>1. /\ Len(locked) \in Nat
          /\ \A k \in 0..Len(locked) : LockedSum(k) \in Nat
        BY <1>0, LockedSums
    <2> QED
        BY <1>v, <1>k, <2>1, VaultSums, SMT
<1>m. UNCHANGED locked => LockedSum(Len(locked))' = LockedSum(Len(locked))
    BY DEF LockedSum
<1>b. UNCHANGED <<forced, base>> => SumOver(Kept)' = SumOver(Kept) /\ SumOver(base)' = SumOver(base)
    BY DEF SumOver, Kept
<1>s. ASSUME UNCHANGED <<locked, base, forced>>,
             phase' \notin {"paying", "done"}, VaultsAddUp'
      PROVE  SumsKnown'
    BY <1>0, <1>b, <1>m, <1>s DEF SumsKnown, KeptAddsUp, PaidAddsUp, RorkConserved
<1>p. ASSUME UNCHANGED <<locked, base, forced, vault>>,
             phase \in {"booting", "executing", "locking", "closing"},
             phase' \in {"executing", "closing", "executed", "failed"},
             phase = "locking" => phase' = "failed"
      PROVE  SumsKnown'
    <2>1. SumOver(vault)' = SumOver(vault) /\ SumOver(base)' = SumOver(base)
        BY <1>p DEF SumOver
    <2>2. VaultsAddUp'
        BY <1>0, <1>p, <1>m, <2>1 DEF VaultsAddUp, BeingTaken
    <2> QED
        BY <1>p, <1>s, <2>2
<1>1. ASSUME NEW units \in Deferred, NEW size \in Deferred, Boot(units, size)
      PROVE  SumsKnown'
    BY <1>1, <1>p DEF Boot, vaults
<1>2. ASSUME NEW units \in 1..MaxUnits, NEW v \in Vaults, NEW w \in Vaults,
             NEW amount \in {0} \cup Amounts, Execute(units, v, w, amount)
      PROVE  SumsKnown'
    <2>1. /\ phase = "executing" /\ phase' \in {"executing", "aborted", "failed"}
          /\ v # w /\ amount <= vault[v] /\ amount \in Nat
          /\ UNCHANGED <<locked, base, forced, taking>>
          /\ vault' = Moved(v, w, amount) \/ UNCHANGED vault
        BY <1>2, PriceTypes, SMT DEF Execute, PhaseAfter
    <2>2. SumOver(vault') = SumOver(vault)
        <3>1. CASE UNCHANGED vault
            BY <3>1 DEF SumOver
        <3>2. CASE vault' = Moved(v, w, amount)
            <4> DEFINE f == [vault EXCEPT ![v] = @ - amount]
            <4>1. f \in [Vaults -> Nat] /\ f[v] = vault[v] - amount /\ f[w] = vault[w]
                  /\ \A u \in Vaults : u # v => f[u] = vault[u]
                BY <1>v, <2>1, SMT
            <4>2. vault'[w] = vault[w] + amount /\ \A u \in Vaults : u # w => vault'[u] = f[u]
                BY <1>v, <2>1, <3>2 DEF Moved
            <4> HIDE DEF f
            <4>3. SumOver(f) = SumOver(vault) + (f[v] - vault[v])
                BY <1>v, <4>1, VaultSums
            <4>4. SumOver(vault') = SumOver(f) + (vault'[w] - f[w])
                BY <1>v, <4>1, <4>2, VaultSums
            <4>5. vault[v] \in Nat /\ vault[w] \in Nat
                BY <1>v
            <4>6. f[v] - vault[v] = -amount /\ vault'[w] - f[w] = amount
                BY <2>1, <4>1, <4>2, <4>5, SMT
            <4> QED
                BY <1>n, <2>1, <4>3, <4>4, <4>6, SMT
        <3> QED
            BY <2>1, <3>1, <3>2
    <2>3. SumOver(vault)' = SumOver(vault) /\ SumOver(base)' = SumOver(base)
        BY <2>1, <2>2 DEF SumOver
    <2>4. VaultsAddUp'
        BY <1>0, <1>m, <2>1, <2>3 DEF VaultsAddUp, BeingTaken
    <2> QED
        BY <1>s, <2>1, <2>4
<1>3. ASSUME NEW r \in Recipients, NEW amount \in 1..MaxUnits, ConsumeRoyalty(r, amount)
      PROVE  SumsKnown'
    BY <1>3, <1>p DEF ConsumeRoyalty, vaults
<1>4. ASSUME NEW v \in Vaults, NEW amount \in Amounts, NEW contingent \in BOOLEAN,
             TakeForLock(v, amount, contingent)
      PROVE  SumsKnown'
    <2>1. /\ phase = "executing" /\ phase' = "locking" /\ amount <= vault[v] /\ amount \in Nat
          /\ vault' = [vault EXCEPT ![v] = @ - amount]
          /\ taking' = <<[vault |-> v, amount |-> amount, contingent |-> contingent]>>
          /\ UNCHANGED <<locked, base, forced>>
        BY <1>4, PriceTypes DEF TakeForLock, reserve
    <2>2. vault'[v] = vault[v] - amount /\ \A w \in Vaults : w # v => vault'[w] = vault[w]
        BY <1>v, <2>1
    <2>3. SumOver(vault') = SumOver(vault) + (vault'[v] - vault[v])
        BY <1>v, <2>2, VaultSums
    <2>4. SumOver(vault)' = SumOver(vault) - amount /\ SumOver(base)' = SumOver(base)
        <3>1. vault[v] \in Nat
            BY <1>v
        <3>2. SumOver(vault)' = SumOver(vault') /\ SumOver(base)' = SumOver(base)
            BY <2>1 DEF SumOver
        <3> QED
            BY <1>n, <2>1, <2>2, <2>3, <3>1, <3>2, SMT
    <2>5. BeingTaken' = amount /\ BeingTaken = 0
        BY <2>1 DEF BeingTaken
    <2>6. VaultsAddUp'
        BY <1>0, <1>m, <1>n, <2>1, <2>4, <2>5, SMT DEF VaultsAddUp
    <2> QED
        BY <1>s, <2>1, <2>6
<1>5. ASSUME NEW units \in 1..MaxUnits, LockFee(units)
      PROVE  SumsKnown'
    <2> DEFINE t == taking[1]
               e == [vault |-> t.vault, amount |-> t.amount, contingent |-> t.contingent,
                     sum |-> NonContingent + IF t.contingent THEN 0 ELSE t.amount]
    <2>1. /\ phase = "locking" /\ phase' \in {"executing", "aborted", "failed"}
          /\ \/ /\ phase' = "executing"
                /\ forced' = [forced EXCEPT ![t.vault] = vault[t.vault]]
                /\ locked' = Append(locked, e)
             \/ phase' # "executing" /\ UNCHANGED <<forced, locked>>
          /\ UNCHANGED <<base, vault>>
        BY <1>5 DEF LockFee, PhaseAfter
    <2>2. SumOver(vault)' = SumOver(vault) /\ SumOver(base)' = SumOver(base)
        BY <2>1 DEF SumOver
    <2>3. CASE phase' # "executing" /\ UNCHANGED <<forced, locked>>
        <3>1. VaultsAddUp'
            BY <2>1, <2>3 DEF VaultsAddUp
        <3> QED
            BY <1>s, <2>1, <2>3, <3>1
    <2>4. CASE /\ phase' = "executing"
               /\ forced' = [forced EXCEPT ![t.vault] = vault[t.vault]]
               /\ locked' = Append(locked, e)
        <3>1. /\ t.vault \in Vaults /\ t.amount \in Nat
              /\ t.vault \notin LockedVaults
              /\ vault[t.vault] = base[t.vault] - t.amount
            BY <1>0, <2>1, TakingType DEF TakingKnown
        <3>2. e.amount = t.amount
            OBVIOUS
        <3>3. BeingTaken = t.amount /\ BeingTaken' = 0
            BY <2>1, <2>4 DEF BeingTaken
        <3> HIDE DEF t, e
        <3>4. LockedSum(Len(locked))' = LockedSum(Len(locked)) + t.amount
            BY <1>0, <2>4, <3>1, <3>2, LockedSumAppend
        <3>5. VaultsAddUp'
            BY <1>0, <1>n, <2>1, <2>2, <2>4, <3>1, <3>3, <3>4, SMTT(20) DEF VaultsAddUp
        <3>6. SumOver(Kept)' = SumOver(Kept) - t.amount
            <4>1. forced[t.vault] = -1
                BY <1>0, <3>1 DEF LocksForced
            <4>2. Kept' \in [Vaults -> Nat]
                BY <1>v, <2>1, <2>4, <3>1 DEF Kept
            <4>3. /\ Kept[t.vault] = base[t.vault] /\ Kept'[t.vault] = vault[t.vault]
                  /\ \A w \in Vaults : w # t.vault => Kept'[w] = Kept[w]
                BY <1>v, <2>1, <2>4, <3>1, <4>1, SMT DEF Kept
            <4>4. base[t.vault] \in Nat
                BY <1>v, <3>1
            <4>5. SumOver(Kept') = SumOver(Kept) + (Kept'[t.vault] - Kept[t.vault])
                BY <1>k, <3>1, <4>2, <4>3, VaultSums
            <4>6. SumOver(Kept)' = SumOver(Kept')
                BY DEF SumOver
            <4> QED
                BY <1>n, <3>1, <4>3, <4>4, <4>5, <4>6, SMT
        <3>7. KeptAddsUp'
            BY <1>0, <1>n, <2>2, <3>1, <3>4, <3>6, SMT DEF KeptAddsUp
        <3> QED
            BY <2>4, <3>5, <3>7 DEF SumsKnown, PaidAddsUp, RorkConserved
    <2> QED
        BY <2>1, <2>3, <2>4
<1>6. CASE ExecutionFails
    BY <1>6, <1>p DEF ExecutionFails, reserve, vaults
<1>7. CASE ExecutionReturns
    BY <1>7, <1>p DEF ExecutionReturns, reserve, vaults
<1>8. ASSUME NEW units \in 1..MaxUnits, ConsumeFinalization(units)
      PROVE  SumsKnown'
    BY <1>8, <1>p DEF ConsumeFinalization, vaults
<1>9. ASSUME NEW t \in StorageTypes, NEW size \in 1..MaxSize, ConsumeStorage(t, size)
      PROVE  SumsKnown'
    BY <1>9, <1>p DEF ConsumeStorage, vaults
<1>10. CASE ExecutionSucceeds
    BY <1>10, <1>p DEF ExecutionSucceeds, reserve, vaults
<1>11. CASE RejectOrAbort
    <2>1. /\ phase \notin {"paying", "done"} /\ phase' = "done" /\ vault' = base
          /\ UNCHANGED <<locked, base, forced, royaltyPaid, rewards, burnt>>
        BY <1>11 DEF RejectOrAbort, finalization
    <2>2. royaltyPaid = 0 /\ rewards = 0 /\ burnt = 0
        BY <1>0, <2>1 DEF DistributionStarts
    <2>3. SumOver(vault)' = SumOver(base) /\ SumOver(base)' = SumOver(base)
        BY <2>1 DEF SumOver
    <2>4. RorkConserved'
        BY <1>n, <2>1, <2>2, <2>3, SMT DEF RorkConserved
    <2> QED
        BY <1>0, <1>b, <1>m, <2>1, <2>4 DEF SumsKnown, VaultsAddUp, KeptAddsUp, PaidAddsUp
<1>12. CASE CommitSuccess
    <2>1. /\ phase \in {"executed", "failed", "aborted"} /\ phase' = "paying"
          /\ ResultType(RepayAll(balance, execC)) = "CommitSuccess"
          /\ left' = Len(locked)
          /\ UNCHANGED <<locked, base, forced, vault, collected>>
        BY <1>12 DEF CommitSuccess, vaults
    <2>2. phase = "executed"
        BY <2>1 DEF ResultType
    <2>3. SumOver(vault)' = SumOver(vault) /\ SumOver(base)' = SumOver(base)
        BY <2>1 DEF SumOver
    <2>4. LockedSum(left)' = LockedSum(Len(locked))
        BY <2>1 DEF LockedSum
    <2>5. collected = 0
        BY <1>0, <2>1 DEF DistributionStarts
    <2>6. PaidAddsUp'
        BY <1>0, <1>n, <2>1, <2>2, <2>3, <2>4, <2>5 DEF PaidAddsUp, VaultsAddUp, BeingTaken
    <2> QED
        BY <1>0, <1>b, <1>m, <2>1, <2>6 DEF SumsKnown, VaultsAddUp, KeptAddsUp, RorkConserved
<1>13. CASE CommitFailure
    <2>1. /\ phase \in {"executed", "failed", "aborted"} /\ phase' = "paying"
          /\ left' = Len(locked) /\ vault' = Kept
          /\ UNCHANGED <<locked, base, forced, collected>>
        BY <1>13 DEF CommitFailure, Kept
    <2>2. SumOver(vault)' = SumOver(Kept) /\ SumOver(base)' = SumOver(base)
        BY <2>1 DEF SumOver
    <2>3. LockedSum(left)' = LockedSum(Len(locked))
        BY <2>1 DEF LockedSum
    <2>4. collected = 0
        BY <1>0, <2>1 DEF DistributionStarts
    <2>5. PaidAddsUp'
        BY <1>0, <1>n, <2>1, <2>2, <2>3, <2>4, SMT DEF PaidAddsUp, KeptAddsUp
    <2> QED
        BY <1>0, <1>b, <1>m, <2>1, <2>5 DEF SumsKnown, VaultsAddUp, KeptAddsUp, RorkConserved
<1>14. CASE TakeFee
    <2> DEFINE l == locked[left]
    <2>1. left \in 1..Len(locked)
        BY <1>0, <1>v, <1>n, <1>14, SMT DEF TakeFee, LeftKnown
    <2>2. l.vault \in Vaults /\ l.amount \in Nat
        BY <1>0, <2>1, LockedType
    <2>3. LockedSum(left) = l.amount + LockedSum(left - 1) /\ LockedSum(left - 1) \in Nat
        BY <1>0, <1>n, <2>1, LockedSums, SMT
    <2>4. Taken(l) \in Nat /\ collected \in Nat
        BY <1>0, <2>2 DEF Taken, Min, TypeOK
    <2> HIDE DEF l
    <2>5. /\ phase = "paying" /\ phase' = "paying"
          /\ collected' = collected + Taken(l)
          /\ vault' = [vault EXCEPT ![l.vault] = @ + (l.amount - Taken(l))]
          /\ left' = left - 1
          /\ UNCHANGED <<locked, base, forced>>
        BY <1>14 DEF TakeFee, Refund, reserve, l
    <2>6. LockedSum(left)' = LockedSum(left - 1)
        BY <2>5 DEF LockedSum
    <2>7. SumOver(vault)' = SumOver(vault) + (l.amount - Taken(l))
        <3>1. /\ vault'[l.vault] = vault[l.vault] + (l.amount - Taken(l))
              /\ \A w \in Vaults : w # l.vault => vault'[w] = vault[w]
            BY <1>v, <2>2, <2>5
        <3>2. SumOver(vault') = SumOver(vault) + (vault'[l.vault] - vault[l.vault])
            BY <1>v, <2>2, <3>1, VaultSums
        <3>3. SumOver(vault)' = SumOver(vault') /\ vault[l.vault] \in Nat
            BY <1>v, <2>2 DEF SumOver
        <3> QED
            BY <1>n, <2>2, <2>4, <3>1, <3>2, <3>3, SMTT(20)
    <2>8. PaidAddsUp'
        <3>1. SumOver(vault) + LockedSum(left) + collected = SumOver(base)
            BY <1>0, <2>5 DEF PaidAddsUp
        <3>2. SumOver(base)' = SumOver(base)
            BY <1>b, <2>5
        <3>3. (SumOver(vault) + (l.amount - Taken(l))) + LockedSum(left - 1) + (collected + Taken(l))
                = SumOver(base)
            BY <1>n, <2>2, <2>3, <2>4, <3>1, SMTT(30)
        <3> QED
            BY <2>5, <2>6, <2>7, <3>2, <3>3 DEF PaidAddsUp
    <2> QED
        BY <1>0, <1>b, <1>m, <2>5, <2>8 DEF SumsKnown, VaultsAddUp, KeptAddsUp, RorkConserved
<1>15. CASE Distribute
    <2>1. /\ phase = "paying" /\ left = 0 /\ phase' = "done"
          /\ rewards' = rewards + ToProposer + ToValidatorSet
          /\ burnt' = burnt + ToBurn
          /\ UNCHANGED <<freeCredit, locked, base, forced, vault, royaltyPaid>>
        BY <1>15 DEF Distribute, reserve, parameters, vaults
    <2>2. SumOver(vault)' = SumOver(vault) /\ SumOver(base)' = SumOver(base)
        BY <2>1 DEF SumOver
    <2>3. SumOver(vault) + collected = SumOver(base) /\ collected \in Nat /\ required \in Nat
        <3>1. LockedSum(left) = 0
            BY <1>0, <2>1, LockedSums
        <3>2. collected \in Nat /\ required \in Nat
            BY <1>0 DEF TypeOK
        <3> QED
            BY <1>0, <1>n, <2>1, <3>1, <3>2, SMT DEF PaidAddsUp
    <2>4. /\ collected + required = TotalCost /\ required <= freeCredit + 0 /\ royaltyPaid = royalty
        BY <1>0, <2>1 DEF CostCovered, SumUpTo
    <2>5. rewards = 0 /\ burnt = 0
        BY <1>0, <2>1 DEF DistributionStarts
    <2>6. /\ ToProposer \in Nat /\ ToValidatorSet \in Nat /\ ToBurn \in Nat
          /\ ToProposer + ToValidatorSet + ToBurn = TippingCost + NetworkFees
          /\ TotalCost = TippingCost + NetworkFees + royalty
          /\ TippingCost \in Nat /\ NetworkFees \in Nat /\ royalty \in Nat
        BY <1>0, Shares DEF TypeOK
    <2>7. freeCredit = 0 => SumOver(base) = SumOver(vault) + royaltyPaid + rewards' + burnt'
        <3> SUFFICES ASSUME freeCredit = 0
                     PROVE  SumOver(base) = SumOver(vault) + royaltyPaid + rewards' + burnt'
            OBVIOUS
        <3>1. required = 0
            BY <2>3, <2>4, SMT
        <3>2. collected = TippingCost + NetworkFees + royalty
            BY <2>3, <2>4, <2>6, <3>1, SMT
        <3>3. rewards' = ToProposer + ToValidatorSet /\ burnt' = ToBurn
            BY <2>1, <2>5, <2>6, SMT
        <3>4. /\ royaltyPaid \in Nat /\ rewards' \in Nat /\ burnt' \in Nat
              /\ royaltyPaid + rewards' + burnt' = collected
            BY <2>4, <2>6, <3>2, <3>3, SMT
        <3> DEFINE V == SumOver(vault)
                   r == royaltyPaid
                   w == rewards'
                   b == burnt'
        <3>5. V \in Nat
            BY <1>n
        <3>6. r \in Nat /\ w \in Nat /\ b \in Nat /\ r + w + b = collected
            BY <3>4
        <3>7. SumOver(base) = V + collected
            BY <2>3
        <3> HIDE DEF V, r, w, b
        <3>8. V + (r + w + b) = V + r + w + b
            BY <3>5, <3>6, SMT
        <3>9. SumOver(base) = V + r + w + b
            BY <3>6, <3>7, <3>8
        <3> QED
            BY <3>9 DEF V, r, w, b
    <2>8. RorkConserved'
        BY <2>1, <2>2, <2>7 DEF RorkConserved
    <2> QED
        BY <1>0, <1>b, <1>m, <2>1, <2>8 DEF SumsKnown, VaultsAddUp, KeptAddsUp, PaidAddsUp
<1> QED
    BY <1>1, <1>2, <1>3, <1>4, <1>5, <1>6, <1>7, <1>8, <1>9, <1>10, <1>11, <1>12, <1>13, <1>14,
       <1>15 DEF Next
\* The invariant holds when a transaction starts.
LEMMA InitPayments == Init => PaymentsInv
<1> SUFFICES ASSUME Init PROVE PaymentsInv
    OBVIOUS
<1>1. TypeOK
    BY InitIInv DEF IInv, ReserveInv, ReserveBalanced
<1>2. Len(locked) = 0 /\ locked = <<>>
    BY DEF Init
<1>3. LockedSum(Len(locked)) = 0
    BY <1>1, <1>2, LockedSums
<1>4. SumOver(base) \in Nat
    BY <1>1, VaultSums DEF TypeOK
<1>5. SumOver(vault) = SumOver(base)
    BY DEF Init
<1>6. SumOver(Kept) = SumOver(base)
    <2>1. \A v \in Vaults : Kept[v] = base[v]
        BY DEF Init, Kept
    <2> QED
        BY <2>1, VaultSums, SumSame DEF SumOver
<1>7. BeingTaken = 0
    BY DEF Init, BeingTaken
<1>8. DistributionKnown
    BY <1>2 DEF Init, DistributionKnown, DistributionStarts, CostCovered, FailurePays,
                FailureCostsOnlyFees
<1>9. SumsKnown
    BY <1>3, <1>4, <1>5, <1>6, <1>7, SMT
       DEF Init, SumsKnown, VaultsAddUp, KeptAddsUp, PaidAddsUp, RorkConserved
<1> QED
    BY <1>8, <1>9 DEF PaymentsInv

\* Nothing changes when nothing happens.
LEMMA StutterPayments == PaymentsInv /\ UNCHANGED vars => PaymentsInv'
<1> SUFFICES ASSUME PaymentsInv, UNCHANGED vars PROVE PaymentsInv'
    OBVIOUS
<1> USE DEF vars, reserve, parameters, vaults, finalization
<1>1. /\ SumOver(vault)' = SumOver(vault) /\ SumOver(base)' = SumOver(base)
      /\ SumOver(Kept)' = SumOver(Kept) /\ LockedSum(Len(locked))' = LockedSum(Len(locked))
      /\ LockedSum(left)' = LockedSum(left) /\ BeingTaken' = BeingTaken
    BY DEF SumOver, Kept, LockedSum, BeingTaken
<1>2. SumsKnown'
    BY <1>1 DEF PaymentsInv, SumsKnown, VaultsAddUp, KeptAddsUp, PaidAddsUp, RorkConserved
<1>3. DistributionKnown'
    <2>1. SumUpTo(left)' = SumUpTo(left) /\ TotalCost' = TotalCost
        BY DEF SumUpTo, TotalCost, NetworkFees, TippingCost
    <2>2. CostCovered' /\ DistributionStarts'
        BY <2>1 DEF PaymentsInv, DistributionKnown, CostCovered, DistributionStarts
    <2>3. FailurePays' /\ FailureCostsOnlyFees'
        BY DEF PaymentsInv, DistributionKnown, FailurePays, FailureCostsOnlyFees
    <2> QED
        BY <2>2, <2>3 DEF DistributionKnown
<1> QED
    BY <1>2, <1>3 DEF PaymentsInv

\* Everything a transaction does keeps the invariants.
LEMMA SpecPayments == Spec => [](IInv /\ PaymentsInv)
<1>1. IInv => TypeOK /\ Books /\ LoanKnown
    BY DEF IInv, ReserveInv, ReserveBalanced, Books
<1>2. IInv /\ IInv' /\ PaymentsInv /\ [Next]_vars => PaymentsInv'
    <2> SUFFICES ASSUME IInv, IInv', PaymentsInv, [Next]_vars PROVE PaymentsInv'
        OBVIOUS
    <2>1. TypeOK' /\ Books' /\ LoanKnown'
        BY <1>1, PTL
    <2>2. CASE Next
        BY <2>1, <2>2, SumsNext, DistributionNext DEF PaymentsInv
    <2> QED
        BY <2>2, StutterPayments
<1> QED
    BY <1>2, InitPayments, SpecIInv, PTL DEF Spec

-----------------------------------------------------------------------------
(***************************************************************************)
(* Theorems                                                                *)
(***************************************************************************)

\* Whatever determine_result_type decides is paid for, and the sanity checks of
\* finalize_fees_for_commit hold whatever the order and the kinds of the locked fees.
THEOREM ResultsPaid == Spec => []ResultIsPaid
<1>1. IInv /\ PaymentsInv => ResultIsPaid
    <2> SUFFICES ASSUME IInv, PaymentsInv PROVE ResultIsPaid
        OBVIOUS
    <2>1. TypeOK /\ LoanKnown /\ CostCovered
        BY DEF IInv, ReserveInv, ReserveBalanced, PaymentsInv, DistributionKnown
    <2>2. ASSUME phase = "paying", left = 0
          PROVE  /\ owed = 0
                 /\ required <= freeCredit
                 /\ collected + required = royalty + ToProposer + ToValidatorSet + ToBurn
                 /\ ToBurn >= 0
        <3>1. /\ collected + required = TotalCost /\ required <= freeCredit + 0
            BY <2>1, <2>2 DEF CostCovered, SumUpTo
        <3>2. /\ ToProposer \in Nat /\ ToValidatorSet \in Nat /\ ToBurn \in Nat
              /\ ToProposer + ToValidatorSet + ToBurn = TippingCost + NetworkFees
              /\ TotalCost = TippingCost + NetworkFees + royalty
              /\ TippingCost \in Nat /\ NetworkFees \in Nat /\ royalty \in Nat
              /\ freeCredit \in Nat
            BY <2>1, Shares DEF TypeOK
        <3>3. TotalCost = royalty + ToProposer + ToValidatorSet + ToBurn
            BY <3>2, SMT
        <3> QED
            BY <2>1, <2>2, <3>1, <3>2, <3>3, SMT DEF LoanKnown
    <2> QED
        BY <2>1, <2>2 DEF ResultIsPaid, LoanKnown
<1> QED
    BY <1>1, SpecPayments, PTL

\* No RORK is lost or created by any transaction, over any finite set of vaults.
THEOREM NoRorkLost == Spec => []RorkConserved
<1>1. PaymentsInv => RorkConserved
    BY DEF PaymentsInv, SumsKnown
<1> QED
    BY <1>1, SpecPayments, PTL

\* A failed transaction costs every vault exactly the fee that was taken from it.
THEOREM FailuresCostFees == Spec => []FailureCostsOnlyFees
<1>1. PaymentsInv => FailureCostsOnlyFees
    BY DEF PaymentsInv, DistributionKnown
<1> QED
    BY <1>1, SpecPayments, PTL
=============================================================================
