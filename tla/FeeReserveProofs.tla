-------------------------- MODULE FeeReserveProofs --------------------------
(***************************************************************************)
(* Proofs about FeeReserve, for any vaults, prices, tips, loan and limits: *)
(* the books of the reserve and the locked fees.                           *)
(***************************************************************************)
EXTENDS FeeReserve, TLAPS

\* The leaves that need arithmetic or sequences name the backend they need.
USE Zenon

(***************************************************************************)
(* The inductive invariant: the reserve and the locked fees.               *)
(***************************************************************************)

\* The loan, the deferred costs and the result.  Only a repayment that charged the
\* deferred costs brings the debt to zero, which is why a commit may look at the debt only.
LoanKnown ==
    /\ phase = "booting" => owed > 0 /\ execC = 0
    /\ owed = 0 => execD = 0 /\ archD = 0
    /\ phase = "aborted" => abortWhenRepaid /\ owed = 0
    /\ phase = "paying" => owed = 0
    /\ result = "none" <=> phase \notin {"paying", "done"}
    /\ phase = "paying" => result \in {"CommitSuccess", "CommitFailure"}
    /\ result \in {"CommitSuccess", "CommitFailure", "Abort"} => owed = 0
    /\ result = "Abort" => abortWhenRepaid
    /\ abortWhenRepaid => result # "CommitSuccess"

ReserveInv == ReserveBalanced /\ LoanKnown

\* the unconditional fees among the first k locked fees
SumUpTo(k) == IF k = 0 THEN 0 ELSE locked[k].sum

LockedVaults == {locked[i].vault : i \in 1..Len(locked)}

\* A vault is locked at most once, and what is force-written is what the vault had less
\* the fee.
LocksForced ==
    /\ \A i, j \in 1..Len(locked) : locked[i].vault = locked[j].vault => i = j
    /\ \A i \in 1..Len(locked) :
           locked[i].sum = SumUpTo(i - 1) + Credit(locked[i].amount, locked[i].contingent)
    /\ LockedVaults \subseteq touched
    /\ \A i \in 1..Len(locked) : /\ forced[locked[i].vault] \in Nat
                                 /\ forced[locked[i].vault] = base[locked[i].vault] - locked[i].amount
    /\ \A v \in Vaults \ LockedVaults : forced[v] = -1

\* A vault that is not touched is as it was.
UntouchedKept == \A v \in Vaults \ touched : vault[v] = base[v]

\* The fee that is being locked comes from a vault that the transaction had not changed.
TakingKnown ==
    /\ phase = "locking" =>
           /\ taking # <<>>
           /\ taking[1].vault \in touched \ LockedVaults
           /\ vault[taking[1].vault] = base[taking[1].vault] - taking[1].amount
    /\ phase # "locking" /\ taking # <<>> => phase \in {"failed", "paying", "done"}

LocksKnown == LocksForced /\ UntouchedKept /\ TakingKnown

\* The locked fees that are still to be processed.
LeftKnown == left <= Len(locked)

IInv == ReserveInv /\ LocksKnown /\ LeftKnown

-----------------------------------------------------------------------------
(***************************************************************************)
(* The operations of the reserve.                                          *)
(***************************************************************************)

\* A product of naturals is a natural.
LEMMA NatTimes == ASSUME NEW a \in Nat, NEW b \in Nat PROVE a * b \in Nat
    BY Z3

\* The prices and limits.
LEMMA PriceTypes ==
    /\ EffExec \in Nat \ {0} /\ EffFin \in Nat /\ EffExec * ExecLoan \in Nat \ {0}
    /\ EffExec = ExecPrice + ExecTip /\ EffFin = FinPrice + FinTip
    /\ ExecPrice \in Nat /\ ExecTip \in Nat /\ FinPrice \in Nat /\ FinTip \in Nat
    /\ StoragePrice \in [StorageTypes -> Nat] /\ StoragePrice["Archive"] \in Nat
    /\ ExecLoan \in Nat \ {0} /\ ExecLimit \in Nat /\ FinLimit \in Nat
    /\ MaxUnits \in Nat /\ MaxSize \in Nat /\ Amounts \subseteq Nat \ {0}
<1>1. EffExec \in Nat \ {0} /\ EffFin \in Nat /\ ExecLoan \in Nat \ {0}
    BY FeeAssumption, SMT DEF EffExec, EffFin
<1>2. EffExec * ExecLoan \in Nat \ {0}
    BY <1>1, Z3
<1> QED
    BY <1>1, <1>2, FeeAssumption DEF EffExec, EffFin, StorageTypes

\* repay_all keeps the books, respects the limit, and brings the debt to zero only together
\* with the deferred costs.
LEMMA RepayAllFacts ==
    ASSUME TypeOK, NEW b \in Nat, NEW ec \in Nat, ec <= ExecLimit, NEW R, R = RepayAll(b, ec)
    PROVE  /\ R.balance \in Nat /\ R.owed \in Nat /\ R.execC \in Nat /\ R.execD \in Nat
           /\ R.storC \in Nat /\ R.archD \in Nat
           /\ R.outcome \in {"Ok", "Abort", "Error"}
           /\ R.execC <= ExecLimit
           /\ R.balance + EffExec * R.execC + R.storC + owed
                = b + EffExec * ec + storC + R.owed
           /\ R.outcome \in {"Ok", "Abort"} => R.owed = 0 /\ R.execD = 0 /\ R.archD = 0
           /\ R.outcome = "Abort" => abortWhenRepaid
           /\ R.outcome = "Ok" => ~abortWhenRepaid
           /\ R.owed # owed => R.execD = 0 /\ R.archD = 0
           /\ execD = 0 => R.execD = 0
           /\ archD = 0 => R.archD = 0
           /\ R.owed <= owed
<1> DEFINE execOk == CanConsumeExecution(b, ec, execD)
           b1 == IF execOk THEN b - EffExec * execD ELSE b
           archCost == StoragePrice["Archive"] * archD
           archOk == execOk /\ archCost <= b1
           b2 == IF archOk THEN b1 - archCost ELSE b1
           paid == LoanPaid(archOk, b2)
<1>0. /\ balance \in Nat /\ owed \in Nat /\ execC \in Nat /\ execD \in Nat
      /\ storC \in Nat /\ archD \in Nat
    BY DEF TypeOK
<1>1. /\ R.balance = b2 - paid /\ R.owed = owed - paid
      /\ R.execC = IF execOk THEN ec + execD ELSE ec
      /\ R.execD = IF execOk THEN 0 ELSE execD
      /\ R.storC = IF archOk THEN storC + archCost ELSE storC
      /\ R.archD = IF archOk THEN 0 ELSE archD
      /\ R.outcome = IF ~archOk \/ paid # owed THEN "Error"
                     ELSE IF abortWhenRepaid THEN "Abort" ELSE "Ok"
    BY DEF RepayAll
<1>2. /\ EffExec * execD \in Nat /\ archCost \in Nat
      /\ EffExec * ec \in Nat
      /\ EffExec * (ec + execD) = EffExec * ec + EffExec * execD
    BY <1>0, PriceTypes, Z3
<1>3. /\ execOk => ec + execD <= ExecLimit /\ EffExec * execD <= b
      /\ execOk \in BOOLEAN
    BY DEF CanConsumeExecution
<1> HIDE DEF execOk, archCost
<1>4. b1 \in Nat /\ b1 = b - (IF execOk THEN EffExec * execD ELSE 0)
    BY <1>2, <1>3, SMT
<1> HIDE DEF b1
<1>5. b2 \in Nat /\ b2 = b1 - (IF archOk THEN archCost ELSE 0)
    BY <1>2, <1>4, SMT
<1>6. paid \in Nat /\ paid <= b2 /\ paid <= owed /\ (~archOk => paid = 0)
    BY <1>0, <1>5, SMT DEF LoanPaid, Min
<1> HIDE DEF b2, paid, archOk
<1>7. archOk => execOk
    BY DEF archOk
<1>8. /\ R.balance \in Nat /\ R.owed \in Nat /\ R.execC \in Nat /\ R.execD \in Nat
      /\ R.storC \in Nat /\ R.archD \in Nat
    BY <1>0, <1>1, <1>2, <1>5, <1>6, SMT
<1>9. R.outcome \in {"Ok", "Abort", "Error"} /\ R.execC <= ExecLimit
    BY <1>0, <1>1, <1>3
<1>10. EffExec * R.execC = EffExec * ec + (IF execOk THEN EffExec * execD ELSE 0)
    BY <1>0, <1>1, <1>2, SMT
<1>11. R.balance + EffExec * R.execC + R.storC + owed = b + EffExec * ec + storC + R.owed
    <2>1. R.balance + paid + R.storC = b1 + storC
        <3>1. CASE archOk
            BY <1>0, <1>1, <1>2, <1>4, <1>5, <1>6, <3>1, SMT
        <3>2. CASE ~archOk
            BY <1>0, <1>1, <1>4, <1>5, <1>6, <3>2, SMT
        <3> QED
            BY <3>1, <3>2
    <2>2. b1 + EffExec * R.execC = b + EffExec * ec
        BY <1>2, <1>4, <1>10, SMT
    <2>3. R.owed + paid = owed
        BY <1>0, <1>1, <1>6, SMT
    <2>4. EffExec * R.execC \in Nat
        BY <1>2, <1>10, SMT
    <2> QED
        BY <1>0, <1>2, <1>4, <1>6, <1>8, <2>1, <2>2, <2>3, <2>4, SMT
<1>12. R.outcome \in {"Ok", "Abort"} => R.owed = 0 /\ R.execD = 0 /\ R.archD = 0
    BY <1>0, <1>1, <1>7, SMT
<1>13. (R.outcome = "Abort" => abortWhenRepaid) /\ (R.outcome = "Ok" => ~abortWhenRepaid)
    BY <1>1
<1>14. R.owed # owed => R.execD = 0 /\ R.archD = 0
    BY <1>0, <1>1, <1>6, <1>7, SMT
<1>15. (execD = 0 => R.execD = 0) /\ (archD = 0 => R.archD = 0) /\ R.owed <= owed
    BY <1>0, <1>1, <1>6, SMT
<1> QED
    BY <1>8, <1>9, <1>11, <1>12, <1>13, <1>14, <1>15

\* So does consume_execution, which lets no execution go on past the loan with a debt.
LEMMA ConsumeExecutionFacts ==
    ASSUME TypeOK, LoanKnown, NEW units \in Nat, CanConsumeExecution(balance, execC, units),
           NEW R, R = ConsumeExecution(units)
    PROVE  /\ R.balance \in Nat /\ R.owed \in Nat /\ R.execC \in Nat /\ R.execD \in Nat
           /\ R.storC \in Nat /\ R.archD \in Nat
           /\ R.outcome \in {"Ok", "Abort", "Error"}
           /\ R.execC <= ExecLimit
           /\ R.balance + EffExec * R.execC + R.storC + owed
                = balance + EffExec * execC + storC + R.owed
           /\ R.outcome = "Ok" /\ R.execC >= ExecLoan => R.owed = 0
           /\ R.outcome = "Abort" => abortWhenRepaid /\ R.owed = 0
           /\ R.owed = 0 => R.execD = 0 /\ R.archD = 0
<1> DEFINE b == balance - EffExec * units
           ec == execC + units
<1>0. /\ balance \in Nat /\ owed \in Nat /\ execC \in Nat /\ execD \in Nat
      /\ storC \in Nat /\ archD \in Nat
    BY DEF TypeOK
<1>1. EffExec * units \in Nat /\ EffExec * ec = EffExec * execC + EffExec * units
      /\ EffExec * execC \in Nat
    BY <1>0, PriceTypes, Z3
<1>2. b \in Nat /\ ec \in Nat /\ ec <= ExecLimit /\ b + EffExec * ec = balance + EffExec * execC
    BY <1>0, <1>1, SMT DEF CanConsumeExecution
<1>3. ConsumedExecution(units).balance = b /\ ConsumedExecution(units).execC = ec
    BY DEF ConsumedExecution
<1>4. CASE RepayDue(ec)
    <2>1. R = RepayAll(b, ec)
        BY <1>3, <1>4 DEF ConsumeExecution
    <2>2. owed # 0
        BY <1>4 DEF RepayDue
    <2> HIDE DEF b, ec
    <2>3. /\ R.balance \in Nat /\ R.owed \in Nat /\ R.execC \in Nat /\ R.execD \in Nat
          /\ R.storC \in Nat /\ R.archD \in Nat
          /\ R.outcome \in {"Ok", "Abort", "Error"}
          /\ R.execC <= ExecLimit
          /\ R.balance + EffExec * R.execC + R.storC + owed
               = b + EffExec * ec + storC + R.owed
          /\ R.outcome \in {"Ok", "Abort"} => R.owed = 0 /\ R.execD = 0 /\ R.archD = 0
          /\ R.outcome = "Abort" => abortWhenRepaid
          /\ R.owed # owed => R.execD = 0 /\ R.archD = 0
        BY <1>2, <2>1, RepayAllFacts, SMT
    <2> QED
        BY <1>2, <2>2, <2>3
<1>5. CASE ~RepayDue(ec)
    <2>1. R = [balance |-> b, owed |-> owed, execC |-> ec, execD |-> execD,
               storC |-> storC, archD |-> archD, outcome |-> "Ok"]
        BY <1>3, <1>5 DEF ConsumeExecution
    <2>2. owed = 0 \/ ec < ExecLoan
        BY <1>2, <1>5, PriceTypes, SMT DEF RepayDue
    <2> HIDE DEF b, ec
    <2> QED
        BY <1>0, <1>1, <1>2, <2>1, <2>2, PriceTypes, SMT DEF LoanKnown
<1> QED
    BY <1>4, <1>5

-----------------------------------------------------------------------------
(***************************************************************************)
(* The invariant is inductive.                                             *)
(***************************************************************************)

\* The fee that an open handle has taken.
LEMMA TakingType ==
    ASSUME IInv, phase = "locking"
    PROVE  /\ taking[1] \in [vault : Vaults, amount : Amounts, contingent : BOOLEAN]
           /\ taking[1].vault \in Vaults /\ taking[1].amount \in Amounts
           /\ taking[1].amount \in Nat
<1>1. taking \in {<<t>> : t \in [vault : Vaults, amount : Amounts, contingent : BOOLEAN]}
    BY DEF IInv, LocksKnown, TakingKnown, ReserveInv, ReserveBalanced, TypeOK
<1>2. PICK t \in [vault : Vaults, amount : Amounts, contingent : BOOLEAN] : taking = <<t>>
    BY <1>1
<1>3. taking[1] = t
    BY <1>2
<1> QED
    BY <1>3, PriceTypes

\* The locked fees.
LEMMA LockedType ==
    ASSUME TypeOK, NEW i \in 1..Len(locked)
    PROVE  /\ locked[i].vault \in Vaults /\ locked[i].amount \in Nat /\ locked[i].sum \in Nat
           /\ locked[i].contingent \in BOOLEAN
<1> DEFINE E == [vault : Vaults, amount : Nat, contingent : BOOLEAN, sum : Nat]
<1>1. locked \in Seq(E)
    BY DEF TypeOK
<1> HIDE DEF E
<1>2. locked[i] \in E
    BY <1>1, SMT
<1> QED
    BY <1>2 DEF E

\* The types of the reserve.
ReserveTypes ==
    /\ freeCredit \in Nat /\ abortWhenRepaid \in BOOLEAN
    /\ balance \in Nat /\ owed \in Nat /\ execC \in Nat /\ execD \in Nat
    /\ finC \in Nat /\ storC \in Nat /\ archD \in Nat /\ royalty \in Nat
    /\ breakdown \in [Recipients -> Nat]
    /\ locked \in Seq([vault : Vaults, amount : Nat, contingent : BOOLEAN, sum : Nat])

VaultTypes ==
    /\ base \in [Vaults -> Nat] /\ vault \in [Vaults -> Nat]
    /\ touched \subseteq Vaults
    /\ forced \in [Vaults -> Nat \cup {-1}]
    /\ taking \in {<<>>} \cup {<<t>> : t \in [vault : Vaults, amount : Amounts, contingent : BOOLEAN]}

FinalizationTypes ==
    /\ royaltyPaid \in Nat /\ rewards \in Nat /\ burnt \in Nat /\ left \in Nat
    /\ required \in Nat /\ collected \in Nat
    /\ payments \in [Vaults -> Nat]

PhaseTypes ==
    /\ phase \in {"booting", "executing", "locking", "closing", "executed", "failed", "aborted", "paying", "done"}
    /\ result \in {"none", "Reject", "Abort", "CommitSuccess", "CommitFailure"}

\* TypeOK, in parts.
LEMMA TypeParts == TypeOK <=> ReserveTypes /\ VaultTypes /\ FinalizationTypes /\ PhaseTypes
<1>1. TypeOK => ReserveTypes /\ VaultTypes /\ FinalizationTypes /\ PhaseTypes
    BY DEF TypeOK, ReserveTypes, VaultTypes, FinalizationTypes, PhaseTypes
<1>2. ReserveTypes /\ VaultTypes /\ FinalizationTypes /\ PhaseTypes => TypeOK
    BY DEF TypeOK, ReserveTypes, VaultTypes, FinalizationTypes, PhaseTypes
<1> QED
    BY <1>1, <1>2

\* The shares of the fees are natural numbers, and add up to the network fees and the tips.
LEMMA Shares ==
    ASSUME TypeOK
    PROVE  /\ TippingCost \in Nat /\ NetworkFees \in Nat
           /\ ToProposer \in Nat /\ ToValidatorSet \in Nat /\ ToBurn \in Nat
           /\ ToProposer + ToValidatorSet + ToBurn = TippingCost + NetworkFees
           /\ TotalCost = TippingCost + NetworkFees + royalty
           /\ TotalCost = EffExec * execC + EffFin * finC + storC + royalty
           /\ TotalCost \in Nat
<1>0. execC \in Nat /\ finC \in Nat /\ storC \in Nat /\ royalty \in Nat
    BY DEF TypeOK
<1>1. /\ ExecTip * execC \in Nat /\ FinTip * finC \in Nat
      /\ ExecPrice * execC \in Nat /\ FinPrice * finC \in Nat
    BY <1>0, PriceTypes, Z3
<1>2. TippingCost \in Nat /\ NetworkFees \in Nat
    BY <1>0, <1>1, SMT DEF TippingCost, NetworkFees
<1>3. /\ (NetworkFees * 25) \div 100 \in Nat
      /\ 2 * ((NetworkFees * 25) \div 100) <= NetworkFees
    BY <1>2, Z3
<1>4. /\ ToProposer \in Nat /\ ToValidatorSet \in Nat /\ ToBurn \in Nat
      /\ ToProposer + ToValidatorSet + ToBurn = TippingCost + NetworkFees
    BY <1>2, <1>3, SMT DEF ToProposer, ToValidatorSet, ToBurn
<1>5. TotalCost = TippingCost + NetworkFees + royalty /\ TotalCost \in Nat
    BY <1>0, <1>2, SMT DEF TotalCost
<1>6. /\ EffExec * execC = ExecPrice * execC + ExecTip * execC
      /\ EffFin * finC = FinPrice * finC + FinTip * finC
    BY <1>0, PriceTypes, Z3
<1>7. TotalCost = EffExec * execC + EffFin * finC + storC + royalty
    BY <1>0, <1>1, <1>5, <1>6, SMT DEF TippingCost, NetworkFees
<1> QED
    BY <1>2, <1>4, <1>5, <1>7

\* A group of variables that does not change keeps its types.
LEMMA TypesKept ==
    /\ ReserveTypes /\ UNCHANGED reserve => ReserveTypes'
    /\ VaultTypes /\ UNCHANGED vaults => VaultTypes'
    /\ FinalizationTypes /\ UNCHANGED finalization => FinalizationTypes'
    /\ PhaseTypes /\ UNCHANGED <<phase, result>> => PhaseTypes'
    BY DEF ReserveTypes, VaultTypes, FinalizationTypes, PhaseTypes,
           reserve, parameters, vaults, finalization

\* What a call of repay_all or of consume_execution leaves has the types of the reserve.
LEMMA RepaidTypes ==
    ASSUME ReserveTypes, NEW R,
           /\ R.balance \in Nat /\ R.owed \in Nat /\ R.execC \in Nat /\ R.execD \in Nat
           /\ R.storC \in Nat /\ R.archD \in Nat,
           Repaid(R), balance' \in Nat, royalty' \in Nat, breakdown' \in [Recipients -> Nat],
           locked' \in Seq([vault : Vaults, amount : Nat, contingent : BOOLEAN, sum : Nat]),
           UNCHANGED <<parameters, finC>>
    PROVE  ReserveTypes'
    BY DEF ReserveTypes, Repaid, parameters

\* Every step keeps the types; in particular nothing becomes negative.
LEMMA TypeNext == IInv /\ Next => TypeOK'
<1> SUFFICES ASSUME IInv, Next PROVE TypeOK'
    OBVIOUS
<1>0. TypeOK /\ ReserveTypes /\ VaultTypes /\ FinalizationTypes /\ PhaseTypes
    BY TypeParts DEF IInv, ReserveInv, ReserveBalanced
<1>l. LoanKnown
    BY DEF IInv, ReserveInv
<1> SUFFICES ReserveTypes' /\ VaultTypes' /\ FinalizationTypes' /\ PhaseTypes'
    BY TypeParts, PTL
<1>r. ASSUME NEW R, R = RepayAll(balance, execC)
      PROVE  /\ R.balance \in Nat /\ R.owed \in Nat /\ R.execC \in Nat /\ R.execD \in Nat
             /\ R.storC \in Nat /\ R.archD \in Nat
    BY <1>0, <1>r, RepayAllFacts DEF ReserveTypes, IInv, ReserveInv, ReserveBalanced
<1>1. ASSUME NEW units \in Deferred, NEW size \in Deferred, Boot(units, size)
      PROVE  ReserveTypes' /\ VaultTypes' /\ FinalizationTypes' /\ PhaseTypes'
    <2>1. ReserveTypes'
        BY <1>0, <1>1, FeeAssumption DEF Boot, ReserveTypes, parameters
    <2> QED
        BY <1>0, <1>1, <2>1, TypesKept DEF Boot, PhaseTypes
<1>2. ASSUME NEW units \in 1..MaxUnits, NEW v \in Vaults, NEW w \in Vaults,
             NEW amount \in {0} \cup Amounts, Execute(units, v, w, amount)
      PROVE  ReserveTypes' /\ VaultTypes' /\ FinalizationTypes' /\ PhaseTypes'
    <2> DEFINE R == ConsumeExecution(units)
    <2>1. units \in Nat /\ amount \in Nat
        BY PriceTypes, SMT
    <2>2. /\ R.balance \in Nat /\ R.owed \in Nat /\ R.execC \in Nat /\ R.execD \in Nat
          /\ R.storC \in Nat /\ R.archD \in Nat
        BY <1>0, <1>l, <1>2, <2>1, ConsumeExecutionFacts DEF Execute
    <2>3. ReserveTypes'
        <3> HIDE DEF R
        <3>1. /\ Repaid(R) /\ balance' = R.balance
              /\ UNCHANGED <<parameters, finC, royalty, breakdown, locked>>
            BY <1>2 DEF Execute, R
        <3> QED
            BY <1>0, <2>2, <3>1, RepaidTypes DEF ReserveTypes
    <2>4. VaultTypes'
        <3>1. Moved(v, w, amount) \in [Vaults -> Nat]
            <4>1. v # w /\ amount <= vault[v]
                BY <1>2 DEF Execute
            <4>2. vault \in [Vaults -> Nat]
                BY <1>0 DEF VaultTypes
            <4> QED
                BY <2>1, <4>1, <4>2, SMT DEF Moved
        <3>2. vault' \in [Vaults -> Nat] /\ touched' \subseteq Vaults
            BY <1>0, <1>2, <3>1 DEF VaultTypes, Execute
        <3> QED
            BY <1>0, <1>2, <3>2 DEF VaultTypes, Execute
    <2>5. PhaseTypes'
        BY <1>0, <1>2 DEF PhaseTypes, Execute, PhaseAfter
    <2> QED
        BY <1>0, <1>2, <2>3, <2>4, <2>5, TypesKept DEF Execute
<1>3. ASSUME NEW r \in Recipients, NEW amount \in 1..MaxUnits, ConsumeRoyalty(r, amount)
      PROVE  ReserveTypes' /\ VaultTypes' /\ FinalizationTypes' /\ PhaseTypes'
    <2>1. ReserveTypes'
        BY <1>0, <1>3, PriceTypes, SMT DEF ConsumeRoyalty, ReserveTypes, parameters
    <2> QED
        BY <1>0, <1>3, <2>1, TypesKept DEF ConsumeRoyalty
<1>4. ASSUME NEW v \in Vaults, NEW amount \in Amounts, NEW contingent \in BOOLEAN,
             TakeForLock(v, amount, contingent)
      PROVE  ReserveTypes' /\ VaultTypes' /\ FinalizationTypes' /\ PhaseTypes'
    <2>1. vault' \in [Vaults -> Nat]
        BY <1>0, <1>4, PriceTypes, SMT DEF TakeForLock, VaultTypes
    <2>2. VaultTypes'
        BY <1>0, <1>4, <2>1 DEF TakeForLock, VaultTypes
    <2>3. PhaseTypes'
        BY <1>0, <1>4 DEF TakeForLock, PhaseTypes
    <2> QED
        BY <1>0, <1>4, <2>2, <2>3, TypesKept DEF TakeForLock
<1>5. ASSUME NEW units \in 1..MaxUnits, LockFee(units)
      PROVE  ReserveTypes' /\ VaultTypes' /\ FinalizationTypes' /\ PhaseTypes'
    <2> DEFINE R == ConsumeExecution(units)
               t == taking[1]
    <2>1. units \in Nat
        BY PriceTypes, SMT
    <2>2. /\ R.balance \in Nat /\ R.owed \in Nat /\ R.execC \in Nat /\ R.execD \in Nat
          /\ R.storC \in Nat /\ R.archD \in Nat
        BY <1>0, <1>l, <1>5, <2>1, ConsumeExecutionFacts DEF LockFee
    <2>3. t \in [vault : Vaults, amount : Amounts, contingent : BOOLEAN] /\ t.amount \in Nat
        BY <1>5, TakingType DEF LockFee
    <2>4. NonContingent \in Nat
        BY <1>0, LockedType, SMT DEF NonContingent, ReserveTypes
    <2> HIDE DEF R, t
    <2>5. /\ Repaid(R) /\ phase' = PhaseAfter(R) /\ taking' = <<>>
          /\ \/ /\ forced' = [forced EXCEPT ![t.vault] = vault[t.vault]]
                /\ balance' = R.balance + Credit(t.amount, t.contingent)
                /\ locked' = Append(locked,
                       [vault |-> t.vault, amount |-> t.amount, contingent |-> t.contingent,
                        sum |-> NonContingent + IF t.contingent THEN 0 ELSE t.amount])
             \/ balance' = R.balance /\ UNCHANGED <<forced, locked>>
          /\ UNCHANGED <<parameters, finC, royalty, breakdown, base, vault, touched, finalization, result>>
        BY <1>5 DEF LockFee, R, t
    <2>6. locked' \in Seq([vault : Vaults, amount : Nat, contingent : BOOLEAN, sum : Nat])
        <3> DEFINE e == [vault |-> t.vault, amount |-> t.amount, contingent |-> t.contingent,
                         sum |-> NonContingent + IF t.contingent THEN 0 ELSE t.amount]
                   E == [vault : Vaults, amount : Nat, contingent : BOOLEAN, sum : Nat]
        <3>1. e \in E
            BY <2>3, <2>4, SMT
        <3>2. locked \in Seq(E)
            BY <1>0 DEF ReserveTypes
        <3>3. locked' = Append(locked, e) \/ locked' = locked
            BY <2>5
        <3> HIDE DEF e, E
        <3>4. locked' \in Seq(E)
            BY <3>1, <3>2, <3>3, SMT
        <3> QED
            BY <3>4 DEF E
    <2>7. ReserveTypes'
        <3>1. balance' \in Nat
            BY <2>2, <2>3, <2>5, SMT DEF Credit
        <3>2. royalty' \in Nat /\ breakdown' \in [Recipients -> Nat] /\ UNCHANGED <<parameters, finC>>
            BY <1>0, <2>5 DEF ReserveTypes
        <3>3. Repaid(R)
            BY <2>5
        <3> QED
            BY <1>0, <2>2, <2>6, <3>1, <3>2, <3>3, RepaidTypes
    <2>8. VaultTypes'
        BY <1>0, <2>3, <2>5 DEF VaultTypes
    <2>9. PhaseTypes'
        BY <1>0, <2>5 DEF PhaseTypes, PhaseAfter
    <2> QED
        BY <1>0, <2>5, <2>7, <2>8, <2>9, TypesKept
<1>6. CASE ExecutionFails
    BY <1>0, <1>6, TypesKept DEF ExecutionFails, PhaseTypes
<1>7. CASE ExecutionReturns
    BY <1>0, <1>7, TypesKept DEF ExecutionReturns, PhaseTypes
<1>8. ASSUME NEW units \in 1..MaxUnits, ConsumeFinalization(units)
      PROVE  ReserveTypes' /\ VaultTypes' /\ FinalizationTypes' /\ PhaseTypes'
    <2>1. units \in Nat /\ EffFin * units \in Nat
        BY PriceTypes, Z3
    <2>2. ReserveTypes'
        BY <1>0, <1>8, <2>1, SMT DEF ConsumeFinalization, ReserveTypes, parameters
    <2> QED
        BY <1>0, <1>8, <2>2, TypesKept DEF ConsumeFinalization
<1>9. ASSUME NEW t \in StorageTypes, NEW size \in 1..MaxSize, ConsumeStorage(t, size)
      PROVE  ReserveTypes' /\ VaultTypes' /\ FinalizationTypes' /\ PhaseTypes'
    <2>1. StoragePrice[t] \in Nat /\ size \in Nat
        BY PriceTypes, SMT
    <2>2. StoragePrice[t] * size \in Nat
        BY <2>1, Z3
    <2>3. ReserveTypes'
        BY <1>0, <1>9, <2>2, SMT DEF ConsumeStorage, ReserveTypes, parameters
    <2> QED
        BY <1>0, <1>9, <2>3, TypesKept DEF ConsumeStorage
<1>10. CASE ExecutionSucceeds
    BY <1>0, <1>10, TypesKept DEF ExecutionSucceeds, PhaseTypes
<1>11. CASE RejectOrAbort
    <2>1. ReserveTypes'
        BY <1>0, <1>r, <1>11, RepaidTypes DEF RejectOrAbort, ReserveTypes
    <2>2. VaultTypes'
        BY <1>0, <1>11 DEF RejectOrAbort, VaultTypes
    <2>3. PhaseTypes'
        BY <1>11 DEF RejectOrAbort, PhaseTypes
    <2> QED
        BY <1>0, <1>11, <2>1, <2>2, <2>3, TypesKept DEF RejectOrAbort
<1>12. CASE CommitSuccess
    <2>1. ReserveTypes'
        BY <1>0, <1>r, <1>12, RepaidTypes DEF CommitSuccess, ReserveTypes
    <2>2. TotalCost' \in Nat
        <3>1. execC' \in Nat /\ finC' \in Nat /\ storC' \in Nat /\ royalty' \in Nat
            BY <2>1 DEF ReserveTypes
        <3>2. /\ ExecTip * execC' \in Nat /\ FinTip * finC' \in Nat
              /\ ExecPrice * execC' \in Nat /\ FinPrice * finC' \in Nat
            BY <3>1, PriceTypes, NatTimes
        <3> QED
            BY <3>1, <3>2, SMT DEF TotalCost, TippingCost, NetworkFees
    <2>3. FinalizationTypes'
        BY <1>0, <1>12, <2>2, SMT DEF CommitSuccess, FinalizationTypes, ReserveTypes
    <2>4. PhaseTypes'
        BY <1>12 DEF CommitSuccess, PhaseTypes
    <2> QED
        BY <1>0, <1>12, <2>1, <2>3, <2>4, TypesKept DEF CommitSuccess
<1>13. CASE CommitFailure
    <2>1. ReserveTypes'
        <3> DEFINE R == RepayAll(balance, execC)
        <3>1. /\ R.balance \in Nat /\ R.owed \in Nat /\ R.execC \in Nat /\ R.execD \in Nat
              /\ R.storC \in Nat /\ R.archD \in Nat
            BY <1>r
        <3> HIDE DEF R
        <3>2. /\ Repaid(R) /\ balance' = R.balance + royalty /\ royalty' = 0
              /\ breakdown' = [r \in Recipients |-> 0]
              /\ UNCHANGED <<parameters, finC, locked>>
            BY <1>13 DEF CommitFailure, R
        <3>3. balance' \in Nat
            BY <1>0, <3>1, <3>2, SMT DEF ReserveTypes
        <3>4. locked' \in Seq([vault : Vaults, amount : Nat, contingent : BOOLEAN, sum : Nat])
            BY <1>0, <3>2 DEF ReserveTypes
        <3> QED
            BY <1>0, <3>1, <3>2, <3>3, <3>4, RepaidTypes
    <2>2. TotalCost' \in Nat
        <3>1. execC' \in Nat /\ finC' \in Nat /\ storC' \in Nat /\ royalty' \in Nat
            BY <2>1 DEF ReserveTypes
        <3>2. /\ ExecTip * execC' \in Nat /\ FinTip * finC' \in Nat
              /\ ExecPrice * execC' \in Nat /\ FinPrice * finC' \in Nat
            BY <3>1, PriceTypes, NatTimes
        <3> QED
            BY <3>1, <3>2, SMT DEF TotalCost, TippingCost, NetworkFees
    <2>3. FinalizationTypes'
        BY <1>0, <1>13, <2>2, SMT DEF CommitFailure, FinalizationTypes, ReserveTypes
    <2>4. PhaseTypes'
        BY <1>13 DEF CommitFailure, PhaseTypes
    <2>5. VaultTypes'
        BY <1>0, <1>13 DEF CommitFailure, VaultTypes
    <2> QED
        BY <1>0, <1>13, <2>1, <2>3, <2>4, <2>5 DEF CommitFailure
<1>14. CASE TakeFee
    <2> DEFINE l == locked[left]
    <2>1. left \in 1..Len(locked)
        BY <1>0, <1>14, SMT DEF TakeFee, FinalizationTypes, IInv, LeftKnown
    <2>2. l.vault \in Vaults /\ l.amount \in Nat
        BY <1>0, <2>1, LockedType
    <2>3. Taken(l) \in Nat /\ Taken(l) <= l.amount /\ Taken(l) <= required
        BY <1>0, <2>2, SMT DEF Taken, Min, FinalizationTypes
    <2> HIDE DEF l
    <2>4. /\ collected' = collected + Taken(l)
          /\ required' = required - Taken(l)
          /\ vault' = [vault EXCEPT ![l.vault] = @ + (l.amount - Taken(l))]
          /\ payments' = [payments EXCEPT ![l.vault] = @ + Taken(l)]
          /\ left' = left - 1
          /\ UNCHANGED <<reserve, base, touched, forced, taking, royaltyPaid, rewards, burnt, phase, result>>
        BY <1>14 DEF TakeFee, Refund, l
    <2>5. VaultTypes'
        BY <1>0, <2>2, <2>3, <2>4, SMT DEF VaultTypes
    <2>6. FinalizationTypes'
        BY <1>0, <2>1, <2>2, <2>3, <2>4, SMTT(20) DEF FinalizationTypes
    <2> QED
        BY <1>0, <2>4, <2>5, <2>6, TypesKept
<1>15. CASE Distribute
    <2>1. Min(freeCredit, required) \in Nat /\ Min(freeCredit, required) <= required
        BY <1>0, SMT DEF Min, FinalizationTypes, ReserveTypes
    <2>2. FinalizationTypes'
        BY <1>0, <1>15, <2>1, Shares, SMT DEF Distribute, FinalizationTypes
    <2>3. PhaseTypes'
        BY <1>0, <1>15 DEF Distribute, PhaseTypes
    <2> QED
        BY <1>0, <1>15, <2>2, <2>3, TypesKept DEF Distribute
<1> QED
    BY <1>1, <1>2, <1>3, <1>4, <1>5, <1>6, <1>7, <1>8, <1>9, <1>10, <1>11, <1>12, <1>13, <1>14,
       <1>15 DEF Next

\* the equation of ReserveBalanced
Books ==
    balance + EffExec * execC + EffFin * finC + storC + royalty
      = freeCredit + owed + NonContingent

\* the bounds of ReserveBalanced
Limits ==
    /\ phase \in {"executing", "locking"} /\ execC >= ExecLoan => owed = 0
    /\ execC <= ExecLimit
    /\ finC <= FinLimit

\* The products in the books are naturals.
LEMMA BookTypes ==
    ASSUME TypeOK
    PROVE  /\ EffExec * execC \in Nat /\ EffFin * finC \in Nat /\ NonContingent \in Nat
           /\ balance \in Nat /\ owed \in Nat /\ execC \in Nat /\ finC \in Nat /\ storC \in Nat
           /\ execD \in Nat /\ archD \in Nat /\ royalty \in Nat /\ freeCredit \in Nat
<1>1. /\ balance \in Nat /\ owed \in Nat /\ execC \in Nat /\ finC \in Nat /\ storC \in Nat
      /\ execD \in Nat /\ archD \in Nat /\ royalty \in Nat /\ freeCredit \in Nat
    BY DEF TypeOK
<1>2. EffExec * execC \in Nat /\ EffFin * finC \in Nat
    BY <1>1, PriceTypes, NatTimes
<1>3. NonContingent \in Nat
    <2>1. locked \in Seq([vault : Vaults, amount : Nat, contingent : BOOLEAN, sum : Nat])
        BY DEF TypeOK
    <2>2. locked # <<>> => Len(locked) \in 1..Len(locked)
        BY <2>1, SMT
    <2> QED
        BY <2>2, LockedType DEF NonContingent
<1> QED
    BY <1>1, <1>2, <1>3

\* Repaying or charging, and crediting c, keeps the books.
LEMMA BooksKept ==
    ASSUME TypeOK, Books, NEW R, NEW c \in Nat,
           /\ R.balance \in Nat /\ R.owed \in Nat /\ R.execC \in Nat /\ R.storC \in Nat
           /\ EffExec * R.execC \in Nat
           /\ R.balance + EffExec * R.execC + R.storC + owed
                = balance + EffExec * execC + storC + R.owed,
           Repaid(R), NonContingent' = NonContingent + c, finC' = finC, freeCredit' = freeCredit,
           \/ balance' = R.balance + c /\ royalty' = royalty
           \/ balance' = R.balance + c + royalty /\ royalty' = 0
    PROVE  Books'
<1> DEFINE X == EffExec * R.execC
           Y == EffExec * execC
           Z == EffFin * finC
           N == NonContingent
<1>1. /\ Y \in Nat /\ Z \in Nat /\ N \in Nat
      /\ balance \in Nat /\ owed \in Nat /\ storC \in Nat
      /\ royalty \in Nat /\ freeCredit \in Nat
    BY BookTypes
<1>2. balance + Y + Z + storC + royalty = freeCredit + owed + N
    BY DEF Books
<1>3. R.balance + X + R.storC + owed = balance + Y + storC + R.owed /\ X \in Nat
    OBVIOUS
<1>4. Books' <=> balance' + X + Z + R.storC + royalty' = freeCredit + R.owed + (N + c)
    BY DEF Books, Repaid, EffExec, EffFin
<1> HIDE DEF X, Y, Z, N
<1>5. balance' + X + Z + R.storC + royalty' = freeCredit + R.owed + (N + c)
    BY <1>1, <1>2, <1>3, SMT
<1> QED
    BY <1>4, <1>5

\* Every step keeps the books, the limits and what is known of the loan and the result.
LEMMA ReserveNext == IInv /\ Next => Books' /\ Limits' /\ LoanKnown'
<1> SUFFICES ASSUME IInv, Next PROVE Books' /\ Limits' /\ LoanKnown'
    OBVIOUS
<1>0. TypeOK /\ Books /\ Limits /\ LoanKnown
    BY DEF IInv, ReserveInv, ReserveBalanced, Books, Limits
<1>a. UNCHANGED locked => NonContingent' = NonContingent
    BY DEF NonContingent
<1>t. /\ EffExec * execC \in Nat /\ EffFin * finC \in Nat /\ NonContingent \in Nat
      /\ balance \in Nat /\ owed \in Nat /\ execC \in Nat /\ finC \in Nat /\ storC \in Nat
      /\ execD \in Nat /\ archD \in Nat /\ royalty \in Nat /\ freeCredit \in Nat
    BY <1>0, BookTypes
<1>r. ASSUME NEW R, R = RepayAll(balance, execC)
      PROVE  /\ R.balance \in Nat /\ R.owed \in Nat /\ R.execC \in Nat /\ R.execD \in Nat
             /\ R.storC \in Nat /\ R.archD \in Nat /\ EffExec * R.execC \in Nat
             /\ R.execC <= ExecLimit
             /\ R.balance + EffExec * R.execC + R.storC + owed
                  = balance + EffExec * execC + storC + R.owed
             /\ R.outcome \in {"Ok", "Abort"} => R.owed = 0
             /\ R.outcome = "Abort" => abortWhenRepaid
             /\ R.outcome = "Ok" => ~abortWhenRepaid
             /\ R.owed = 0 => R.execD = 0 /\ R.archD = 0
             /\ owed = 0 => R.owed = 0
    <2>1. execC <= ExecLimit
        BY <1>0 DEF Limits
    <2>2. /\ R.balance \in Nat /\ R.owed \in Nat /\ R.execC \in Nat /\ R.execD \in Nat
          /\ R.storC \in Nat /\ R.archD \in Nat
          /\ R.execC <= ExecLimit
          /\ R.balance + EffExec * R.execC + R.storC + owed
               = balance + EffExec * execC + storC + R.owed
          /\ R.outcome \in {"Ok", "Abort"} => R.owed = 0
          /\ R.outcome = "Abort" => abortWhenRepaid
          /\ R.outcome = "Ok" => ~abortWhenRepaid
          /\ R.owed # owed => R.execD = 0 /\ R.archD = 0
          /\ execD = 0 => R.execD = 0
          /\ archD = 0 => R.archD = 0
          /\ R.owed <= owed
        BY <1>0, <1>t, <1>r, <2>1, RepayAllFacts, SMTT(20)
    <2>3. owed = 0 => R.owed = 0
        BY <1>t, <2>2, SMT
    <2>4. EffExec * R.execC \in Nat
        BY <2>2, PriceTypes, NatTimes
    <2> QED
        BY <1>0, <2>2, <2>3, <2>4 DEF LoanKnown
<1>c. ASSUME NEW units \in 1..MaxUnits, CanConsumeExecution(balance, execC, units),
             NEW R, R = ConsumeExecution(units)
      PROVE  /\ R.balance \in Nat /\ R.owed \in Nat /\ R.execC \in Nat /\ R.storC \in Nat
             /\ EffExec * R.execC \in Nat
             /\ R.outcome \in {"Ok", "Abort", "Error"}
             /\ R.execC <= ExecLimit
             /\ R.balance + EffExec * R.execC + R.storC + owed
                  = balance + EffExec * execC + storC + R.owed
             /\ R.outcome = "Ok" /\ R.execC >= ExecLoan => R.owed = 0
             /\ R.outcome = "Abort" => abortWhenRepaid /\ R.owed = 0
             /\ R.owed = 0 => R.execD = 0 /\ R.archD = 0
    <2>1. units \in Nat
        BY PriceTypes, SMT
    <2>2. /\ R.balance \in Nat /\ R.owed \in Nat /\ R.execC \in Nat /\ R.storC \in Nat
          /\ R.outcome \in {"Ok", "Abort", "Error"}
          /\ R.execC <= ExecLimit
          /\ R.balance + EffExec * R.execC + R.storC + owed
               = balance + EffExec * execC + storC + R.owed
          /\ R.outcome = "Ok" /\ R.execC >= ExecLoan => R.owed = 0
          /\ R.outcome = "Abort" => abortWhenRepaid /\ R.owed = 0
          /\ R.owed = 0 => R.execD = 0 /\ R.archD = 0
        BY <1>0, <1>c, <2>1, ConsumeExecutionFacts
    <2>3. EffExec * R.execC \in Nat
        BY <2>2, PriceTypes, NatTimes
    <2> QED
        BY <2>2, <2>3
<1>1. ASSUME NEW units \in Deferred, NEW size \in Deferred, Boot(units, size)
      PROVE  Books' /\ Limits' /\ LoanKnown'
    BY <1>0, <1>1, <1>a, PriceTypes, SMT DEF Boot, Books, Limits, LoanKnown, parameters
<1>2. ASSUME NEW units \in 1..MaxUnits, NEW v \in Vaults, NEW w \in Vaults,
             NEW amount \in {0} \cup Amounts, Execute(units, v, w, amount)
      PROVE  Books' /\ Limits' /\ LoanKnown'
    <2> DEFINE R == ConsumeExecution(units)
    <2>1. /\ phase = "executing" /\ CanConsumeExecution(balance, execC, units)
          /\ balance' = R.balance /\ Repaid(R) /\ phase' = PhaseAfter(R)
          /\ UNCHANGED <<parameters, finC, royalty, breakdown, locked, result>>
        BY <1>2 DEF Execute
    <2>2. /\ R.balance \in Nat /\ R.owed \in Nat /\ R.execC \in Nat /\ R.storC \in Nat
          /\ EffExec * R.execC \in Nat
          /\ R.outcome \in {"Ok", "Abort", "Error"}
          /\ R.execC <= ExecLimit
          /\ R.balance + EffExec * R.execC + R.storC + owed
               = balance + EffExec * execC + storC + R.owed
          /\ R.outcome = "Ok" /\ R.execC >= ExecLoan => R.owed = 0
          /\ R.outcome = "Abort" => abortWhenRepaid /\ R.owed = 0
          /\ R.owed = 0 => R.execD = 0 /\ R.archD = 0
        BY <1>c, <2>1
    <2> HIDE DEF R
    <2>3. Books'
        <3>1. NonContingent' = NonContingent + 0 /\ balance' = R.balance + 0
            BY <1>a, <1>t, <2>1, <2>2, SMT
        <3> QED
            BY <1>0, <2>1, <2>2, <3>1, BooksKept DEF parameters
    <2>4. Limits'
        BY <1>0, <2>1, <2>2 DEF Limits, Repaid, PhaseAfter
    <2>5. LoanKnown'
        BY <1>0, <2>1, <2>2 DEF LoanKnown, Repaid, PhaseAfter, parameters
    <2> QED
        BY <2>3, <2>4, <2>5
<1>3. ASSUME NEW r \in Recipients, NEW amount \in 1..MaxUnits, ConsumeRoyalty(r, amount)
      PROVE  Books' /\ Limits' /\ LoanKnown'
    BY <1>0, <1>3, <1>a, <1>t, PriceTypes, SMT DEF ConsumeRoyalty, Books, Limits, LoanKnown, parameters
<1>4. ASSUME NEW v \in Vaults, NEW amount \in Amounts, NEW contingent \in BOOLEAN,
             TakeForLock(v, amount, contingent)
      PROVE  Books' /\ Limits' /\ LoanKnown'
    BY <1>0, <1>4, <1>a DEF TakeForLock, Books, Limits, LoanKnown, reserve, parameters
<1>5. ASSUME NEW units \in 1..MaxUnits, LockFee(units)
      PROVE  Books' /\ Limits' /\ LoanKnown'
    <2> DEFINE R == ConsumeExecution(units)
               t == taking[1]
               e == [vault |-> t.vault, amount |-> t.amount, contingent |-> t.contingent,
                     sum |-> NonContingent + IF t.contingent THEN 0 ELSE t.amount]
    <2>1. /\ phase = "locking" /\ CanConsumeExecution(balance, execC, units)
          /\ Repaid(R) /\ phase' = PhaseAfter(R)
          /\ \/ balance' = R.balance + Credit(t.amount, t.contingent) /\ locked' = Append(locked, e)
             \/ balance' = R.balance /\ UNCHANGED locked
          /\ UNCHANGED <<parameters, finC, royalty, breakdown, result>>
        BY <1>5 DEF LockFee
    <2>2. /\ R.balance \in Nat /\ R.owed \in Nat /\ R.execC \in Nat /\ R.storC \in Nat
          /\ EffExec * R.execC \in Nat
          /\ R.outcome \in {"Ok", "Abort", "Error"}
          /\ R.execC <= ExecLimit
          /\ R.balance + EffExec * R.execC + R.storC + owed
               = balance + EffExec * execC + storC + R.owed
          /\ R.outcome = "Ok" /\ R.execC >= ExecLoan => R.owed = 0
          /\ R.outcome = "Abort" => abortWhenRepaid /\ R.owed = 0
          /\ R.owed = 0 => R.execD = 0 /\ R.archD = 0
        BY <1>c, <2>1
    <2>3. t.amount \in Nat
        BY <2>1, TakingType
    <2>4. locked' = Append(locked, e) =>
            NonContingent' = NonContingent + Credit(t.amount, t.contingent)
        <3> SUFFICES ASSUME locked' = Append(locked, e)
                     PROVE  NonContingent' = NonContingent + Credit(t.amount, t.contingent)
            OBVIOUS
        <3>1. locked \in Seq([vault : Vaults, amount : Nat, contingent : BOOLEAN, sum : Nat])
            BY <1>0 DEF TypeOK
        <3>2. locked' # <<>> /\ locked'[Len(locked')] = e
            BY <3>1, SMT
        <3>3. NonContingent' = e.sum
            BY <3>2 DEF NonContingent
        <3> QED
            BY <3>3 DEF Credit
    <2> HIDE DEF R, t, e
    <2>5. Credit(t.amount, t.contingent) \in Nat
        BY <2>3 DEF Credit
    <2>6. Books'
        <3>1. CASE /\ balance' = R.balance + Credit(t.amount, t.contingent)
                   /\ locked' = Append(locked, e)
            BY <1>0, <2>1, <2>2, <2>4, <2>5, <3>1, BooksKept DEF parameters
        <3>2. CASE balance' = R.balance /\ UNCHANGED locked
            <4>1. NonContingent' = NonContingent + 0 /\ balance' = R.balance + 0
                BY <1>a, <1>t, <2>2, <3>2, SMT
            <4> QED
                BY <1>0, <2>1, <2>2, <4>1, BooksKept DEF parameters
        <3> QED
            BY <2>1, <3>1, <3>2
    <2>7. Limits'
        BY <1>0, <2>1, <2>2 DEF Limits, Repaid, PhaseAfter
    <2>8. LoanKnown'
        BY <1>0, <2>1, <2>2 DEF LoanKnown, Repaid, PhaseAfter, parameters
    <2> QED
        BY <2>6, <2>7, <2>8
<1>6. CASE ExecutionFails
    BY <1>0, <1>6, <1>a DEF ExecutionFails, Books, Limits, LoanKnown, reserve, parameters
<1>7. CASE ExecutionReturns
    BY <1>0, <1>7, <1>a DEF ExecutionReturns, Books, Limits, LoanKnown, reserve, parameters
<1>8. ASSUME NEW units \in 1..MaxUnits, ConsumeFinalization(units)
      PROVE  Books' /\ Limits' /\ LoanKnown'
    <2>1. units \in Nat
        BY PriceTypes, SMT
    <2>2. EffFin * units \in Nat /\ EffFin * (finC + units) = EffFin * finC + EffFin * units
        BY <1>t, <2>1, PriceTypes, Z3
    <2>3. Books'
        BY <1>0, <1>8, <1>a, <1>t, <2>2, SMT DEF ConsumeFinalization, Books, parameters
    <2> QED
        BY <1>0, <1>8, <2>3 DEF ConsumeFinalization, Limits, LoanKnown, parameters
<1>9. ASSUME NEW t \in StorageTypes, NEW size \in 1..MaxSize, ConsumeStorage(t, size)
      PROVE  Books' /\ Limits' /\ LoanKnown'
    <2>1. StoragePrice[t] * size \in Nat
        BY PriceTypes, NatTimes, SMT
    <2>2. Books'
        BY <1>0, <1>9, <1>a, <1>t, <2>1, SMT DEF ConsumeStorage, Books, parameters
    <2> QED
        BY <1>0, <1>9, <2>2 DEF ConsumeStorage, Limits, LoanKnown, parameters
<1>10. CASE ExecutionSucceeds
    BY <1>0, <1>10, <1>a DEF ExecutionSucceeds, Books, Limits, LoanKnown, reserve, parameters
<1>11. CASE RejectOrAbort
    <2> DEFINE R == RepayAll(balance, execC)
    <2>1. /\ phase \in {"executed", "failed", "aborted"}
          /\ result' = ResultType(R) /\ result' \in {"Reject", "Abort"}
          /\ balance' = R.balance /\ Repaid(R) /\ phase' = "done"
          /\ UNCHANGED <<parameters, finC, royalty, breakdown, locked>>
        BY <1>11 DEF RejectOrAbort
    <2>2. /\ R.balance \in Nat /\ R.owed \in Nat /\ R.execC \in Nat /\ R.storC \in Nat
          /\ EffExec * R.execC \in Nat /\ R.execC <= ExecLimit
          /\ R.balance + EffExec * R.execC + R.storC + owed
               = balance + EffExec * execC + storC + R.owed
          /\ R.outcome = "Abort" => abortWhenRepaid /\ R.owed = 0
          /\ R.owed = 0 => R.execD = 0 /\ R.archD = 0
          /\ owed = 0 => R.owed = 0
        BY <1>r
    <2> HIDE DEF R
    <2>3. result' = "Abort" => abortWhenRepaid /\ R.owed = 0
        BY <1>0, <2>1, <2>2 DEF ResultType, LoanKnown
    <2>4. Books'
        <3>1. NonContingent' = NonContingent + 0 /\ R.balance = R.balance + 0
            BY <1>a, <1>t, <2>1, <2>2, SMT
        <3> QED
            BY <1>0, <2>1, <2>2, <3>1, BooksKept DEF parameters
    <2>5. Limits'
        BY <1>0, <2>1, <2>2 DEF Limits, Repaid
    <2>6. LoanKnown'
        BY <2>1, <2>2, <2>3 DEF LoanKnown, Repaid, parameters
    <2> QED
        BY <2>4, <2>5, <2>6
<1>12. CASE CommitSuccess
    <2> DEFINE R == RepayAll(balance, execC)
    <2>1. /\ phase \in {"executed", "failed", "aborted"}
          /\ ResultType(R) = "CommitSuccess"
          /\ balance' = R.balance /\ Repaid(R) /\ phase' = "paying" /\ result' = "CommitSuccess"
          /\ UNCHANGED <<parameters, finC, royalty, breakdown, locked>>
        BY <1>12 DEF CommitSuccess
    <2>2. /\ R.balance \in Nat /\ R.owed \in Nat /\ R.execC \in Nat /\ R.storC \in Nat
          /\ EffExec * R.execC \in Nat /\ R.execC <= ExecLimit
          /\ R.balance + EffExec * R.execC + R.storC + owed
               = balance + EffExec * execC + storC + R.owed
          /\ R.outcome = "Ok" => ~abortWhenRepaid /\ R.owed = 0
          /\ R.owed = 0 => R.execD = 0 /\ R.archD = 0
        BY <1>r
    <2> HIDE DEF R
    <2>3. R.outcome = "Ok"
        BY <2>1 DEF ResultType
    <2>4. Books'
        <3>1. NonContingent' = NonContingent + 0 /\ R.balance = R.balance + 0
            BY <1>a, <1>t, <2>1, <2>2, SMT
        <3> QED
            BY <1>0, <2>1, <2>2, <3>1, BooksKept DEF parameters
    <2>5. Limits'
        BY <1>0, <2>1, <2>2 DEF Limits, Repaid
    <2>6. LoanKnown'
        BY <2>1, <2>2, <2>3 DEF LoanKnown, Repaid, parameters
    <2> QED
        BY <2>4, <2>5, <2>6
<1>13. CASE CommitFailure
    <2> DEFINE R == RepayAll(balance, execC)
    <2>1. /\ phase \in {"executed", "failed", "aborted"}
          /\ ResultType(R) = "CommitFailure"
          /\ balance' = R.balance + royalty /\ royalty' = 0
          /\ Repaid(R) /\ phase' = "paying" /\ result' = "CommitFailure"
          /\ UNCHANGED <<parameters, finC, locked>>
        BY <1>13 DEF CommitFailure
    <2>2. /\ R.balance \in Nat /\ R.owed \in Nat /\ R.execC \in Nat /\ R.storC \in Nat
          /\ EffExec * R.execC \in Nat /\ R.execC <= ExecLimit
          /\ R.balance + EffExec * R.execC + R.storC + owed
               = balance + EffExec * execC + storC + R.owed
          /\ R.owed = 0 => R.execD = 0 /\ R.archD = 0
        BY <1>r
    <2> HIDE DEF R
    <2>3. R.owed = 0
        BY <2>1 DEF ResultType
    <2>4. Books'
        <3>1. NonContingent' = NonContingent + 0 /\ R.balance = R.balance + 0
            BY <1>a, <1>t, <2>1, <2>2, SMT
        <3> QED
            BY <1>0, <2>1, <2>2, <3>1, BooksKept DEF parameters
    <2>5. Limits'
        BY <1>0, <2>1, <2>2 DEF Limits, Repaid
    <2>6. LoanKnown'
        BY <2>1, <2>2, <2>3 DEF LoanKnown, Repaid, parameters
    <2> QED
        BY <2>4, <2>5, <2>6
<1>14. CASE TakeFee
    BY <1>0, <1>14, <1>a DEF TakeFee, Books, Limits, LoanKnown, reserve, parameters
<1>15. CASE Distribute
    BY <1>0, <1>15, <1>a DEF Distribute, Books, Limits, LoanKnown, reserve, parameters
<1> QED
    BY <1>1, <1>2, <1>3, <1>4, <1>5, <1>6, <1>7, <1>8, <1>9, <1>10, <1>11, <1>12, <1>13, <1>14,
       <1>15 DEF Next

\* Locks that stay where they are remain known when more vaults are touched.
LEMMA LocksForcedKept ==
    ASSUME LocksForced, UNCHANGED <<locked, forced, base>>, touched \subseteq touched'
    PROVE  LocksForced' /\ LockedVaults' = LockedVaults
<1>1. LockedVaults' = LockedVaults
    BY DEF LockedVaults
<1>2. \A k : SumUpTo(k)' = SumUpTo(k)
    BY DEF SumUpTo
<1> QED
    BY <1>1, <1>2 DEF LocksForced

\* Every step keeps what is known of the locks.
LEMMA LocksNext == IInv /\ Next => LocksKnown'
<1> SUFFICES ASSUME IInv, Next PROVE LocksKnown'
    OBVIOUS
<1>0. TypeOK /\ LocksForced /\ UntouchedKept /\ TakingKnown
    BY DEF IInv, ReserveInv, ReserveBalanced, LocksKnown
<1>v. /\ locked \in Seq([vault : Vaults, amount : Nat, contingent : BOOLEAN, sum : Nat])
      /\ vault \in [Vaults -> Nat] /\ base \in [Vaults -> Nat] /\ touched \subseteq Vaults
      /\ forced \in [Vaults -> Nat \cup {-1}]
    BY <1>0 DEF TypeOK
<1>s. ASSUME UNCHANGED <<locked, forced, base, vault, touched, taking>>,
             phase' # "locking", phase = "locking" => phase' = "failed",
             phase \in {"failed", "paying", "done"} => phase' \in {"failed", "paying", "done"}
      PROVE  LocksKnown'
    <2>1. LocksForced'
        BY <1>0, <1>s, LocksForcedKept
    <2>2. UntouchedKept' /\ TakingKnown'
        BY <1>0, <1>s DEF UntouchedKept, TakingKnown
    <2> QED
        BY <2>1, <2>2 DEF LocksKnown
<1>1. ASSUME NEW units \in Deferred, NEW size \in Deferred, Boot(units, size)
      PROVE  LocksKnown'
    BY <1>1, <1>s DEF Boot, vaults
<1>2. ASSUME NEW units \in 1..MaxUnits, NEW v \in Vaults, NEW w \in Vaults,
             NEW amount \in {0} \cup Amounts, Execute(units, v, w, amount)
      PROVE  LocksKnown'
    <2>1. /\ phase = "executing" /\ phase' \in {"executing", "aborted", "failed"}
          /\ UNCHANGED <<locked, base, forced, taking>>
          /\ \/ vault' = Moved(v, w, amount) /\ touched' = touched \cup {v, w}
             \/ UNCHANGED <<vault, touched>>
        BY <1>2 DEF Execute, PhaseAfter
    <2>2. LocksForced'
        BY <1>0, <2>1, LocksForcedKept
    <2>3. UntouchedKept'
        BY <1>0, <1>v, <2>1 DEF UntouchedKept, Moved
    <2>4. TakingKnown'
        BY <1>0, <2>1 DEF TakingKnown
    <2> QED
        BY <2>2, <2>3, <2>4 DEF LocksKnown
<1>3. ASSUME NEW r \in Recipients, NEW amount \in 1..MaxUnits, ConsumeRoyalty(r, amount)
      PROVE  LocksKnown'
    BY <1>3, <1>s DEF ConsumeRoyalty, vaults
<1>4. ASSUME NEW v \in Vaults, NEW amount \in Amounts, NEW contingent \in BOOLEAN,
             TakeForLock(v, amount, contingent)
      PROVE  LocksKnown'
    <2>1. /\ v \notin touched
          /\ vault' = [vault EXCEPT ![v] = @ - amount]
          /\ touched' = touched \cup {v}
          /\ taking' = <<[vault |-> v, amount |-> amount, contingent |-> contingent]>>
          /\ phase' = "locking"
          /\ UNCHANGED <<locked, base, forced>>
        BY <1>4 DEF TakeForLock, reserve
    <2>2. LocksForced' /\ LockedVaults' = LockedVaults
        BY <1>0, <2>1, LocksForcedKept
    <2>3. UntouchedKept'
        BY <1>0, <1>v, <2>1 DEF UntouchedKept
    <2>4. v \notin LockedVaults
        BY <1>0, <2>1 DEF LocksForced
    <2>5. taking' # <<>> /\ taking'[1].vault = v /\ taking'[1].amount = amount
        BY <2>1
    <2>6. vault'[v] = base'[v] - amount
        BY <1>0, <1>v, <2>1 DEF UntouchedKept
    <2>7. TakingKnown'
        BY <2>1, <2>2, <2>4, <2>5, <2>6 DEF TakingKnown
    <2> QED
        BY <2>2, <2>3, <2>7 DEF LocksKnown
<1>5. ASSUME NEW units \in 1..MaxUnits, LockFee(units)
      PROVE  LocksKnown'
    <2> DEFINE t == taking[1]
               e == [vault |-> t.vault, amount |-> t.amount, contingent |-> t.contingent,
                     sum |-> NonContingent + IF t.contingent THEN 0 ELSE t.amount]
               n == Len(locked)
    <2>1. /\ phase = "locking" /\ phase' \in {"executing", "aborted", "failed"} /\ taking' = <<>>
          /\ \/ /\ forced' = [forced EXCEPT ![t.vault] = vault[t.vault]]
                /\ locked' = Append(locked, e)
             \/ UNCHANGED <<forced, locked>>
          /\ UNCHANGED <<base, vault, touched>>
        BY <1>5 DEF LockFee, PhaseAfter
    <2>2. UntouchedKept' /\ TakingKnown'
        BY <1>0, <2>1 DEF UntouchedKept, TakingKnown
    <2>3. CASE UNCHANGED <<forced, locked>>
        BY <1>0, <2>1, <2>2, <2>3, LocksForcedKept DEF LocksKnown
    <2>4. CASE /\ forced' = [forced EXCEPT ![t.vault] = vault[t.vault]]
               /\ locked' = Append(locked, e)
        <3>1. /\ t.vault \in Vaults /\ t.amount \in Nat
              /\ t.vault \in touched \ LockedVaults
              /\ vault[t.vault] = base[t.vault] - t.amount
            BY <1>0, <2>1, TakingType DEF TakingKnown
        <3>2. /\ e.vault = t.vault /\ e.amount = t.amount /\ e.contingent = t.contingent
              /\ e.sum = NonContingent + Credit(t.amount, t.contingent)
            BY DEF Credit
        <3> HIDE DEF t, e
        <3>3. /\ n \in Nat /\ Len(locked') = n + 1 /\ locked'[n + 1] = e
              /\ \A i \in 1..n : locked'[i] = locked[i]
            BY <1>v, <2>4, SMT
        <3> HIDE DEF n
        <3>4. n = Len(locked)
            BY DEF n
        <3>5. \A i \in 1..Len(locked') : i \in 1..n \/ i = n + 1
            BY <3>3, SMT
        <3>6. \A i \in 1..n : locked[i].vault \in LockedVaults /\ locked[i].vault # t.vault
            BY <3>1, <3>4 DEF LockedVaults
        <3>7. \A i, j \in 1..Len(locked') : locked'[i].vault = locked'[j].vault => i = j
            BY <1>0, <3>2, <3>3, <3>4, <3>5, <3>6, SMTT(30) DEF LocksForced
        <3>8. \A i \in 1..Len(locked') :
                locked'[i].sum = SumUpTo(i - 1)' + Credit(locked'[i].amount, locked'[i].contingent)
            <4>1. \A k \in Nat : k = n => SumUpTo(k)' = NonContingent
                <5>1. n = 0 <=> locked = <<>>
                    BY <1>v, <3>4, SMT
                <5>2. n # 0 => n \in 1..n
                    BY <3>3, SMT
                <5> QED
                    BY <3>3, <3>4, <5>1, <5>2 DEF SumUpTo, NonContingent
            <4>2. \A i \in 1..n : SumUpTo(i - 1)' = SumUpTo(i - 1)
                <5> SUFFICES ASSUME NEW i \in 1..n PROVE SumUpTo(i - 1)' = SumUpTo(i - 1)
                    OBVIOUS
                <5>1. i - 1 = 0 \/ i - 1 \in 1..n
                    BY <3>3, SMT
                <5> QED
                    BY <3>3, <5>1 DEF SumUpTo
            <4>4. ASSUME NEW i \in Nat, i = n + 1
                  PROVE  locked'[i].sum = SumUpTo(i - 1)' + Credit(locked'[i].amount, locked'[i].contingent)
                <5>1. i - 1 \in Nat /\ i - 1 = n
                    BY <3>3, <4>4, SMT
                <5>2. SumUpTo(i - 1)' = NonContingent
                    BY <4>1, <5>1
                <5> QED
                    BY <3>2, <3>3, <4>4, <5>2
            <4>5. \A i \in 1..n : locked'[i].sum = SumUpTo(i - 1)' + Credit(locked'[i].amount, locked'[i].contingent)
                BY <1>0, <3>3, <3>4, <4>2 DEF LocksForced
            <4> QED
                BY <3>3, <3>5, <4>4, <4>5, SMT
        <3>9. LockedVaults' = LockedVaults \cup {t.vault}
            BY <3>2, <3>3, <3>4, <3>5, SMT DEF LockedVaults
        <3>10. LockedVaults' \subseteq touched'
            BY <1>0, <2>1, <3>1, <3>9 DEF LocksForced
        <3>11. \A i \in 1..Len(locked') :
                 /\ forced'[locked'[i].vault] \in Nat
                 /\ forced'[locked'[i].vault] = base'[locked'[i].vault] - locked'[i].amount
            <4>1. forced'[t.vault] \in Nat /\ forced'[t.vault] = base'[t.vault] - t.amount
                BY <1>v, <2>1, <2>4, <3>1
            <4>2. \A i \in 1..n : /\ forced'[locked[i].vault] \in Nat
                                  /\ forced'[locked[i].vault] = base'[locked[i].vault] - locked[i].amount
                BY <1>0, <1>v, <2>1, <2>4, <3>4, <3>6 DEF LocksForced
            <4> QED
                BY <3>2, <3>3, <3>5, <4>1, <4>2
        <3>12. \A v \in Vaults \ LockedVaults' : forced'[v] = -1
            BY <1>0, <1>v, <2>4, <3>9 DEF LocksForced
        <3> QED
            BY <2>2, <3>7, <3>8, <3>10, <3>11, <3>12 DEF LocksForced, LocksKnown
    <2> QED
        BY <2>1, <2>3, <2>4
<1>6. CASE ExecutionFails
    BY <1>6, <1>s DEF ExecutionFails, reserve, vaults
<1>7. CASE ExecutionReturns
    BY <1>7, <1>s DEF ExecutionReturns, reserve, vaults
<1>8. ASSUME NEW units \in 1..MaxUnits, ConsumeFinalization(units)
      PROVE  LocksKnown'
    BY <1>8, <1>s DEF ConsumeFinalization, vaults
<1>9. ASSUME NEW t \in StorageTypes, NEW size \in 1..MaxSize, ConsumeStorage(t, size)
      PROVE  LocksKnown'
    BY <1>9, <1>s DEF ConsumeStorage, vaults
<1>10. CASE ExecutionSucceeds
    BY <1>10, <1>s DEF ExecutionSucceeds, reserve, vaults
<1>11. CASE RejectOrAbort
    <2>1. /\ phase' = "done" /\ vault' = base
          /\ UNCHANGED <<locked, base, touched, forced, taking>>
        BY <1>11 DEF RejectOrAbort
    <2>2. LocksForced'
        BY <1>0, <2>1, LocksForcedKept
    <2> QED
        BY <2>1, <2>2 DEF LocksKnown, UntouchedKept, TakingKnown
<1>12. CASE CommitSuccess
    <2>1. UNCHANGED <<locked, forced, base, vault, touched, taking>> /\ phase' = "paying"
          /\ phase \in {"executed", "failed", "aborted"}
        BY <1>12 DEF CommitSuccess, vaults
    <2> QED
        BY <1>s, <2>1
<1>13. CASE CommitFailure
    <2>1. /\ phase' = "paying"
          /\ vault' = [v \in Vaults |-> IF forced[v] = -1 THEN base[v] ELSE forced[v]]
          /\ UNCHANGED <<locked, base, touched, forced, taking>>
        BY <1>13 DEF CommitFailure
    <2>2. LocksForced'
        BY <1>0, <2>1, LocksForcedKept
    <2>3. UntouchedKept'
        BY <1>0, <2>1 DEF UntouchedKept, LocksForced
    <2> QED
        BY <2>1, <2>2, <2>3 DEF LocksKnown, TakingKnown
<1>14. CASE TakeFee
    <2>1. left \in 1..Len(locked)
        BY <1>0, <1>14, SMTT(20) DEF TakeFee, TypeOK, IInv, LeftKnown
    <2>2. locked[left].vault \in touched
        BY <1>0, <2>1 DEF LocksForced, LockedVaults
    <2>3. /\ phase = "paying" /\ phase' = "paying"
          /\ \A v \in Vaults : v # locked[left].vault => vault'[v] = vault[v]
          /\ UNCHANGED <<locked, base, touched, forced, taking>>
        BY <1>v, <1>14 DEF TakeFee, reserve
    <2>4. LocksForced'
        BY <1>0, <2>3, LocksForcedKept
    <2>5. UntouchedKept'
        BY <1>0, <2>2, <2>3 DEF UntouchedKept
    <2> QED
        BY <2>3, <2>4, <2>5 DEF LocksKnown, TakingKnown
<1>15. CASE Distribute
    BY <1>15, <1>s DEF Distribute, reserve, vaults
<1> QED
    BY <1>1, <1>2, <1>3, <1>4, <1>5, <1>6, <1>7, <1>8, <1>9, <1>10, <1>11, <1>12, <1>13, <1>14,
       <1>15 DEF Next

\* Every step keeps the number of fees that are still to be processed.
LEMMA LeftNext == IInv /\ Next => LeftKnown'
<1> SUFFICES ASSUME IInv, Next PROVE LeftKnown'
    OBVIOUS
<1>0. left \in Nat /\ Len(locked) \in Nat /\ left <= Len(locked)
      /\ locked \in Seq([vault : Vaults, amount : Nat, contingent : BOOLEAN, sum : Nat])
    BY SMT DEF IInv, LeftKnown, ReserveInv, ReserveBalanced, TypeOK
<1>s. UNCHANGED <<left, locked>> => LeftKnown'
    BY <1>0 DEF LeftKnown
<1>1. ASSUME NEW units \in 1..MaxUnits, LockFee(units)
      PROVE  LeftKnown'
    <2>1. left' = left /\ (UNCHANGED locked \/ \E e : locked' = Append(locked, e))
        BY <1>1 DEF LockFee, finalization
    <2>2. Len(locked) <= Len(locked') /\ Len(locked') \in Nat
        BY <1>0, <2>1, SMT
    <2> QED
        BY <1>0, <2>1, <2>2, SMT DEF LeftKnown
<1>2. CASE CommitSuccess \/ CommitFailure
    BY <1>0, <1>2, SMT DEF LeftKnown, CommitSuccess, CommitFailure
<1>3. CASE TakeFee
    BY <1>0, <1>3, SMT DEF LeftKnown, TakeFee, reserve
<1>4. CASE \E units, size \in Deferred : Boot(units, size)
    BY <1>4, <1>s DEF Boot, finalization
<1>5. CASE \E units \in 1..MaxUnits, v, w \in Vaults, amount \in {0} \cup Amounts :
             Execute(units, v, w, amount)
    BY <1>5, <1>s, SMT DEF Execute, finalization
<1>6. CASE \E r \in Recipients, amount \in 1..MaxUnits : ConsumeRoyalty(r, amount)
    BY <1>6, <1>s DEF ConsumeRoyalty, finalization
<1>7. CASE \E v \in Vaults, amount \in Amounts, contingent \in BOOLEAN :
             TakeForLock(v, amount, contingent)
    BY <1>7, <1>s DEF TakeForLock, reserve, finalization
<1>8. CASE ExecutionFails \/ ExecutionReturns \/ ExecutionSucceeds
    BY <1>8, <1>s DEF ExecutionFails, ExecutionReturns, ExecutionSucceeds, reserve, finalization
<1>9. CASE \E units \in 1..MaxUnits : ConsumeFinalization(units)
    BY <1>9, <1>s DEF ConsumeFinalization, finalization
<1>10. CASE \E t \in StorageTypes, size \in 1..MaxSize : ConsumeStorage(t, size)
    BY <1>10, <1>s DEF ConsumeStorage, finalization
<1>11. CASE RejectOrAbort
    BY <1>11, <1>s DEF RejectOrAbort, reserve, finalization
<1>12. CASE Distribute
    BY <1>12, <1>s DEF Distribute, reserve
<1> QED
    BY <1>1, <1>2, <1>3, <1>4, <1>5, <1>6, <1>7, <1>8, <1>9, <1>10, <1>11, <1>12 DEF Next

\* The invariant holds when a transaction starts.
LEMMA InitIInv == Init => IInv
<1> SUFFICES ASSUME Init PROVE IInv
    OBVIOUS
<1>1. TypeOK
    <2>1. ReserveTypes
        BY FeeAssumption, PriceTypes, SMT DEF Init, ReserveTypes
    <2>2. VaultTypes
        BY FeeAssumption DEF Init, VaultTypes
    <2>3. FinalizationTypes /\ PhaseTypes
        BY DEF Init, FinalizationTypes, PhaseTypes
    <2> QED
        BY <2>1, <2>2, <2>3, TypeParts
<1>2. Len(locked) = 0 /\ locked = <<>>
    BY DEF Init
<1>3. ReserveInv
    <2>1. EffExec * 0 = 0 /\ EffFin * 0 = 0
        BY PriceTypes, SMT
    <2>2. Books
        BY <1>1, <2>1, BookTypes, PriceTypes, SMT DEF Init, Books, NonContingent
    <2>3. Limits /\ LoanKnown
        BY PriceTypes, SMT DEF Init, Limits, LoanKnown
    <2> QED
        BY <1>1, <2>2, <2>3 DEF ReserveInv, ReserveBalanced, Books, Limits
<1>4. LocksKnown
    BY <1>2, SMT DEF Init, LocksKnown, LocksForced, LockedVaults, UntouchedKept, TakingKnown
<1>5. LeftKnown
    BY <1>2, SMT DEF Init, LeftKnown
<1> QED
    BY <1>3, <1>4, <1>5 DEF IInv

\* Nothing changes when nothing happens.
LEMMA StutterIInv == IInv /\ UNCHANGED vars => IInv'
<1> SUFFICES ASSUME IInv, UNCHANGED vars PROVE IInv'
    OBVIOUS
<1> USE DEF vars, reserve, parameters, vaults, finalization
<1>1. TypeOK'
    BY DEF IInv, ReserveInv, ReserveBalanced, TypeOK
<1>2. NonContingent' = NonContingent
    BY DEF NonContingent
<1>3. ReserveInv'
    BY <1>1, <1>2 DEF IInv, ReserveInv, ReserveBalanced, LoanKnown
<1>4. LocksKnown'
    <2>1. LocksForced'
        BY LocksForcedKept DEF IInv, LocksKnown
    <2>2. LockedVaults' = LockedVaults
        BY DEF LockedVaults
    <2> QED
        BY <2>1, <2>2 DEF IInv, LocksKnown, UntouchedKept, TakingKnown
<1>5. LeftKnown'
    BY DEF IInv, LeftKnown
<1> QED
    BY <1>3, <1>4, <1>5 DEF IInv

\* Every step keeps the invariant.
LEMMA NextIInv == IInv /\ [Next]_vars => IInv'
<1>1. IInv /\ Next => IInv'
    <2> SUFFICES ASSUME IInv, Next PROVE IInv'
        OBVIOUS
    <2>1. TypeOK' /\ Books' /\ Limits' /\ LoanKnown' /\ LocksKnown'
        BY TypeNext, ReserveNext, LocksNext
    <2>2. LeftKnown'
        BY LeftNext
    <2>3. ReserveInv'
        BY <2>1 DEF ReserveInv, ReserveBalanced, Books, Limits
    <2> QED
        BY <2>1, <2>2, <2>3 DEF IInv
<1> QED
    BY <1>1, StutterIInv

\* Everything a transaction does keeps the invariant.
LEMMA SpecIInv == Spec => []IInv
    BY InitIInv, NextIInv, PTL DEF Spec

-----------------------------------------------------------------------------
(***************************************************************************)
(* Theorems                                                                *)
(***************************************************************************)

\* The books of the reserve balance after every charge, repayment, credit and revert, and
\* no transaction runs beyond the loan with a debt, or beyond its limits.
THEOREM BooksBalance == Spec => []ReserveBalanced
<1>1. IInv => ReserveBalanced
    BY DEF IInv, ReserveInv
<1> QED
    BY <1>1, SpecIInv, PTL
=============================================================================
