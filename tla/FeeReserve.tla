----------------------------- MODULE FeeReserve -----------------------------
(***************************************************************************)
(* The fees of one transaction: the fee reserve that the costing module    *)
(* charges (SystemLoanFeeReserve), the vaults fees are locked in, the      *)
(* decision on the result of the transaction and the distribution of the   *)
(* fees (determine_result_type and finalize_fees_for_commit).              *)
(*                                                                         *)
(* Amounts are whole multiples of the smallest Decimal.  The tip of a cost *)
(* unit is a constant of its own: price times tip proportion is exact in   *)
(* the 18 decimal places of a Decimal for the prices the engine uses.  The *)
(* deferred finalization cost is left out: nothing in the engine defers    *)
(* one.                                                                    *)
(***************************************************************************)
EXTENDS Integers, Sequences, FiniteSets, Functions

CONSTANTS
    ExecPrice, ExecTip,      \* execution cost unit: price and tip
    FinPrice, FinTip,        \* finalization cost unit: price and tip
    StoragePrice,            \* [StorageTypes -> Nat]
    ExecLoan,                \* execution cost units lent by the system
    ExecLimit, FinLimit,     \* cost unit limits
    FreeCredits,             \* values of free_credit_in_xrd, positive in previews only
    Vaults,                  \* RORK vaults that fees are locked in
    Recipients,              \* royalty recipients
    MaxUnits, MaxSize,       \* bounds on the cost units and sizes of one charge
    Deferred,                \* cost units and sizes deferred at boot
    Contents,                \* initial contents of a vault
    Amounts                  \* amounts moved between vaults or locked

StorageTypes == {"State", "Archive"}

ASSUME FeeAssumption ==
    /\ ExecPrice \in Nat /\ ExecTip \in Nat /\ ExecPrice + ExecTip > 0
    /\ FinPrice \in Nat /\ FinTip \in Nat
    /\ StoragePrice \in [StorageTypes -> Nat]
    /\ ExecLoan \in Nat \ {0} /\ ExecLimit \in Nat /\ FinLimit \in Nat
    /\ FreeCredits \subseteq Nat /\ IsFiniteSet(Vaults)
    /\ MaxUnits \in Nat /\ MaxSize \in Nat /\ Deferred \subseteq Nat
    /\ Contents \subseteq Nat /\ Amounts \subseteq Nat \ {0}

VARIABLES
    freeCredit,  \* free_credit_in_xrd of the transaction
    abortWhenRepaid, \* abort_when_loan_repaid, set for mempool checks
    balance,     \* xrd_balance
    owed,        \* xrd_owed
    execC,       \* execution_cost_units_committed
    execD,       \* execution_cost_units_deferred
    finC,        \* finalization_cost_units_committed
    storC,       \* storage_cost_committed
    archD,       \* storage_cost_deferred: only archive storage is ever deferred
    royalty,     \* royalty_cost_committed
    breakdown,   \* royalty_cost_breakdown
    taking,      \* the fee an open handle of lock_fee has taken from its vault
    locked,      \* locked_fees; sum is the running total of what is not contingent
    base,        \* the vaults when the transaction starts
    vault,       \* the vaults in the track
    touched,     \* vaults this transaction has written
    forced,      \* force-written vault contents, -1 for none
    royaltyPaid, \* deposits into the vaults of the royalty recipients
    rewards,     \* deposits into the validator rewards vault
    burnt,       \* fees that are burnt
    left,        \* locked fees the finalization has not processed yet
    required,    \* required in finalize_fees_for_commit
    collected,   \* collected_fees
    payments,    \* fee_payments
    phase,
    result       \* TransactionResultType

parameters == <<freeCredit, abortWhenRepaid>>
reserve == <<parameters, balance, owed, execC, execD, finC, storC, archD, royalty, breakdown, locked>>
vaults == <<base, vault, touched, forced, taking>>
finalization == <<royaltyPaid, rewards, burnt, left, required, collected, payments>>
vars == <<reserve, vaults, finalization, phase, result>>

Min(a, b) == IF a <= b THEN a ELSE b

EffExec == ExecPrice + ExecTip
EffFin == FinPrice + FinTip

-----------------------------------------------------------------------------
(***************************************************************************)
(* The reserve.                                                            *)
(***************************************************************************)

\* SystemLoanFeeReserve::new, over vaults with any content
Init ==
    /\ freeCredit \in FreeCredits
    /\ abortWhenRepaid \in BOOLEAN
    /\ balance = EffExec * ExecLoan + freeCredit
    /\ owed = EffExec * ExecLoan
    /\ execC = 0 /\ execD = 0 /\ finC = 0 /\ storC = 0 /\ archD = 0 /\ royalty = 0
    /\ breakdown = [r \in Recipients |-> 0]
    /\ locked = <<>>
    /\ base \in [Vaults -> Contents]
    /\ vault = base
    /\ touched = {}
    /\ forced = [v \in Vaults |-> -1]
    /\ taking = <<>>
    /\ royaltyPaid = 0 /\ rewards = 0 /\ burnt = 0
    /\ left = 0 /\ required = 0 /\ collected = 0
    /\ payments = [v \in Vaults |-> 0]
    /\ phase = "booting"
    /\ result = "none"

\* CostingModule::init and the other deferred costs of the boot, added up
Boot(units, size) ==
    /\ phase = "booting"
    /\ execD' = units
    /\ archD' = size
    /\ phase' = "executing"
    /\ UNCHANGED <<parameters, balance, owed, execC, finC, storC, royalty, breakdown, locked, vaults, finalization, result>>

\* the checks of consume_execution_internal, for a balance and the units so far
CanConsumeExecution(b, ec, units) ==
    /\ ec + units <= ExecLimit
    /\ EffExec * units <= b

\* broken variants: the tip is not charged; nothing is charged once the loan is repaid
ConsumedExecution_NoTip(units) ==
    [balance |-> balance - ExecPrice * units, execC |-> execC + units]

ConsumedExecution_FreeOnceRepaid(units) ==
    IF owed = 0 THEN [balance |-> balance, execC |-> execC]
    ELSE [balance |-> balance - EffExec * units, execC |-> execC + units]

\* what consume_execution_internal leaves of the balance, and the units committed
ConsumedExecution(units) ==
    [balance |-> balance - EffExec * units, execC |-> execC + units]

\* broken variant: the loan is repaid although a deferred cost could not be charged
LoanPaid_Always(charged, b) == Min(b, owed)

\* the part of the loan that repay_all repays from balance b
LoanPaid(charged, b) == IF charged THEN Min(b, owed) ELSE 0

\* repay_all with balance b and committed units ec: the deferred costs one after the
\* other, stopping at the first that fails, then the loan
RepayAll(b, ec) ==
    LET execOk == CanConsumeExecution(b, ec, execD)
        b1 == IF execOk THEN b - EffExec * execD ELSE b
        archCost == StoragePrice["Archive"] * archD
        archOk == execOk /\ archCost <= b1
        b2 == IF archOk THEN b1 - archCost ELSE b1
        paid == LoanPaid(archOk, b2)
    IN  [balance |-> b2 - paid,
         owed |-> owed - paid,
         execC |-> IF execOk THEN ec + execD ELSE ec,
         execD |-> IF execOk THEN 0 ELSE execD,
         storC |-> IF archOk THEN storC + archCost ELSE storC,
         archD |-> IF archOk THEN 0 ELSE archD,
         outcome |-> IF ~archOk \/ paid # owed THEN "Error"
                     ELSE IF abortWhenRepaid THEN "Abort" ELSE "Ok"]

\* the reserve after a call of repay_all that returned R
Repaid(R) ==
    /\ owed' = R.owed
    /\ execC' = R.execC
    /\ execD' = R.execD
    /\ storC' = R.storC
    /\ archD' = R.archD

\* the loan is due once the committed units reach it
RepayDue(ec) == owed # 0 /\ ec >= ExecLoan

\* consume_execution, once its own units are known to be payable
ConsumeExecution(units) ==
    LET C == ConsumedExecution(units)
    IN  IF RepayDue(C.execC) THEN RepayAll(C.balance, C.execC)
        ELSE [balance |-> C.balance, owed |-> owed, execC |-> C.execC, execD |-> execD,
              storC |-> storC, archD |-> archD, outcome |-> "Ok"]

\* an error of the reserve ends the execution
PhaseAfter(R) ==
    IF R.outcome = "Ok" THEN "executing"
    ELSE IF R.outcome = "Abort" THEN "aborted" ELSE "failed"

-----------------------------------------------------------------------------
(***************************************************************************)
(* The execution of the transaction.                                       *)
(***************************************************************************)

\* any error of the execution, a cost that cannot be charged included; no program
\* can catch one
ExecutionFails ==
    /\ phase \in {"executing", "locking", "closing"}
    /\ phase' = "failed"
    /\ UNCHANGED <<reserve, vaults, finalization, result>>

Moved(v, w, amount) == [vault EXCEPT ![v] = @ - amount, ![w] = @ + amount]

\* a step of the program: consume_execution charges it, then it may move RORK from
\* one vault to another through the track
Execute(units, v, w, amount) ==
    LET R == ConsumeExecution(units)
        moves == amount > 0 /\ R.outcome = "Ok"
    IN  /\ phase = "executing"
        /\ CanConsumeExecution(balance, execC, units)
        /\ v # w
        /\ amount <= vault[v]
        /\ balance' = R.balance
        /\ Repaid(R)
        /\ phase' = PhaseAfter(R)
        /\ vault' = IF moves THEN Moved(v, w, amount) ELSE vault
        /\ touched' = IF moves THEN touched \cup {v, w} ELSE touched
        /\ UNCHANGED <<parameters, finC, royalty, breakdown, locked, base, forced, taking, finalization, result>>

\* consume_royalty, before an invocation
ConsumeRoyalty(r, amount) ==
    /\ phase = "executing"
    /\ amount <= balance
    /\ balance' = balance - amount
    /\ breakdown' = [breakdown EXCEPT ![r] = @ + amount]
    /\ royalty' = royalty + amount
    /\ UNCHANGED <<parameters, owed, execC, execD, finC, storC, archD, locked, vaults, finalization, phase, result>>

\* what lock_fee adds to the balance
Credit(amount, contingent) == IF contingent THEN 0 ELSE amount

NonContingent == IF locked = <<>> THEN 0 ELSE locked[Len(locked)].sum

\* FungibleVault::lock_fee up to the close of its handle: the vault must be unmodified
\* in this transaction
TakeForLock(v, amount, contingent) ==
    /\ phase = "executing"
    /\ v \notin touched
    /\ amount <= vault[v]
    /\ vault' = [vault EXCEPT ![v] = @ - amount]
    /\ touched' = touched \cup {v}
    /\ taking' = <<[vault |-> v, amount |-> amount, contingent |-> contingent]>>
    /\ phase' = "locking"
    /\ UNCHANGED <<reserve, base, forced, finalization, result>>

\* the rest of lock_fee: kernel_close_substate charges the close and only then
\* force-writes the take; crediting the reserve cannot fail
LockFee(units) ==
    LET R == ConsumeExecution(units)
        t == taking[1]
    IN  /\ phase = "locking"
        /\ CanConsumeExecution(balance, execC, units)
        /\ Repaid(R)
        /\ phase' = PhaseAfter(R)
        /\ taking' = <<>>
        /\ IF R.outcome = "Ok"
           THEN /\ forced' = [forced EXCEPT ![t.vault] = vault[t.vault]]
                /\ balance' = R.balance + Credit(t.amount, t.contingent)
                /\ locked' = Append(locked,
                       [vault |-> t.vault, amount |-> t.amount, contingent |-> t.contingent,
                        sum |-> NonContingent + IF t.contingent THEN 0 ELSE t.amount])
           ELSE balance' = R.balance /\ UNCHANGED <<forced, locked>>
        /\ UNCHANGED <<parameters, finC, royalty, breakdown, base, vault, touched, finalization, result>>

\* the root call returned
ExecutionReturns ==
    /\ phase = "executing"
    /\ phase' = "closing"
    /\ UNCHANGED <<reserve, vaults, finalization, result>>

\* consume_finalization in System::finalize
ConsumeFinalization(units) ==
    /\ phase = "closing"
    /\ finC + units <= FinLimit
    /\ EffFin * units <= balance
    /\ balance' = balance - EffFin * units
    /\ finC' = finC + units
    /\ UNCHANGED <<parameters, owed, execC, execD, storC, archD, royalty, breakdown, locked, vaults, finalization, phase, result>>

\* consume_storage in System::finalize
ConsumeStorage(t, size) ==
    /\ phase = "closing"
    /\ StoragePrice[t] * size <= balance
    /\ balance' = balance - StoragePrice[t] * size
    /\ storC' = storC + StoragePrice[t] * size
    /\ UNCHANGED <<parameters, owed, execC, execD, finC, archD, royalty, breakdown, locked, vaults, finalization, phase, result>>

ExecutionSucceeds ==
    /\ phase = "closing"
    /\ phase' = "executed"
    /\ UNCHANGED <<reserve, vaults, finalization, result>>

-----------------------------------------------------------------------------
(***************************************************************************)
(* The result of the transaction and the distribution of the fees.         *)
(***************************************************************************)

\* determine_result_type, R being what repay_all returned
ResultType(R) ==
    IF phase = "aborted" \/ (phase = "executed" /\ R.outcome = "Abort") THEN "Abort"
    ELSE IF phase = "executed" /\ R.outcome = "Ok" THEN "CommitSuccess"
    ELSE IF phase = "failed" /\ R.owed = 0 THEN "CommitFailure"
    ELSE "Reject"

\* FeeReserveFinalizationSummary
TippingCost == ExecTip * execC + FinTip * finC
NetworkFees == ExecPrice * execC + FinPrice * finC + storC
TotalCost == NetworkFees + TippingCost + royalty
ToProposer == TippingCost + (NetworkFees * 25) \div 100
ToValidatorSet == (NetworkFees * 25) \div 100

ToBurn == TippingCost + NetworkFees - ToProposer - ToValidatorSet

\* a transaction that is not committed drops its track
RejectOrAbort ==
    /\ phase \in {"executed", "failed", "aborted"}
    /\ LET R == RepayAll(balance, execC) IN
        /\ ResultType(R) \in {"Reject", "Abort"}
        /\ balance' = R.balance
        /\ Repaid(R)
        /\ result' = ResultType(R)
    /\ vault' = base
    /\ phase' = "done"
    /\ UNCHANGED <<parameters, finC, royalty, breakdown, locked, base, touched, forced, taking, finalization>>

\* a committed success: the royalties are deposited before the fees are collected
CommitSuccess ==
    /\ phase \in {"executed", "failed", "aborted"}
    /\ LET R == RepayAll(balance, execC) IN
        /\ ResultType(R) = "CommitSuccess"
        /\ balance' = R.balance
        /\ Repaid(R)
    /\ result' = "CommitSuccess"
    /\ royaltyPaid' = royaltyPaid + royalty
    /\ left' = Len(locked)
    /\ phase' = "paying"
    /\ UNCHANGED <<parameters, finC, royalty, breakdown, locked, vaults, rewards, burnt, collected, payments>>
    /\ required' = TotalCost'

\* a committed failure: revert_royalty, then the track keeps the force writes only
CommitFailure ==
    /\ phase \in {"executed", "failed", "aborted"}
    /\ LET R == RepayAll(balance, execC) IN
        /\ ResultType(R) = "CommitFailure"
        /\ balance' = R.balance + royalty
        /\ Repaid(R)
    /\ result' = "CommitFailure"
    /\ royalty' = 0
    /\ breakdown' = [r \in Recipients |-> 0]
    /\ vault' = [v \in Vaults |-> IF forced[v] = -1 THEN base[v] ELSE forced[v]]
    /\ left' = Len(locked)
    /\ phase' = "paying"
    /\ UNCHANGED <<parameters, finC, locked, base, touched, forced, taking, royaltyPaid, rewards, burnt, collected, payments>>
    /\ required' = TotalCost'

\* broken variant: a fee is taken from the vault and refunded as well
Refund_Everything(l, amount) == l.amount

\* the overpayment that goes back to the vault
Refund(l, amount) == l.amount - amount

\* broken variant: a failure pays with contingent fees too
Taken_ContingentToo(l) == Min(l.amount, required)

\* what finalize_fees_for_commit takes of a locked fee
Taken(l) ==
    IF l.contingent /\ result # "CommitSuccess" THEN 0 ELSE Min(l.amount, required)

\* one round of the loop over the locked fees, from the last to the first
TakeFee ==
    /\ phase = "paying"
    /\ left > 0
    /\ LET l == locked[left] IN
        /\ collected' = collected + Taken(l)
        /\ required' = required - Taken(l)
        /\ vault' = [vault EXCEPT ![l.vault] = @ + Refund(l, Taken(l))]
        /\ payments' = [payments EXCEPT ![l.vault] = @ + Taken(l)]
    /\ left' = left - 1
    /\ UNCHANGED <<reserve, base, touched, forced, taking, royaltyPaid, rewards, burnt, phase, result>>

\* the rest of finalize_fees_for_commit: the free credit, the rewards and the burn
Distribute ==
    /\ phase = "paying"
    /\ left = 0
    /\ collected' = collected + Min(freeCredit, required)
    /\ required' = required - Min(freeCredit, required)
    /\ rewards' = rewards + ToProposer + ToValidatorSet
    /\ burnt' = burnt + ToBurn
    /\ phase' = "done"
    /\ UNCHANGED <<reserve, vaults, royaltyPaid, left, payments, result>>

Next ==
    \/ \E units, size \in Deferred : Boot(units, size)
    \/ \E units \in 1..MaxUnits, v, w \in Vaults, amount \in {0} \cup Amounts : Execute(units, v, w, amount)
    \/ \E r \in Recipients, amount \in 1..MaxUnits : ConsumeRoyalty(r, amount)
    \/ \E v \in Vaults, amount \in Amounts, contingent \in BOOLEAN : TakeForLock(v, amount, contingent)
    \/ \E units \in 1..MaxUnits : LockFee(units)
    \/ ExecutionFails
    \/ ExecutionReturns
    \/ \E units \in 1..MaxUnits : ConsumeFinalization(units)
    \/ \E t \in StorageTypes, size \in 1..MaxSize : ConsumeStorage(t, size)
    \/ ExecutionSucceeds
    \/ RejectOrAbort
    \/ CommitSuccess
    \/ CommitFailure
    \/ TakeFee
    \/ Distribute

Spec == Init /\ [][Next]_vars

\* the engine runs a transaction on one thread without pausing
FairSpec == Spec /\ WF_vars(Next)

-----------------------------------------------------------------------------
(***************************************************************************)
(* Properties                                                              *)
(***************************************************************************)

\* The type of the reserve and of the finalization; no balance, debt or cost is
\* ever negative.
TypeOK ==
    /\ freeCredit \in Nat /\ abortWhenRepaid \in BOOLEAN
    /\ {balance, owed, execC, execD, finC, storC, archD, royalty} \subseteq Nat
    /\ breakdown \in [Recipients -> Nat]
    /\ locked \in Seq([vault : Vaults, amount : Nat, contingent : BOOLEAN, sum : Nat])
    /\ base \in [Vaults -> Nat] /\ vault \in [Vaults -> Nat]
    /\ touched \subseteq Vaults
    /\ forced \in [Vaults -> Nat \cup {-1}]
    /\ taking \in {<<>>} \cup {<<t>> : t \in [vault : Vaults, amount : Amounts, contingent : BOOLEAN]}
    /\ {royaltyPaid, rewards, burnt, left, required, collected} \subseteq Nat
    /\ payments \in [Vaults -> Nat]
    /\ phase \in {"booting", "executing", "locking", "closing", "executed", "failed", "aborted", "paying", "done"}
    /\ result \in {"none", "Reject", "Abort", "CommitSuccess", "CommitFailure"}

\* The books of the reserve balance: what is left and what was charged, with tips, is
\* the free credit, the unpaid loan and the fees that are locked unconditionally.  A
\* transaction runs on credit only up to the loan, and never beyond its limits.
ReserveBalanced ==
    /\ TypeOK
    /\ balance + EffExec * execC + EffFin * finC + storC + royalty
         = freeCredit + owed + NonContingent
    /\ phase \in {"executing", "locking"} /\ execC >= ExecLoan => owed = 0
    /\ execC <= ExecLimit
    /\ finC <= FinLimit

\* Whatever result determine_result_type gives is paid for.  A committed transaction,
\* successful or not, has paid its deferred costs, although only the loan is checked (the
\* comment of fully_repaid); so has one that aborts when its loan is repaid.  The three
\* sanity checks of finalize_fees_for_commit hold: no bad debt, the locked fees and the
\* free credit cover the cost, and what was collected is what is distributed.
ResultIsPaid ==
    /\ result \in {"CommitSuccess", "CommitFailure", "Abort"} => execD = 0 /\ archD = 0
    /\ result = "Abort" => abortWhenRepaid /\ owed = 0
    /\ abortWhenRepaid => result # "CommitSuccess"
    /\ phase = "paying" /\ left = 0 =>
        /\ owed = 0
        /\ required <= freeCredit
        /\ collected + required = royalty + ToProposer + ToValidatorSet + ToBurn
        /\ ToBurn >= 0

SumOver(f) == SumFunctionOnSet(f, Vaults)

\* No RORK is lost or created: what leaves the vaults of a finished transaction is
\* paid to royalty recipients and validators, or burnt.
RorkConserved ==
    phase = "done" /\ freeCredit = 0 =>
        SumOver(base) = SumOver(vault) + royaltyPaid + rewards + burnt

\* A failed transaction costs a vault exactly the fee taken from it: whatever it did
\* to the vault is undone, a contingent lock is returned in full.
FailureCostsOnlyFees ==
    phase = "done" /\ result = "CommitFailure" =>
        /\ \A v \in Vaults : vault[v] = base[v] - payments[v]
        /\ \A i \in 1..Len(locked) : locked[i].contingent => payments[locked[i].vault] = 0

\* Cost unit limits and the balance bound every execution: each transaction ends.
Terminates == <>(phase = "done")
=============================================================================
