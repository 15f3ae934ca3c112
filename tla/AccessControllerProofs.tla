----------------------- MODULE AccessControllerProofs -----------------------
(***************************************************************************)
(* Proofs about AccessController, for any keys, rule sets and delays.      *)
(***************************************************************************)
EXTENDS AccessController, TLAPS

\* A timer belongs to the pending proposal of the recovery role, and says when the delay
\* that started with that proposal has passed.
TimerKnown ==
    allowed_after # <<>> =>
        /\ running # <<>>
        /\ recovery_recovery = <<running[1].proposal>>
        /\ allowed_after[1] = running[1].since + running[1].delay

IInv ==
    /\ TypeOK
    /\ AttemptsUnderCurrentRules
    /\ WithdrawnMeansLocked
    /\ TimerKnown

\* The inductive invariant holds in a controller that was just created.
LEMMA InitIInv == Init => IInv
<1> SUFFICES ASSUME Init PROVE IInv
    OBVIOUS
<1>1. TypeOK
    <2>1. controlled_asset \in BOOLEAN /\ locked \in BOOLEAN
        /\ primary_withdraw \in BOOLEAN /\ recovery_withdraw \in BOOLEAN
        BY Zenon DEF Init
    <2>2. now \in 0..MaxTime
        BY AccessControllerAssumption DEF Init
    <2>3. rules \in RuleSets \cup {LockedRuleSet} /\ delay \in Delays
        BY DEF Init
    <2>4. madeUnder \in [AttemptNames -> RuleSets \cup {LockedRuleSet}]
        BY <2>3 DEF Init
    <2>5. recovery_badges \subseteq BadgeIds
        BY DEF Init
    <2>6. /\ primary_recovery \in Optional(RecoveryProposal)
          /\ recovery_recovery \in Optional(RecoveryProposal)
          /\ allowed_after \in Optional(0..MaxTime)
          /\ xrd_fee_vault \in Optional(0..MaxFee)
          /\ running \in Optional(Timers)
        BY DEF Init, Optional
    <2> QED
        BY <2>1, <2>2, <2>3, <2>4, <2>5, <2>6 DEF TypeOK
<1>2. Pending = {}
    BY DEF Init, Pending
<1>3. AttemptsUnderCurrentRules
    BY <1>2 DEF AttemptsUnderCurrentRules
<1>4. WithdrawnMeansLocked
    BY DEF Init, WithdrawnMeansLocked
<1>5. TimerKnown
    BY DEF Init, TimerKnown
<1> QED
    BY <1>1, <1>3, <1>4, <1>5 DEF IInv

\* Every step keeps the types: a timer that would overflow is refused, and no more is taken
\* from the fee vault than it holds.
LEMMA NextType == TypeOK /\ [Next]_vars => TypeOK'
<1> SUFFICES ASSUME TypeOK, [Next]_vars PROVE TypeOK'
    OBVIOUS
<1>1. ASSUME NEW key \in Keys, NEW proposal \in RecoveryProposal,
             InitiateRecoveryAsPrimary(key, proposal)
      PROVE  TypeOK'
    BY <1>1, AccessControllerAssumption DEF InitiateRecoveryAsPrimary, Made, attempts, assets, TypeOK, Optional
<1>2. ASSUME NEW key \in Keys, NEW proposal \in RecoveryProposal,
             InitiateRecoveryAsRecovery(key, proposal)
      PROVE  TypeOK'
    <2>1. allowed_after' \in Optional(0..MaxTime)
        <3>1. CASE delay = <<>>
            BY <1>2, <3>1 DEF InitiateRecoveryAsRecovery, TimerFor, Optional
        <3>2. CASE delay # <<>>
            <4>1. PICK d \in Minutes : delay = <<d>>
                BY <3>2 DEF TypeOK, Delays, Optional
            <4>2. now + d \in 0..MaxTime
                <5>1. now + delay[1] <= MaxTime
                    BY <1>2, <3>2 DEF InitiateRecoveryAsRecovery
                <5>2. now \in 0..MaxTime
                    BY DEF TypeOK
                <5> QED
                    BY <4>1, <5>1, <5>2, AccessControllerAssumption
            <4> QED
                BY <1>2, <3>2, <4>1, <4>2 DEF InitiateRecoveryAsRecovery, TimerFor, Optional
        <3> QED
            BY <3>1, <3>2
    <2>2. running' \in Optional(Timers)
        <3>1. CASE delay = <<>>
            BY <1>2, <3>1 DEF InitiateRecoveryAsRecovery, Optional
        <3>2. CASE delay # <<>>
            <4>1. PICK d \in Minutes : delay = <<d>>
                BY <3>2 DEF TypeOK, Delays, Optional
            <4>2. running' = <<[since |-> now, delay |-> d, proposal |-> proposal]>>
                BY <1>2, <3>2, <4>1 DEF InitiateRecoveryAsRecovery
            <4>3. [since |-> now, delay |-> d, proposal |-> proposal] \in Timers
                BY DEF Timers, TypeOK
            <4> QED
                BY <4>2, <4>3 DEF Optional
        <3> QED
            BY <3>1, <3>2
    <2>3. recovery_recovery' \in Optional(RecoveryProposal)
        BY <1>2 DEF InitiateRecoveryAsRecovery, Optional
    <2> QED
        BY <1>2, <2>1, <2>2, <2>3 DEF InitiateRecoveryAsRecovery, Made, assets, TypeOK
<1>3. ASSUME NEW key \in Keys, NEW proposal \in RecoveryProposal,
             QuickConfirmPrimaryRoleRecoveryProposal(key, proposal)
      PROVE  TypeOK'
    BY <1>3, AccessControllerAssumption DEF QuickConfirmPrimaryRoleRecoveryProposal, ConfirmRecovery, Reset, attempts, assets, TypeOK, Optional, RecoveryProposal
<1>4. ASSUME NEW key \in Keys, NEW proposal \in RecoveryProposal,
             QuickConfirmRecoveryRoleRecoveryProposal(key, proposal)
      PROVE  TypeOK'
    BY <1>4, AccessControllerAssumption DEF QuickConfirmRecoveryRoleRecoveryProposal, ConfirmRecovery, Reset, attempts, assets, TypeOK, Optional, RecoveryProposal
<1>5. ASSUME NEW key \in Keys, NEW proposal \in RecoveryProposal,
             StopTimedRecovery(key, proposal)
      PROVE  TypeOK'
    BY <1>5, AccessControllerAssumption DEF StopTimedRecovery, attempts, assets, TypeOK, Optional
<1>6. ASSUME NEW proposal \in RecoveryProposal, TimedConfirmRecovery(proposal)
      PROVE  TypeOK'
    BY <1>6, AccessControllerAssumption DEF TimedConfirmRecovery, ConfirmRecovery, Reset, attempts, assets, TypeOK, Optional, RecoveryProposal
<1>7. ASSUME NEW key \in Keys, InitiateBadgeWithdrawAttemptAsPrimary(key)
      PROVE  TypeOK'
    BY <1>7, AccessControllerAssumption DEF InitiateBadgeWithdrawAttemptAsPrimary, Made, attempts, assets, TypeOK, Optional
<1>8. ASSUME NEW key \in Keys, InitiateBadgeWithdrawAttemptAsRecovery(key)
      PROVE  TypeOK'
    BY <1>8, AccessControllerAssumption DEF InitiateBadgeWithdrawAttemptAsRecovery, Made, attempts, assets, TypeOK, Optional
<1>9. ASSUME NEW key \in Keys, QuickConfirmPrimaryRoleBadgeWithdrawAttempt(key)
      PROVE  TypeOK'
    BY <1>9, AccessControllerAssumption DEF QuickConfirmPrimaryRoleBadgeWithdrawAttempt, GiveUpBadge, Reset, attempts, assets, TypeOK, Optional
<1>10. ASSUME NEW key \in Keys, QuickConfirmRecoveryRoleBadgeWithdrawAttempt(key)
      PROVE  TypeOK'
    BY <1>10, AccessControllerAssumption DEF QuickConfirmRecoveryRoleBadgeWithdrawAttempt, GiveUpBadge, Reset, attempts, assets, TypeOK, Optional
<1>11. ASSUME NEW key \in Keys, CancelPrimaryRoleRecoveryProposal(key)
      PROVE  TypeOK'
    BY <1>11, AccessControllerAssumption DEF CancelPrimaryRoleRecoveryProposal, attempts, assets, TypeOK, Optional
<1>12. ASSUME NEW key \in Keys, CancelRecoveryRoleRecoveryProposal(key)
      PROVE  TypeOK'
    BY <1>12, AccessControllerAssumption DEF CancelRecoveryRoleRecoveryProposal, attempts, assets, TypeOK, Optional
<1>13. ASSUME NEW key \in Keys, CancelPrimaryRoleBadgeWithdrawAttempt(key)
      PROVE  TypeOK'
    BY <1>13, AccessControllerAssumption DEF CancelPrimaryRoleBadgeWithdrawAttempt, attempts, assets, TypeOK, Optional
<1>14. ASSUME NEW key \in Keys, CancelRecoveryRoleBadgeWithdrawAttempt(key)
      PROVE  TypeOK'
    BY <1>14, AccessControllerAssumption DEF CancelRecoveryRoleBadgeWithdrawAttempt, attempts, assets, TypeOK, Optional
<1>15. ASSUME NEW key \in Keys, CreateProof(key)
      PROVE  TypeOK'
    BY <1>15, AccessControllerAssumption DEF CreateProof, vars, attempts, assets, TypeOK, Optional
<1>16. ASSUME NEW key \in Keys, NEW lock \in BOOLEAN, SetPrimaryRoleLock(key, lock)
      PROVE  TypeOK'
    BY <1>16, AccessControllerAssumption DEF SetPrimaryRoleLock, attempts, assets, TypeOK, Optional
<1>17. ASSUME NEW key \in Keys, NEW id \in BadgeIds, MintRecoveryBadges(key, id)
      PROVE  TypeOK'
    BY <1>17, AccessControllerAssumption DEF MintRecoveryBadges, attempts, assets, TypeOK, Optional
<1>18. ASSUME NEW key \in Keys, NEW amount \in 0..MaxFee, LockRecoveryFee(key, amount)
      PROVE  TypeOK'
    BY <1>18, AccessControllerAssumption DEF LockRecoveryFee, TakeFee, attempts, assets, TypeOK, Optional
<1>19. ASSUME NEW key \in Keys, NEW amount \in 0..MaxFee, WithdrawRecoveryFee(key, amount)
      PROVE  TypeOK'
    BY <1>19, AccessControllerAssumption DEF WithdrawRecoveryFee, TakeFee, attempts, assets, TypeOK, Optional
<1>20. ASSUME NEW amount \in 0..MaxFee, ContributeRecoveryFee(amount)
      PROVE  TypeOK'
    BY <1>20, AccessControllerAssumption DEF ContributeRecoveryFee, attempts, assets, TypeOK, Optional
<1>21. ASSUME Tick
      PROVE  TypeOK'
    BY <1>21, AccessControllerAssumption DEF Tick, attempts, assets, TypeOK, Optional
<1>22. CASE UNCHANGED vars
    BY <1>22 DEF vars, attempts, assets, TypeOK, Optional
<1> QED
    BY <1>1, <1>2, <1>3, <1>4, <1>5, <1>6, <1>7, <1>8, <1>9, <1>10, <1>11, <1>12, <1>13,
       <1>14, <1>15, <1>16, <1>17, <1>18, <1>19, <1>20, <1>21, <1>22 DEF Next

\* AttemptsUnderCurrentRules, WithdrawnMeansLocked and TimerKnown with Pending spelled out,
\* one attempt at a time.
Plain ==
    /\ primary_recovery # <<>> => madeUnder["primary recovery"] = rules
    /\ primary_withdraw => madeUnder["primary withdraw"] = rules
    /\ recovery_recovery # <<>> => madeUnder["recovery recovery"] = rules
    /\ recovery_withdraw => madeUnder["recovery withdraw"] = rules
    /\ ~controlled_asset =>
          /\ rules = LockedRuleSet
          /\ primary_recovery = <<>> /\ ~primary_withdraw
          /\ recovery_recovery = <<>> /\ ~recovery_withdraw
    /\ allowed_after # <<>> =>
          /\ running # <<>>
          /\ recovery_recovery = <<running[1].proposal>>
          /\ allowed_after[1] = running[1].since + running[1].delay

\* The plain form says the same as the three properties.
LEMMA PlainForm ==
    Plain <=> AttemptsUnderCurrentRules /\ WithdrawnMeansLocked /\ TimerKnown
<1>1. AttemptsUnderCurrentRules <=>
        /\ primary_recovery # <<>> => madeUnder["primary recovery"] = rules
        /\ primary_withdraw => madeUnder["primary withdraw"] = rules
        /\ recovery_recovery # <<>> => madeUnder["recovery recovery"] = rules
        /\ recovery_withdraw => madeUnder["recovery withdraw"] = rules
    BY DEF AttemptsUnderCurrentRules, Pending
<1>2. Pending = {} <=>
        /\ primary_recovery = <<>> /\ ~primary_withdraw
        /\ recovery_recovery = <<>> /\ ~recovery_withdraw
    BY DEF Pending
<1>3. rules = LockedRuleSet => \A key \in Keys : ~CanCreateProof(key)
    BY DEF LockedRuleSet, CanCreateProof
<1> QED
    BY <1>1, <1>2, <1>3 DEF Plain, WithdrawnMeansLocked, TimerKnown

\* Who has a role is not under the locked rules.
LEMMA SomeRole ==
    ASSUME NEW key, key \in rules.primary \/ key \in rules.recovery
    PROVE  rules # LockedRuleSet
BY DEF LockedRuleSet

\* An attempt is recorded with the rules in force, and the records of the others stay.
LEMMA MadeIs ==
    ASSUME NEW a \in AttemptNames, TypeOK, Made(a)
    PROVE  /\ madeUnder'[a] = rules
           /\ \A b \in AttemptNames \ {a} : madeUnder'[b] = madeUnder[b]
BY DEF TypeOK, Made

\* Every step keeps the plain form: a confirmation resets all attempts, and who has no role
\* makes no new one.
LEMMA NextPlain == TypeOK /\ Plain /\ [Next]_vars => Plain'
<1> SUFFICES ASSUME TypeOK, Plain, [Next]_vars PROVE Plain'
    OBVIOUS
<1>1. ASSUME NEW key \in Keys, NEW proposal \in RecoveryProposal,
             InitiateRecoveryAsPrimary(key, proposal)
      PROVE  Plain'
    <2>1. controlled_asset /\ Made("primary recovery")
        BY <1>1, SomeRole DEF InitiateRecoveryAsPrimary, Plain
    <2> QED
        BY <1>1, <2>1, MadeIs DEF InitiateRecoveryAsPrimary, assets, AttemptNames, Plain
<1>2. ASSUME NEW key \in Keys, NEW proposal \in RecoveryProposal,
             InitiateRecoveryAsRecovery(key, proposal)
      PROVE  Plain'
    <2>1. controlled_asset /\ Made("recovery recovery")
        BY <1>2, SomeRole DEF InitiateRecoveryAsRecovery, Plain
    <2>2. allowed_after' # <<>> =>
            /\ running' # <<>>
            /\ recovery_recovery' = <<running'[1].proposal>>
            /\ allowed_after'[1] = running'[1].since + running'[1].delay
        BY <1>2 DEF InitiateRecoveryAsRecovery, TimerFor
    <2> QED
        BY <1>2, <2>1, <2>2, MadeIs DEF InitiateRecoveryAsRecovery, assets, AttemptNames, Plain
<1>3. ASSUME NEW key \in Keys, NEW proposal \in RecoveryProposal,
             QuickConfirmPrimaryRoleRecoveryProposal(key, proposal)
      PROVE  Plain'
    BY <1>3 DEF QuickConfirmPrimaryRoleRecoveryProposal, ConfirmRecovery, Reset, assets, Plain
<1>4. ASSUME NEW key \in Keys, NEW proposal \in RecoveryProposal,
             QuickConfirmRecoveryRoleRecoveryProposal(key, proposal)
      PROVE  Plain'
    BY <1>4 DEF QuickConfirmRecoveryRoleRecoveryProposal, ConfirmRecovery, Reset, assets, Plain
<1>5. ASSUME NEW key \in Keys, NEW proposal \in RecoveryProposal,
             StopTimedRecovery(key, proposal)
      PROVE  Plain'
    BY <1>5 DEF StopTimedRecovery, assets, Plain
<1>6. ASSUME NEW proposal \in RecoveryProposal, TimedConfirmRecovery(proposal)
      PROVE  Plain'
    BY <1>6 DEF TimedConfirmRecovery, ConfirmRecovery, Reset, assets, Plain
<1>7. ASSUME NEW key \in Keys, InitiateBadgeWithdrawAttemptAsPrimary(key)
      PROVE  Plain'
    <2>1. controlled_asset /\ Made("primary withdraw")
        BY <1>7, SomeRole DEF InitiateBadgeWithdrawAttemptAsPrimary, Plain
    <2> QED
        BY <1>7, <2>1, MadeIs DEF InitiateBadgeWithdrawAttemptAsPrimary, assets, AttemptNames, Plain
<1>8. ASSUME NEW key \in Keys, InitiateBadgeWithdrawAttemptAsRecovery(key)
      PROVE  Plain'
    <2>1. controlled_asset /\ Made("recovery withdraw")
        BY <1>8, SomeRole DEF InitiateBadgeWithdrawAttemptAsRecovery, Plain
    <2> QED
        BY <1>8, <2>1, MadeIs DEF InitiateBadgeWithdrawAttemptAsRecovery, assets, AttemptNames, Plain
<1>9. ASSUME NEW key \in Keys, QuickConfirmPrimaryRoleBadgeWithdrawAttempt(key)
      PROVE  Plain'
    BY <1>9 DEF QuickConfirmPrimaryRoleBadgeWithdrawAttempt, GiveUpBadge, Reset, assets, LockedRuleSet, Plain
<1>10. ASSUME NEW key \in Keys, QuickConfirmRecoveryRoleBadgeWithdrawAttempt(key)
      PROVE  Plain'
    BY <1>10 DEF QuickConfirmRecoveryRoleBadgeWithdrawAttempt, GiveUpBadge, Reset, assets, LockedRuleSet, Plain
<1>11. ASSUME NEW key \in Keys, CancelPrimaryRoleRecoveryProposal(key)
      PROVE  Plain'
    BY <1>11 DEF CancelPrimaryRoleRecoveryProposal, assets, Plain
<1>12. ASSUME NEW key \in Keys, CancelRecoveryRoleRecoveryProposal(key)
      PROVE  Plain'
    BY <1>12 DEF CancelRecoveryRoleRecoveryProposal, assets, Plain
<1>13. ASSUME NEW key \in Keys, CancelPrimaryRoleBadgeWithdrawAttempt(key)
      PROVE  Plain'
    BY <1>13 DEF CancelPrimaryRoleBadgeWithdrawAttempt, assets, Plain
<1>14. ASSUME NEW key \in Keys, CancelRecoveryRoleBadgeWithdrawAttempt(key)
      PROVE  Plain'
    BY <1>14 DEF CancelRecoveryRoleBadgeWithdrawAttempt, assets, Plain
<1>15. ASSUME NEW key \in Keys, CreateProof(key)
      PROVE  Plain'
    BY <1>15 DEF CreateProof, vars, attempts, assets, Plain
<1>16. ASSUME NEW key \in Keys, NEW lock \in BOOLEAN, SetPrimaryRoleLock(key, lock)
      PROVE  Plain'
    BY <1>16 DEF SetPrimaryRoleLock, assets, Plain
<1>17. ASSUME NEW key \in Keys, NEW id \in BadgeIds, MintRecoveryBadges(key, id)
      PROVE  Plain'
    BY <1>17 DEF MintRecoveryBadges, attempts, Plain
<1>18. ASSUME NEW key \in Keys, NEW amount \in 0..MaxFee, LockRecoveryFee(key, amount)
      PROVE  Plain'
    BY <1>18 DEF LockRecoveryFee, TakeFee, attempts, Plain
<1>19. ASSUME NEW key \in Keys, NEW amount \in 0..MaxFee, WithdrawRecoveryFee(key, amount)
      PROVE  Plain'
    BY <1>19 DEF WithdrawRecoveryFee, TakeFee, attempts, Plain
<1>20. ASSUME NEW amount \in 0..MaxFee, ContributeRecoveryFee(amount)
      PROVE  Plain'
    BY <1>20 DEF ContributeRecoveryFee, attempts, Plain
<1>21. ASSUME Tick
      PROVE  Plain'
    BY <1>21 DEF Tick, attempts, assets, Plain
<1>22. CASE UNCHANGED vars
    BY <1>22 DEF vars, attempts, assets, Plain
<1> QED
    BY <1>1, <1>2, <1>3, <1>4, <1>5, <1>6, <1>7, <1>8, <1>9, <1>10, <1>11, <1>12, <1>13,
       <1>14, <1>15, <1>16, <1>17, <1>18, <1>19, <1>20, <1>21, <1>22 DEF Next

-----------------------------------------------------------------------------
(* Theorems *)

\* The inductive invariant always holds.
THEOREM Invariance == Spec => []IInv
<1>1. IInv /\ [Next]_vars => IInv'
    BY NextType, NextPlain, PlainForm, PTL DEF IInv
<1> QED
    BY InitIInv, <1>1, PTL DEF Spec

\* Every variable keeps its type: no timer beyond the last instant, no fee vault below zero.
THEOREM TypeCorrect == Spec => []TypeOK
<1>1. IInv => TypeOK
    BY DEF IInv
<1> QED
    BY Invariance, <1>1, PTL

\* What can be confirmed was proposed under the rules that are in force.
THEOREM NoStaleAttempt == Spec => []AttemptsUnderCurrentRules
<1>1. IInv => AttemptsUnderCurrentRules
    BY DEF IInv
<1> QED
    BY Invariance, <1>1, PTL

\* A controller without its badge is locked, with no attempt pending.
THEOREM LockedAfterWithdrawal == Spec => []WithdrawnMeansLocked
<1>1. IInv => WithdrawnMeansLocked
    BY DEF IInv
<1> QED
    BY Invariance, <1>1, PTL

\* A timed recovery takes effect only when its own delay has passed without a stop.
THEOREM NoEarlyRecovery == Spec => TimedRecoveryWaits
<1>1. ASSUME IInv, [Next]_vars, NEW proposal \in RecoveryProposal, TimedConfirmRecovery(proposal)
      PROVE  /\ running # <<>>
             /\ running[1].proposal = proposal
             /\ now >= running[1].since + running[1].delay
    BY <1>1 DEF IInv, TimerKnown, TimedConfirmRecovery
<1>2. IInv /\ [Next]_vars =>
        [\A proposal \in RecoveryProposal : TimedConfirmRecovery(proposal) =>
            /\ running # <<>>
            /\ running[1].proposal = proposal
            /\ now >= running[1].since + running[1].delay]_vars
    BY <1>1
<1> QED
    BY Invariance, <1>2, PTL DEF Spec, TimedRecoveryWaits
=============================================================================
