-------------------------- MODULE AccessController --------------------------
(***************************************************************************)
(* The access controller (version 2): a badge in a vault, three roles, and *)
(* the proposals by which the roles change the rules or give up the badge. *)
(* Calls come from keys; an access rule is the set of keys that satisfy    *)
(* it.  An action is one successful call; a call that fails changes        *)
(* nothing.  Time counts in minutes, the precision the code asks for.      *)
(***************************************************************************)
EXTENDS Naturals, FiniteSets

CONSTANTS
    Keys,       \* who calls
    RuleSets,   \* the rule sets that are proposed
    Minutes,    \* the delays of timed recoveries
    BadgeIds,   \* ids of recovery badges
    MaxTime,    \* the last instant: adding minutes beyond it overflows
    MaxFee      \* bound on the amount in the fee vault

RuleSet == [primary : SUBSET Keys, recovery : SUBSET Keys, confirmation : SUBSET Keys]

\* locked_role_assignment: every role is DenyAll
LockedRuleSet == [primary |-> {}, recovery |-> {}, confirmation |-> {}]

Optional(S) == {<<>>} \cup {<<x>> : x \in S}

\* timed_recovery_delay_in_minutes
Delays == Optional(Minutes)

RecoveryProposal == [rule_set : RuleSets, delay : Delays]

ASSUME AccessControllerAssumption ==
    /\ RuleSets \subseteq RuleSet
    /\ Minutes \subseteq Nat
    /\ MaxTime \in Nat
    /\ MaxFee \in Nat

VARIABLES
    rules,             \* the role assignment of the controller
    controlled_asset,  \* is the badge in the vault?
    delay,             \* timed_recovery_delay_in_minutes
    locked,            \* PrimaryRoleLockingState
    primary_recovery,  \* PrimaryRoleRecoveryAttemptState: <<>> or <<proposal>>
    primary_withdraw,  \* PrimaryRoleBadgeWithdrawAttemptState
    recovery_recovery, \* RecoveryRoleRecoveryAttemptState: <<>> or <<proposal>>
    allowed_after,     \* its timer: <<t>> for TimedRecovery, <<>> for UntimedRecovery
    recovery_withdraw, \* RecoveryRoleBadgeWithdrawAttemptState
    xrd_fee_vault,     \* <<>> or <<amount>>
    recovery_badges,   \* ids that were minted
    now,               \* the current time
    \* history:
    madeUnder,         \* the rules in force when each pending attempt was made
    running            \* <<>> or <<[since, delay, proposal]>>: a timer nobody stopped

attempts == <<locked, primary_recovery, primary_withdraw, recovery_recovery, allowed_after,
              recovery_withdraw>>
assets == <<controlled_asset, xrd_fee_vault, recovery_badges>>
vars == <<rules, delay, attempts, assets, now, madeUnder, running>>

AttemptNames == {"primary recovery", "primary withdraw", "recovery recovery", "recovery withdraw"}

\* AccessControllerV2Blueprint::create
Init ==
    /\ rules \in RuleSets
    /\ controlled_asset = TRUE
    /\ delay \in Delays
    /\ locked = FALSE
    /\ primary_recovery = <<>> /\ primary_withdraw = FALSE
    /\ recovery_recovery = <<>> /\ allowed_after = <<>> /\ recovery_withdraw = FALSE
    /\ xrd_fee_vault = <<>>
    /\ recovery_badges = {}
    /\ now = 0
    /\ madeUnder = [a \in AttemptNames |-> rules]
    /\ running = <<>>

-----------------------------------------------------------------------------
(* Proposals *)

Made(a) == madeUnder' = [madeUnder EXCEPT ![a] = rules]

\* initiate_recovery_as_primary
InitiateRecoveryAsPrimary(key, proposal) ==
    /\ key \in rules.primary
    /\ primary_recovery = <<>>
    /\ primary_recovery' = <<proposal>>
    /\ Made("primary recovery")
    /\ UNCHANGED <<rules, delay, locked, primary_withdraw, recovery_recovery, allowed_after,
                   recovery_withdraw, assets, now, running>>

\* when a timed recovery that starts now may be confirmed
TimerFor == IF delay = <<>> THEN <<>> ELSE <<now + delay[1]>>

\* initiate_recovery_as_recovery; TimeOverflow when the instant does not exist
InitiateRecoveryAsRecovery(key, proposal) ==
    /\ key \in rules.recovery
    /\ recovery_recovery = <<>>
    /\ delay # <<>> => now + delay[1] <= MaxTime
    /\ recovery_recovery' = <<proposal>>
    /\ allowed_after' = TimerFor
    /\ Made("recovery recovery")
    /\ running' = IF delay = <<>> THEN <<>>
                  ELSE <<[since |-> now, delay |-> delay[1], proposal |-> proposal]>>
    /\ UNCHANGED <<rules, delay, locked, primary_recovery, primary_withdraw, recovery_withdraw,
                   assets, now>>

\* initiate_badge_withdraw_attempt_as_primary
InitiateBadgeWithdrawAttemptAsPrimary(key) ==
    /\ key \in rules.primary
    /\ ~primary_withdraw
    /\ primary_withdraw' = TRUE
    /\ Made("primary withdraw")
    /\ UNCHANGED <<rules, delay, locked, primary_recovery, recovery_recovery, allowed_after,
                   recovery_withdraw, assets, now, running>>

\* initiate_badge_withdraw_attempt_as_recovery
InitiateBadgeWithdrawAttemptAsRecovery(key) ==
    /\ key \in rules.recovery
    /\ ~recovery_withdraw
    /\ recovery_withdraw' = TRUE
    /\ Made("recovery withdraw")
    /\ UNCHANGED <<rules, delay, locked, primary_recovery, primary_withdraw, recovery_recovery,
                   allowed_after, assets, now, running>>

-----------------------------------------------------------------------------
(* Confirmations *)

\* broken variant: the other attempts stay
Reset_KeepsWithdraw ==
    /\ locked' = FALSE
    /\ primary_recovery' = <<>>
    /\ recovery_recovery' = <<>> /\ allowed_after' = <<>>
    /\ running' = <<>>
    /\ UNCHANGED <<primary_withdraw, recovery_withdraw>>

\* the state becomes Default::default()
Reset ==
    /\ locked' = FALSE
    /\ primary_recovery' = <<>> /\ primary_withdraw' = FALSE
    /\ recovery_recovery' = <<>> /\ allowed_after' = <<>> /\ recovery_withdraw' = FALSE
    /\ running' = <<>>

\* the end of every confirmed recovery: update_role_assignment with the proposed rules
ConfirmRecovery(proposal) ==
    /\ Reset
    /\ rules' = proposal.rule_set
    /\ UNCHANGED <<delay, assets, now, madeUnder>>

\* quick_confirm_primary_role_recovery_proposal
QuickConfirmPrimaryRoleRecoveryProposal(key, proposal) ==
    /\ key \in rules.recovery \cup rules.confirmation
    /\ primary_recovery = <<proposal>>
    /\ ConfirmRecovery(proposal)

\* quick_confirm_recovery_role_recovery_proposal
QuickConfirmRecoveryRoleRecoveryProposal(key, proposal) ==
    /\ key \in rules.primary \cup rules.confirmation
    /\ recovery_recovery = <<proposal>>
    /\ ConfirmRecovery(proposal)

\* broken variant: only while the primary role is unlocked
TimedConfirmRecovery_Unlocked(proposal) ==
    /\ ~locked
    /\ recovery_recovery = <<proposal>>
    /\ allowed_after # <<>>
    /\ now >= allowed_after[1]
    /\ ConfirmRecovery(proposal)

\* timed_confirm_recovery, a public method
TimedConfirmRecovery(proposal) ==
    /\ recovery_recovery = <<proposal>>
    /\ allowed_after # <<>>
    /\ now >= allowed_after[1]
    /\ ConfirmRecovery(proposal)

\* broken variant: the roles keep their rules
GiveUpBadge_RulesStay ==
    /\ Reset
    /\ controlled_asset' = FALSE
    /\ UNCHANGED <<rules, delay, xrd_fee_vault, recovery_badges, now, madeUnder>>

\* the end of every confirmed withdrawal: take_all, and all roles are denied
GiveUpBadge ==
    /\ Reset
    /\ controlled_asset' = FALSE
    /\ rules' = LockedRuleSet
    /\ UNCHANGED <<delay, xrd_fee_vault, recovery_badges, now, madeUnder>>

\* quick_confirm_primary_role_badge_withdraw_attempt
QuickConfirmPrimaryRoleBadgeWithdrawAttempt(key) ==
    /\ key \in rules.recovery \cup rules.confirmation
    /\ primary_withdraw
    /\ GiveUpBadge

\* quick_confirm_recovery_role_badge_withdraw_attempt
QuickConfirmRecoveryRoleBadgeWithdrawAttempt(key) ==
    /\ key \in rules.primary \cup rules.confirmation
    /\ recovery_withdraw
    /\ GiveUpBadge

-----------------------------------------------------------------------------
(* Cancelling, locking, stopping *)

\* cancel_primary_role_recovery_proposal
CancelPrimaryRoleRecoveryProposal(key) ==
    /\ key \in rules.primary
    /\ primary_recovery # <<>>
    /\ primary_recovery' = <<>>
    /\ UNCHANGED <<rules, delay, locked, primary_withdraw, recovery_recovery, allowed_after,
                   recovery_withdraw, assets, now, madeUnder, running>>

\* cancel_recovery_role_recovery_proposal
CancelRecoveryRoleRecoveryProposal(key) ==
    /\ key \in rules.recovery
    /\ recovery_recovery # <<>>
    /\ recovery_recovery' = <<>> /\ allowed_after' = <<>>
    /\ running' = <<>>
    /\ UNCHANGED <<rules, delay, locked, primary_recovery, primary_withdraw, recovery_withdraw,
                   assets, now, madeUnder>>

\* cancel_primary_role_badge_withdraw_attempt
CancelPrimaryRoleBadgeWithdrawAttempt(key) ==
    /\ key \in rules.primary
    /\ primary_withdraw
    /\ primary_withdraw' = FALSE
    /\ UNCHANGED <<rules, delay, locked, primary_recovery, recovery_recovery, allowed_after,
                   recovery_withdraw, assets, now, madeUnder, running>>

\* cancel_recovery_role_badge_withdraw_attempt
CancelRecoveryRoleBadgeWithdrawAttempt(key) ==
    /\ key \in rules.recovery
    /\ recovery_withdraw
    /\ recovery_withdraw' = FALSE
    /\ UNCHANGED <<rules, delay, locked, primary_recovery, primary_withdraw, recovery_recovery,
                   allowed_after, assets, now, madeUnder, running>>

\* lock_primary_role and unlock_primary_role, both idempotent
SetPrimaryRoleLock(key, lock) ==
    /\ key \in rules.recovery
    /\ locked' = lock
    /\ UNCHANGED <<rules, delay, primary_recovery, primary_withdraw, recovery_recovery,
                   allowed_after, recovery_withdraw, assets, now, madeUnder, running>>

\* broken variant: the recovery stays timed
StopTimedRecovery_StaysTimed(key, proposal) ==
    /\ key \in rules.primary \cup rules.confirmation \cup rules.recovery
    /\ recovery_recovery = <<proposal>> /\ allowed_after # <<>>
    /\ running' = <<>>
    /\ UNCHANGED <<rules, delay, attempts, assets, now, madeUnder>>

\* stop_timed_recovery: the proposal stays, without a timer
StopTimedRecovery(key, proposal) ==
    /\ key \in rules.primary \cup rules.confirmation \cup rules.recovery
    /\ recovery_recovery = <<proposal>> /\ allowed_after # <<>>
    /\ allowed_after' = <<>>
    /\ running' = <<>>
    /\ UNCHANGED <<rules, delay, locked, primary_recovery, primary_withdraw, recovery_recovery,
                   recovery_withdraw, assets, now, madeUnder>>

-----------------------------------------------------------------------------
(* The badge, recovery badges and fees *)

\* may the key call create_proof?
CanCreateProof(key) == key \in rules.primary /\ ~locked

\* create_proof: the proof lives in the transaction, the controller does not change
CreateProof(key) == CanCreateProof(key) /\ UNCHANGED vars

\* mint_recovery_badges, one id at a time; an id is minted once
MintRecoveryBadges(key, id) ==
    /\ key \in rules.primary \cup rules.recovery
    /\ id \notin recovery_badges
    /\ recovery_badges' = recovery_badges \cup {id}
    /\ UNCHANGED <<rules, delay, attempts, controlled_asset, xrd_fee_vault, now, madeUnder,
                   running>>

\* contribute_recovery_fee, a public method, creates the vault
ContributeRecoveryFee(amount) ==
    LET held == IF xrd_fee_vault = <<>> THEN 0 ELSE xrd_fee_vault[1]
    IN  /\ held + amount <= MaxFee
        /\ xrd_fee_vault' = <<held + amount>>
        /\ UNCHANGED <<rules, delay, attempts, controlled_asset, recovery_badges, now,
                       madeUnder, running>>

TakeFee(amount) ==
    /\ xrd_fee_vault # <<>> /\ amount <= xrd_fee_vault[1]
    /\ xrd_fee_vault' = <<xrd_fee_vault[1] - amount>>
    /\ UNCHANGED <<rules, delay, attempts, controlled_asset, recovery_badges, now, madeUnder,
                   running>>

\* lock_recovery_fee
LockRecoveryFee(key, amount) ==
    /\ key \in rules.primary \cup rules.confirmation \cup rules.recovery
    /\ TakeFee(amount)

\* withdraw_recovery_fee
WithdrawRecoveryFee(key, amount) == key \in rules.primary /\ TakeFee(amount)

\* the clock of the consensus manager
Tick ==
    /\ now < MaxTime
    /\ now' = now + 1
    /\ UNCHANGED <<rules, delay, attempts, assets, madeUnder, running>>

Next ==
    \/ \E key \in Keys, proposal \in RecoveryProposal :
         \/ InitiateRecoveryAsPrimary(key, proposal)
         \/ InitiateRecoveryAsRecovery(key, proposal)
         \/ QuickConfirmPrimaryRoleRecoveryProposal(key, proposal)
         \/ QuickConfirmRecoveryRoleRecoveryProposal(key, proposal)
         \/ StopTimedRecovery(key, proposal)
    \/ \E proposal \in RecoveryProposal : TimedConfirmRecovery(proposal)
    \/ \E key \in Keys :
         \/ InitiateBadgeWithdrawAttemptAsPrimary(key)
         \/ InitiateBadgeWithdrawAttemptAsRecovery(key)
         \/ QuickConfirmPrimaryRoleBadgeWithdrawAttempt(key)
         \/ QuickConfirmRecoveryRoleBadgeWithdrawAttempt(key)
         \/ CancelPrimaryRoleRecoveryProposal(key)
         \/ CancelRecoveryRoleRecoveryProposal(key)
         \/ CancelPrimaryRoleBadgeWithdrawAttempt(key)
         \/ CancelRecoveryRoleBadgeWithdrawAttempt(key)
         \/ CreateProof(key)
    \/ \E key \in Keys, lock \in BOOLEAN : SetPrimaryRoleLock(key, lock)
    \/ \E key \in Keys, id \in BadgeIds : MintRecoveryBadges(key, id)
    \/ \E key \in Keys, amount \in 0..MaxFee :
         LockRecoveryFee(key, amount) \/ WithdrawRecoveryFee(key, amount)
    \/ \E amount \in 0..MaxFee : ContributeRecoveryFee(amount)
    \/ Tick

Spec == Init /\ [][Next]_vars

\* the clock advances, and anybody may call timed_confirm_recovery: somebody does
Fairness ==
    /\ WF_vars(Tick)
    /\ WF_vars(\E proposal \in RecoveryProposal : TimedConfirmRecovery(proposal))

FairSpec == Spec /\ Fairness

-----------------------------------------------------------------------------
(* Properties *)

Timers == [since : 0..MaxTime, delay : Minutes, proposal : RecoveryProposal]

\* Every variable has its type; in particular a timer never lies beyond the last instant
\* (add_minutes is checked) and the fee vault never goes below zero.
TypeOK ==
    /\ rules \in RuleSets \cup {LockedRuleSet}
    /\ controlled_asset \in BOOLEAN
    /\ delay \in Delays
    /\ locked \in BOOLEAN
    /\ primary_recovery \in Optional(RecoveryProposal)
    /\ primary_withdraw \in BOOLEAN
    /\ recovery_recovery \in Optional(RecoveryProposal)
    /\ allowed_after \in Optional(0..MaxTime)
    /\ recovery_withdraw \in BOOLEAN
    /\ xrd_fee_vault \in Optional(0..MaxFee)
    /\ recovery_badges \subseteq BadgeIds
    /\ now \in 0..MaxTime
    /\ madeUnder \in [AttemptNames -> RuleSets \cup {LockedRuleSet}]
    /\ running \in Optional(Timers)

Pending ==
    (IF primary_recovery # <<>> THEN {"primary recovery"} ELSE {}) \cup
    (IF primary_withdraw THEN {"primary withdraw"} ELSE {}) \cup
    (IF recovery_recovery # <<>> THEN {"recovery recovery"} ELSE {}) \cup
    (IF recovery_withdraw THEN {"recovery withdraw"} ELSE {})

\* A confirmation ends every attempt, of either role: what can still be confirmed was made
\* by a role under the rules now in force, never by a key that has lost its role since.
AttemptsUnderCurrentRules == \A a \in Pending : madeUnder[a] = rules

\* The controller ends with its badge: once it is withdrawn every role is denied, no attempt
\* is left that could give a role back (timed_confirm_recovery is public), and nobody gets a
\* proof of the empty vault.
WithdrawnMeansLocked ==
    ~controlled_asset =>
        /\ rules = LockedRuleSet
        /\ Pending = {}
        /\ \A key \in Keys : ~CanCreateProof(key)

\* A timed recovery takes effect only after its proposal stood for the whole delay that was
\* in force when it was made, and nobody stopped or cancelled it meanwhile.
TimedRecoveryWaits ==
    [][\A proposal \in RecoveryProposal : TimedConfirmRecovery(proposal) =>
          /\ running # <<>>
          /\ running[1].proposal = proposal
          /\ now >= running[1].since + running[1].delay]_vars

\* A timer that was started does not run for ever, whatever the roles do meanwhile (lock the
\* primary role, propose, mint): the proposal takes effect, or somebody stops or cancels it.
TimedRecoveryEnds == running # <<>> ~> running = <<>>
=============================================================================
