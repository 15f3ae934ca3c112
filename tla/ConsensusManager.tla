-------------------------- MODULE ConsensusManager --------------------------
(***************************************************************************)
(* The consensus manager: rounds, proposer timestamps and statistics, the  *)
(* change of epochs with its emissions and rewards, and the choice of the  *)
(* next validator set from the index of registered validators.  It owns    *)
(* the validators; users, owners and the proposers of rounds call them and *)
(* it in any order.  A call that fails changes nothing.                    *)
(***************************************************************************)
EXTENDS Validators

CONSTANTS min_validator_reliability, total_emission_xrd_per_epoch,
          Networks,            \* set size and epoch change conditions, with the bounds explored for each
          MILLIS_MEASURED,     \* 1000, the shortest duration that is compared to the target
          AddressOrder,        \* the validators in the order of their addresses
          GenesisStake,        \* stake per validator at genesis; the staked are registered
          InitialLeaders,      \* values of initial_current_leader
          InitialWallet, FirstKey, FirstFee,
          Staking,             \* validators that users stake to and unstake from
          Locking,             \* validators whose owners lock and unlock units
          Charging,            \* validators whose owners change the fee
          Switching,           \* validators that change registration and key
          MaxEpoch, MaxFee       \* bounds

ASSUME ConsensusManagerAssumption ==
  /\ min_validator_reliability \in 0 .. SCALE
  /\ total_emission_xrd_per_epoch \in Nat
  /\ Networks \subseteq [max_validators : Nat \ {0}, min_round_count : Nat, max_round_count : Nat \ {0},
                          target_duration_millis : Nat, max_time : Nat, max_gap : Nat,
                          max_calls : Nat]
  /\ GenesisStake \in [Validator -> Nat] /\ FirstKey \in [Validator -> Key]
  /\ FirstFee \in 0 .. SCALE
  /\ InitialLeaders \subseteq {<<>>} \cup {<<i>> : i \in 1 .. Cardinality(Validator)}
  /\ IsFiniteSet(Validator)
  /\ AddressOrder \in Seq(Validator)
  /\ Range(AddressOrder) = Validator /\ Len(AddressOrder) = Cardinality(Validator)
  /\ InitialWallet \in Nat /\ MaxEpoch \in Nat /\ MaxFee \in Nat
  /\ Staking \subseteq Validator /\ Locking \subseteq Validator
  /\ Charging \subseteq Validator /\ Switching \subseteq Validator

VARIABLES
  network,                       \* configured at genesis
  started, round,
  epoch_milli,                   \* the proposer's timestamp
  effective_epoch_start_milli,
  current_leader,                \* <<>> or the index of the leader in the set
  validator_set,                 \* sequence of [address, key, stake], by stake
  statistics,                    \* per member of the set, <<made, missed>>
  proposer_rewards,              \* per index, what it earned as a leader
  rewards_vault,
  calls                          \* calls of users and owners so far

clock == <<round, epoch_milli, effective_epoch_start_milli, current_leader>>
rewards == <<proposer_rewards, rewards_vault>>
manager == <<network, started, clock, validator_set, statistics, rewards>>
vars == <<epoch, staking, owners, fees, listing, manager, calls>>

Indices == 1 .. Cardinality(Validator)

-----------------------------------------------------------------------------
(* Genesis creates the validators, registers and stakes to them; it may    *)
(* name a leader before there is a set.                                    *)
Init ==
  /\ network \in Networks
  /\ epoch = 0 /\ round = 0 /\ started = FALSE
  /\ epoch_milli = 0 /\ effective_epoch_start_milli = 0
  /\ current_leader \in InitialLeaders
  /\ validator_set = <<>> /\ statistics = <<>>
  /\ proposer_rewards = [i \in Indices |-> 0] /\ rewards_vault = 0
  /\ wallet = InitialWallet
  /\ registered = [v \in Validator |-> GenesisStake[v] > 0]
  /\ key = FirstKey
  /\ stake = GenesisStake /\ unit_supply = GenesisStake /\ units = GenesisStake
  /\ pending_xrd = [v \in Validator |-> 0] /\ claims = [v \in Validator |-> <<>>]
  /\ locked_units = [v \in Validator |-> 0] /\ pending_units = [v \in Validator |-> 0]
  /\ withdrawals = [v \in Validator |-> <<>>] /\ already_unlocked = [v \in Validator |-> 0]
  /\ fee_factor = [v \in Validator |-> FirstFee] /\ fee_request = [v \in Validator |-> <<>>]
  /\ sorted_key = [v \in Validator |-> ToSortedKey(v, GenesisStake[v] > 0, GenesisStake[v])]
  /\ index = [k \in {sorted_key[v] : v \in {u \in Validator : GenesisStake[u] > 0}} |->
                [key |-> FirstKey[k[2]], stake |-> GenesisStake[k[2]]]]
  /\ calls = 0

-----------------------------------------------------------------------------
(* Emissions and rewards, from the statistics of the epoch that ends. *)
SuccessRatio(s) == IF s[1] + s[2] = 0 THEN SCALE ELSE Div(s[1], s[1] + s[2])
ReliabilityFactor(reliability) ==
  LET reserve == reliability - min_validator_reliability
      allowed == SCALE - min_validator_reliability
  IN IF reserve < 0 THEN 0
     ELSE IF allowed = 0 THEN (IF reliability = SCALE THEN SCALE ELSE 0)
     ELSE Div(reserve, allowed)

Members == DOMAIN validator_set
EffectiveStake(s, i) == Mul(validator_set[i].stake, ReliabilityFactor(SuccessRatio(s)))

EmissionPerStaked ==
  IF Members = {} THEN 0
  ELSE Div(total_emission_xrd_per_epoch,
           SumFunctionOnSet([i \in Members |-> validator_set[i].stake], Members))
(* What leaders did not earn is shared by effective stake; what rounding   *)
(* leaves stays in the vault.                                              *)
RewardPerEffectiveStake(total_effective_stake) ==
  IF total_effective_stake = 0 THEN 0
  ELSE Div(rewards_vault - SumFunctionOnSet(proposer_rewards, Members),
           total_effective_stake)

(* The pool of member i after both. *)
PoolAfter(i, emission, reward) ==
  LET v == validator_set[i].address
      p == ApplyEmission(Pool(v), emission, EffectiveFee(v, epoch))
  IN IF reward = 0 THEN p ELSE ApplyReward(p, reward)

-----------------------------------------------------------------------------
(* The next set: the first entries of the index, then by stake. *)
AddressBefore(a, b) ==
  \E i, j \in DOMAIN AddressOrder : i < j /\ AddressOrder[i] = a /\ AddressOrder[j] = b
KeyBefore(k, l) == k[1] < l[1] \/ (k[1] = l[1] /\ AddressBefore(k[2], l[2]))
NumberToRead == network.max_validators + network.max_validators \div 10 + 10
Scanned(ix) ==
  {k \in DOMAIN ix : Cardinality({l \in DOMAIN ix : KeyBefore(l, k)}) < NumberToRead}
(* Mutant: the order of the index, which is only by steps of stake. *)
StakeBefore_ByIndex(ix, k, l) == KeyBefore(k, l)
(* A stable sort: equal stakes stay in the order of the index. *)
StakeBefore(ix, k, l) ==
  \/ ix[k].stake > ix[l].stake
  \/ ix[k].stake = ix[l].stake /\ KeyBefore(k, l)
Place(ix, k) == 1 + Cardinality({l \in Scanned(ix) : StakeBefore(ix, l, k)})
SetSize(ix) == IF Cardinality(Scanned(ix)) < network.max_validators
               THEN Cardinality(Scanned(ix)) ELSE network.max_validators
NextValidatorSet(ix) ==
  [i \in 1 .. SetSize(ix) |->
     LET k == CHOOSE l \in Scanned(ix) : Place(ix, l) = i
     IN [address |-> k[2], key |-> ix[k].key, stake |-> ix[k].stake]]

(* epoch_change, with the statistics that the last round left. *)
EpochChange(stats) ==
  LET eff == [i \in Members |-> EffectiveStake(stats[i], i)]
      emitted == EmissionPerStaked
      shared == RewardPerEffectiveStake(SumFunctionOnSet(eff, Members))
      reward == [i \in Members |-> proposer_rewards[i] + Mul(eff[i], shared)]
      paid == {validator_set[i].address : i \in Members}
      after == [v \in paid |->
                  LET i == CHOOSE m \in Members : validator_set[m].address = v
                  IN PoolAfter(i, Mul(eff[i], emitted), reward[i])]
  IN /\ epoch < MaxEpoch
     /\ epoch' = epoch + 1
     /\ round' = 0
     /\ stake' = [v \in Validator |-> IF v \in paid THEN after[v].stake ELSE stake[v]]
     /\ unit_supply' =
          [v \in Validator |-> IF v \in paid THEN after[v].unit_supply ELSE unit_supply[v]]
     /\ locked_units' =
          [v \in Validator |-> IF v \in paid THEN after[v].locked ELSE locked_units[v]]
     /\ rewards_vault' = rewards_vault - SumFunctionOnSet(reward, Members)
     /\ proposer_rewards' = [i \in Indices |-> IF paid = {} THEN proposer_rewards[i] ELSE 0]
     /\ IndexUpdate(paid, registered, stake')
     /\ validator_set' = NextValidatorSet(index')
     /\ statistics' = [i \in DOMAIN validator_set' |-> <<0, 0>>]
     /\ UNCHANGED <<wallet, units, pending_xrd, claims, pending_units, withdrawals,
                    already_unlocked, fees, registered, key, calls>>

Start ==
  /\ ~started
  /\ started' = TRUE
  /\ EpochChange(statistics)
  /\ UNCHANGED <<network, epoch_milli, effective_epoch_start_milli, current_leader>>

-----------------------------------------------------------------------------
(* When an epoch ends, and when the next one is deemed to have begun. *)
Duration(t) ==
  IF t > effective_epoch_start_milli THEN t - effective_epoch_start_milli ELSE 0
ChangeCriterionMet(r, t) ==
  \/ r >= network.max_round_count
  \/ r >= network.min_round_count /\ Duration(t) >= network.target_duration_millis
CloseToTarget(t) ==
  /\ Duration(t) >= MILLIS_MEASURED /\ network.target_duration_millis >= MILLIS_MEASURED
  /\ (Duration(t) - network.target_duration_millis) * 10 <= network.target_duration_millis
NextEffectiveStart(t) ==
  IF CloseToTarget(t) THEN effective_epoch_start_milli + network.target_duration_millis ELSE t

(* Mutant: only the leader of the last round is counted. *)
UpdatedStatistics_NoGaps(gaps, leader, is_fallback) ==
  [i \in DOMAIN statistics |->
     LET fell == IF i = leader /\ is_fallback THEN 1 ELSE 0
         made == IF i = leader /\ ~is_fallback THEN 1 ELSE 0
     IN <<statistics[i][1] + made, statistics[i][2] + fell>>]
(* Leaders of the rounds that were skipped missed their proposals. *)
UpdatedStatistics(gaps, leader, is_fallback) ==
  [i \in DOMAIN statistics |->
     LET missed == Cardinality({g \in DOMAIN gaps : gaps[g] = i})
         fell == IF i = leader /\ is_fallback THEN 1 ELSE 0
         made == IF i = leader /\ ~is_fallback THEN 1 ELSE 0
     IN <<statistics[i][1] + made, statistics[i][2] + missed + fell>>]

NextRound(r, t, gaps, leader, is_fallback) ==
  /\ t >= epoch_milli
  /\ r > round /\ Len(gaps) = r - round - 1
  /\ leader \in DOMAIN statistics /\ Range(gaps) \subseteq DOMAIN statistics
  /\ LET stats == UpdatedStatistics(gaps, leader, is_fallback)
     IN \/ /\ ~ChangeCriterionMet(r, t)
           /\ round' = r
           /\ statistics' = stats
           /\ UNCHANGED <<epoch, staking, owners, fees, listing, effective_epoch_start_milli,
                          validator_set, rewards, calls>>
        \/ /\ ChangeCriterionMet(r, t)
           /\ EpochChange(stats)
           /\ effective_epoch_start_milli' = NextEffectiveStart(t)
  /\ epoch_milli' = t
  /\ current_leader' = <<leader>>
  /\ UNCHANGED <<network, started>>

(* Fees of a transaction: the leader's part and the part of the set. *)
FinalizeFees(to_proposer, to_validator_set) ==
  /\ to_proposer + to_validator_set \in 1 .. wallet
  /\ wallet' = wallet - to_proposer - to_validator_set
  /\ proposer_rewards' =
       IF current_leader = <<>> THEN proposer_rewards
       ELSE [proposer_rewards EXCEPT ![current_leader[1]] = @ + to_proposer]
  /\ rewards_vault' = rewards_vault + to_proposer + to_validator_set
  /\ UNCHANGED <<epoch, stake, unit_supply, units, pending_xrd, claims, owners, fees, listing,
                 network, started, clock, validator_set, statistics>>

-----------------------------------------------------------------------------
Some(amount) == {1, amount} \cap 1 .. amount

Next ==
  \/ Start
  \/ \E progress \in 1 .. network.max_gap + 1, t \in epoch_milli .. network.max_time, leader \in Members,
        is_fallback \in BOOLEAN :
       \E gaps \in [1 .. progress - 1 -> Members] :
         NextRound(round + progress, t, gaps, leader, is_fallback)
  \/ /\ started /\ calls < network.max_calls /\ calls' = calls + 1
     /\ \/ \E p \in 0 .. MaxFee, s \in 0 .. MaxFee : FinalizeFees(p, s)
        \/ /\ UNCHANGED manager
           /\ \/ \E v \in Staking :
                   \/ \E x \in Some(wallet) : Stake(v, x)
                   \/ \E u \in Some(units[v]) : Unstake(v, u)
                   \/ \E nfts \in SUBSET DOMAIN claims[v] \ {{}} : ClaimXrd(v, nfts)
              \/ \E v \in Locking :
                   \/ \E u \in Some(units[v]) : LockOwnerStakeUnits(v, u)
                   \/ \E u \in Some(locked_units[v]) : StartUnlock(v, u)
                   \/ FinishUnlock(v)
              \/ \E v \in Switching :
                   \/ \E new \in BOOLEAN : RegisterUpdate(v, new)
                   \/ \E k \in Key : UpdateKey(v, k)
              \/ \E v \in Charging, f \in FeeFactors : UpdateFee(v, f)

Spec == Init /\ [][Next]_vars

-----------------------------------------------------------------------------
(* The index lists exactly the registered validators that have stake, each *)
(* once, under the key its stake gives it and with its current stake and   *)
(* public key; the key a validator caches is that key.  Staking, emission, *)
(* rewards, registration and key changes all maintain it incrementally.    *)
IndexIsExact ==
  LET listed == {v \in Validator : registered[v] /\ stake[v] > 0}
  IN /\ DOMAIN index = {<<SortPrefix(stake[v]), v>> : v \in listed}
     /\ \A k \in DOMAIN index : index[k] = [key |-> key[k[2]], stake |-> stake[k[2]]]
     /\ \A v \in Validator : sorted_key[v] = ToSortedKey(v, registered[v], stake[v])

(* Every promise has its resources apart from the stake: claim NFTs, the   *)
(* units that owners unlock, and the rewards of leaders; no claim, unlock  *)
(* or end of an epoch can find a vault short.                              *)
PromisesAreBacked ==
  /\ \A v \in Validator :
       /\ pending_xrd[v] = ClaimAmount(v, DOMAIN claims[v])
       /\ pending_units[v] = already_unlocked[v]
            + SumFunctionOnSet(withdrawals[v], DOMAIN withdrawals[v])
       /\ unit_supply[v] = units[v] + locked_units[v] + pending_units[v]
  /\ SumFunctionOnSet(proposer_rewards, Indices) <= rewards_vault

(* Each round of the epoch is on the record of exactly one member of the   *)
(* current set, as made or missed, although rounds are skipped.            *)
RoundsAreAccounted ==
  /\ DOMAIN statistics = DOMAIN validator_set
  /\ SumFunctionOnSet([i \in Members |-> statistics[i][1] + statistics[i][2]], Members) = round

(* Members are the validators with the most stake when their epoch began,  *)
(* in that order, also where the index cannot tell their stakes apart.     *)
(* This is so as long as the number of entries that epoch_change reads     *)
(* reaches the whole index, which it does not promise: validators within   *)
(* the last step of stake that it reads may be missed.                     *)
SetIsByStake ==
  [][epoch' # epoch =>
       /\ \A i, j \in DOMAIN validator_set' :
            i < j => validator_set'[i].stake >= validator_set'[j].stake
       /\ \A i \in DOMAIN validator_set' : validator_set'[i].stake = stake'[validator_set'[i].address]
       /\ \A v \in Validator :
            (registered[v] /\ stake'[v] > 0 /\ \A i \in DOMAIN validator_set' : validator_set'[i].address # v)
              => /\ Len(validator_set') = network.max_validators
                 /\ stake'[v] <= validator_set'[network.max_validators].stake]_vars

Rork == wallet + rewards_vault
          + SumFunctionOnSet([v \in Validator |-> stake[v] + pending_xrd[v]], Validator)
(* Only the end of an epoch creates RORK, at most the configured emission, *)
(* and nothing a user, an owner or the manager does makes a stake unit     *)
(* worth less, rounding included.                                          *)
ValueIsPreserved ==
  [][/\ Rork' - Rork \in 0 .. (IF epoch' = epoch THEN 0 ELSE total_emission_xrd_per_epoch)
     /\ \A v \in Validator : stake'[v] * unit_supply[v] >= stake[v] * unit_supply'[v]]_vars

(* A delegator who looks at the fee now and at the one requested will not  *)
(* be charged more in any epoch sooner than the notice period away.        *)
HighestFee(v, e) == IF EffectiveFee(v, e) > EffectiveFee(v, epoch) THEN EffectiveFee(v, e)
                    ELSE EffectiveFee(v, epoch)
FeeIncreasesAnnounced ==
  [][\A v \in Validator : \A e \in epoch' .. epoch + num_fee_increase_delay_epochs - 1 :
       HighestFee(v, e)' <= HighestFee(v, e)]_vars

(* What EpochChangeCondition takes for granted of its arguments: the epoch *)
(* is not deemed to begin later than it is.                                *)
EffectiveStartReached == effective_epoch_start_milli <= epoch_milli
=============================================================================
