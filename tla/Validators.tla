---------------------------- MODULE Validators ----------------------------
(***************************************************************************)
(* The validators of the network: the stake each one holds, the units that *)
(* represent it, the claims of those who unstaked, the units its owner     *)
(* locks, its fee, and its entry in the consensus manager's index of       *)
(* registered validators by stake.                                         *)
(*                                                                         *)
(* Amounts count the smallest unit of a decimal, of which SCALE make one.  *)
(***************************************************************************)
EXTENDS Integers, Sequences, FiniteSets, Functions

CONSTANTS Validator, Key,
          SCALE,               \* Decimal::ONE in smallest units
          StakeDivisor,        \* 100k, the stake that makes one step of the sort key
          MaxSortKey,          \* u16::MAX
          FeeFactors,          \* fee factors owners ask for
          num_unstake_epochs, num_owner_stake_units_unlock_epochs,
          num_fee_increase_delay_epochs

ASSUME ValidatorsAssumption ==
  /\ SCALE \in Nat \ {0} /\ StakeDivisor \in Nat \ {0} /\ MaxSortKey \in Nat
  /\ FeeFactors \subseteq 0 .. SCALE
  /\ num_unstake_epochs \in Nat /\ num_owner_stake_units_unlock_epochs \in Nat
  /\ num_fee_increase_delay_epochs \in Nat \ {0}

VARIABLES
  epoch,                 \* of the consensus manager, which validators read
  wallet,                \* RORK outside the vaults below
  registered, key,
  stake,                 \* amount of the stake vault
  unit_supply,           \* stake units that exist
  units,                 \* of these, the ones users hold
  pending_xrd,           \* amount of the vault of unstaked RORK
  claims,                \* id of a claim NFT -> <<claim_epoch, claim_amount>>
  locked_units,          \* amount of the owner's vault of locked units
  pending_units,         \* amount of the vault of units being unlocked
  withdrawals,           \* epoch -> units that are unlocked then
  already_unlocked,
  fee_factor, fee_request,   \* the request is <<>> or <<epoch_effective, new factor>>
  sorted_key,            \* <<>> or the validator's key in the index
  index                  \* sort prefix and validator -> [key, stake]

staking == <<wallet, stake, unit_supply, units, pending_xrd, claims>>
owners == <<locked_units, pending_units, withdrawals, already_unlocked>>
fees == <<fee_factor, fee_request>>
listing == <<registered, key, sorted_key, index>>

-----------------------------------------------------------------------------
(* Decimals round towards zero. *)
Mul(a, b) == (a * b) \div SCALE
Div(a, b) == (a * SCALE) \div b

StakeUnitAmount(xrd, total_xrd, supply) ==
  IF total_xrd = 0 THEN xrd ELSE Mul(xrd, Div(supply, total_xrd))
(* Mutant: the value is rounded to the nearest unit. *)
RedemptionValue_Nearest(v, amount) ==
  IF unit_supply[v] = 0 THEN 0
  ELSE (2 * amount * stake[v] + unit_supply[v]) \div (2 * unit_supply[v])
RedemptionValue(v, amount) ==
  IF unit_supply[v] = 0 THEN 0 ELSE Mul(amount, Div(stake[v], unit_supply[v]))

(* The index sorts by prefix: more stake, smaller prefix. *)
SortPrefix(amount) ==
  MaxSortKey - (IF amount \div StakeDivisor > MaxSortKey THEN MaxSortKey
                ELSE amount \div StakeDivisor)
ToSortedKey(v, is_registered, amount) ==
  IF is_registered /\ amount > 0 THEN <<SortPrefix(amount), v>> ELSE <<>>

(* Mutant: the cached key is compared by its prefix, and kept. *)
IndexUpdate_SamePrefix(U, is_registered, amount) ==
  LET new == [v \in Validator |->
                IF v \in U THEN ToSortedKey(v, is_registered[v], amount[v]) ELSE sorted_key[v]]
      kept == DOMAIN index \ {sorted_key[v] : v \in {u \in U : new[u] # sorted_key[u]}}
      added == {new[v] : v \in {u \in U : new[u] # <<>> /\ new[u] # sorted_key[u]}}
  IN /\ sorted_key' = new
     /\ index' = [k \in kept \cup added |->
                    IF k \in added
                    THEN [key |-> IF sorted_key[k[2]] = <<>> THEN key[k[2]]
                                  ELSE index[sorted_key[k[2]]].key,
                          stake |-> amount[k[2]]]
                    ELSE index[k]]
(* index_update and update_validator for the validators U: the entry under *)
(* the cached key goes, one with the new stake comes under the new key and *)
(* keeps the public key it had.                                            *)
IndexUpdate(U, is_registered, amount) ==
  LET new == [v \in Validator |->
                IF v \in U THEN ToSortedKey(v, is_registered[v], amount[v]) ELSE sorted_key[v]]
      kept == DOMAIN index \ {sorted_key[v] : v \in U}
      added == {new[v] : v \in {u \in U : new[u] # <<>>}}
  IN /\ sorted_key' = new
     /\ index' = [k \in kept \cup added |->
                    IF k \in added
                    THEN [key |-> IF sorted_key[k[2]] = <<>> THEN key[k[2]]
                                  ELSE index[sorted_key[k[2]]].key,
                          stake |-> amount[k[2]]]
                    ELSE index[k]]

-----------------------------------------------------------------------------
(* stake_as_owner; stake does the same if delegated stake is accepted. *)
Stake(v, xrd) ==
  LET minted == StakeUnitAmount(xrd, stake[v], unit_supply[v])
  IN /\ xrd <= wallet
     /\ wallet' = wallet - xrd
     /\ stake' = [stake EXCEPT ![v] = @ + xrd]
     /\ unit_supply' = [unit_supply EXCEPT ![v] = @ + minted]
     /\ units' = [units EXCEPT ![v] = @ + minted]
     /\ IndexUpdate({v}, registered, stake')
     /\ UNCHANGED <<epoch, pending_xrd, claims, owners, fees, registered, key>>

(* The claim NFTs of a validator have distinct ids; which id a new one is  *)
(* given is of no consequence.                                             *)
NewClaim(v) ==
  CHOOSE id \in 0 .. Cardinality(DOMAIN claims[v]) : id \notin DOMAIN claims[v]
Unstake(v, amount) ==
  LET xrd == RedemptionValue(v, amount)
      minted == NewClaim(v)
  IN /\ amount <= units[v]
     /\ xrd <= stake[v]
     /\ units' = [units EXCEPT ![v] = @ - amount]
     /\ unit_supply' = [unit_supply EXCEPT ![v] = @ - amount]
     /\ stake' = [stake EXCEPT ![v] = @ - xrd]
     /\ pending_xrd' = [pending_xrd EXCEPT ![v] = @ + xrd]
     /\ claims' = [claims EXCEPT ![v] =
          [id \in DOMAIN claims[v] \cup {minted} |->
             IF id = minted THEN <<epoch + num_unstake_epochs, xrd>> ELSE claims[v][id]]]
     /\ IndexUpdate({v}, registered, stake')
     /\ UNCHANGED <<epoch, wallet, owners, fees, registered, key>>

(* claim_xrd with a bucket of claim NFTs. *)
ClaimAmount(v, nfts) == SumFunctionOnSet([id \in nfts |-> claims[v][id][2]], nfts)
ClaimXrd(v, nfts) ==
  /\ nfts \subseteq DOMAIN claims[v]
  /\ \A id \in nfts : epoch >= claims[v][id][1]
  /\ ClaimAmount(v, nfts) <= pending_xrd[v]
  /\ claims' = [claims EXCEPT ![v] = [id \in DOMAIN claims[v] \ nfts |-> claims[v][id]]]
  /\ pending_xrd' = [pending_xrd EXCEPT ![v] = @ - ClaimAmount(v, nfts)]
  /\ wallet' = wallet + ClaimAmount(v, nfts)
  /\ UNCHANGED <<epoch, stake, unit_supply, units, owners, fees, listing>>

-----------------------------------------------------------------------------
(* register and unregister; a call that changes nothing returns early. *)
RegisterUpdate(v, new) ==
  /\ registered[v] # new
  /\ registered' = [registered EXCEPT ![v] = new]
  /\ IndexUpdate({v}, registered', stake)
  /\ UNCHANGED <<epoch, staking, owners, fees, key>>

UpdateKey(v, k) ==
  /\ k # key[v]
  /\ key' = [key EXCEPT ![v] = k]
  /\ index' = [i \in DOMAIN index |->
                 IF i = sorted_key[v] THEN [key |-> k, stake |-> index[i].stake] ELSE index[i]]
  /\ UNCHANGED <<epoch, staking, owners, fees, registered, sorted_key>>

(* The factor that applies to the emission of epoch e. *)
EffectiveFee(v, e) ==
  IF fee_request[v] # <<>> /\ fee_request[v][1] <= e THEN fee_request[v][2] ELSE fee_factor[v]

(* Mutant: a request that has become effective is not promoted. *)
UpdateFee_Unpromoted(v, factor) ==
  /\ fee_request' = [fee_request EXCEPT ![v] =
       <<IF factor > fee_factor[v] THEN epoch + num_fee_increase_delay_epochs ELSE epoch + 1,
         factor>>]
  /\ UNCHANGED <<epoch, staking, owners, listing, fee_factor>>
UpdateFee(v, factor) ==
  LET current == EffectiveFee(v, epoch)
  IN /\ fee_factor' = [fee_factor EXCEPT ![v] = current]
     /\ fee_request' = [fee_request EXCEPT ![v] =
          <<IF factor > current THEN epoch + num_fee_increase_delay_epochs ELSE epoch + 1,
            factor>>]
     /\ UNCHANGED <<epoch, staking, owners, listing>>

-----------------------------------------------------------------------------
LockOwnerStakeUnits(v, amount) ==
  /\ amount <= units[v]
  /\ units' = [units EXCEPT ![v] = @ - amount]
  /\ locked_units' = [locked_units EXCEPT ![v] = @ + amount]
  /\ UNCHANGED <<epoch, wallet, stake, unit_supply, pending_xrd, claims, fees, listing,
                 pending_units, withdrawals, already_unlocked>>

(* What normalize_available_owner_stake_unit_withdrawals leaves and moves. *)
Available(v) == {e \in DOMAIN withdrawals[v] : e <= epoch}
Unlocked(v) == already_unlocked[v] + SumFunctionOnSet(withdrawals[v], Available(v))

(* Mutant: a withdrawal for the same epoch replaces the earlier one. *)
StartUnlock_Overwrites(v, amount) ==
  LET later == DOMAIN withdrawals[v] \ Available(v)
      e == epoch + num_owner_stake_units_unlock_epochs
  IN /\ amount <= locked_units[v]
     /\ already_unlocked' = [already_unlocked EXCEPT ![v] = Unlocked(v)]
     /\ withdrawals' = [withdrawals EXCEPT ![v] =
          [x \in later \cup {e} |-> IF x = e THEN amount ELSE withdrawals[v][x]]]
     /\ locked_units' = [locked_units EXCEPT ![v] = @ - amount]
     /\ pending_units' = [pending_units EXCEPT ![v] = @ + amount]
     /\ UNCHANGED <<epoch, staking, fees, listing>>
StartUnlock(v, amount) ==
  LET later == DOMAIN withdrawals[v] \ Available(v)
      e == epoch + num_owner_stake_units_unlock_epochs
      pending == IF e \in later THEN withdrawals[v][e] ELSE 0
  IN /\ amount <= locked_units[v]
     /\ already_unlocked' = [already_unlocked EXCEPT ![v] = Unlocked(v)]
     /\ withdrawals' = [withdrawals EXCEPT ![v] =
          [x \in later \cup {e} |-> IF x = e THEN pending + amount ELSE withdrawals[v][x]]]
     /\ locked_units' = [locked_units EXCEPT ![v] = @ - amount]
     /\ pending_units' = [pending_units EXCEPT ![v] = @ + amount]
     /\ UNCHANGED <<epoch, staking, fees, listing>>

FinishUnlock(v) ==
  /\ Unlocked(v) <= pending_units[v]
  /\ already_unlocked' = [already_unlocked EXCEPT ![v] = 0]
  /\ withdrawals' = [withdrawals EXCEPT ![v] =
       [x \in DOMAIN withdrawals[v] \ Available(v) |-> withdrawals[v][x]]]
  /\ pending_units' = [pending_units EXCEPT ![v] = @ - Unlocked(v)]
  /\ units' = [units EXCEPT ![v] = @ + Unlocked(v)]
  /\ UNCHANGED <<epoch, wallet, stake, unit_supply, pending_xrd, claims, fees, listing,
                 locked_units>>

-----------------------------------------------------------------------------
(* What the consensus manager calls at the end of an epoch.  A pool is the *)
(* stake, the units and the part of them that the owner's vault holds; the *)
(* units minted for a fee or a reward are locked there.                    *)
Pool(v) == [stake |-> stake[v], unit_supply |-> unit_supply[v], locked |-> locked_units[v]]
WithStakeFor(p, net, xrd) ==
  LET minted == StakeUnitAmount(xrd, p.stake + net, p.unit_supply)
  IN [stake |-> p.stake + net + xrd, unit_supply |-> p.unit_supply + minted,
      locked |-> p.locked + minted]

ApplyEmission(p, xrd, factor) ==
  LET fee == Mul(factor, xrd) IN WithStakeFor(p, xrd - fee, fee)
ApplyReward(p, xrd) == WithStakeFor(p, 0, xrd)
=============================================================================
