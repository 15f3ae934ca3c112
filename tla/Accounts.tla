------------------------------ MODULE Accounts ------------------------------
(***************************************************************************)
(* Resource managers, the vaults of accounts and of an account locker, the *)
(* deposit rules of the accounts, and the buckets that travel between them *)
(* in transactions.                                                        *)
(*                                                                         *)
(* The owners of accounts and of resources may call what they are entitled *)
(* to at any time; a method that fails aborts its transaction, which leads *)
(* back to an earlier state, so a failing call is a disabled action.  The  *)
(* worktop stands for all buckets of a transaction, as these can be split  *)
(* and joined freely.                                                      *)
(***************************************************************************)
EXTENDS Resources

CONSTANTS Accounts,
          Managed,       \* accounts whose owners withdraw and change settings
          Depositing,    \* accounts whose owners call deposit themselves
          RORK,          \* the resource every account accepts under AllowExisting
          Freezable,     \* resources with vault_freeze, and so on for
          Recallable,    \* the other features
          Mintable, Burnable,
          Badges,        \* badges an account may authorise
          Held,          \* the badges that depositors have, and so can show
          Bottlenose,    \* whether a badge that is not on the list gets a refund
          InitialSettings,  \* what the owners of managed accounts have set before
          MaxChanges,    \* changes of rules, preferences, depositors and flags
          Provable,      \* resources of which proofs are made
          MaxProofs      \* proofs on one unit or id of a vault

LockerBadge == "global_caller(locker)"
Flags == {"WITHDRAW", "DEPOSIT", "BURN"}
Rules == {"Accept", "Reject", "AllowExisting"}
Preferences == {"None", "Allowed", "Disallowed"}

ASSUME AccountsAssumption ==
  /\ RORK \in Fungibles \ Freezable
  /\ Freezable \cup Recallable \cup Mintable \cup Burnable \subseteq Resource
  /\ Held \subseteq Badges
  /\ Bottlenose \in BOOLEAN /\ MaxChanges \in Nat
  /\ InitialSettings \subseteq [rule : Rules, preference : [Resource -> Preferences],
                              depositors : SUBSET (Badges \cup {LockerBadge})]

(* A vault is known by who keeps it ("account", or "locker" on behalf of   *)
(* the account), the account and the resource.                             *)
Slot == {"account", "locker"} \X Accounts \X Resource

VARIABLES
  vaults,                 \* the vaults that exist: slot -> [container, amount, frozen]
  total_supply,           \* per resource
  data,                   \* data entry per non-fungible: "none", "live", "burned" (locked)
  worktop,                \* per resource, what the buckets in flight hold
  default_deposit_rule, resource_preference, authorized_depositors,   \* per account
  changes
settings == <<default_deposit_rule, resource_preference, authorized_depositors>>
vars == <<vaults, total_supply, data, worktop, settings, changes>>

Size(r, x) == IF r \in Fungibles THEN x ELSE Cardinality(x)

-----------------------------------------------------------------------------
(* Vaults.  A non-fungible vault keeps a count of its liquid ids besides   *)
(* their index; the part locked by proofs is in neither.                   *)
NewVault(r) == [container |-> NewContainer(r, Nothing(r)), amount |-> 0, frozen |-> {}]
Counted(v, c, delta) ==
  [container |-> c, frozen |-> v.frozen,
   amount |-> IF c.resource \in Fungibles THEN 0 ELSE v.amount + delta]
VaultTake(v, x) == Counted(v, Take(v.container, x), -Size(v.container.resource, x))
VaultPut(v, x) == Counted(v, Put(v.container, x), Size(v.container.resource, x))

(* Take by amount: n ids that the index yields first. *)
TakenByAmount(v, n) ==
  IF v.container.resource \in Fungibles
  THEN {n} \cap 0 .. v.container.liquid
  ELSE {x \in SUBSET v.container.liquid :
          /\ v.amount >= n
          /\ Cardinality(x) = n \/ (Cardinality(x) < n /\ x = v.container.liquid)}

(* Mutant: ids that another proof has locked already are counted again. *)
VaultLock_CountsAll(v, x) ==
  Counted(v, Lock(v.container, x), -Size(v.container.resource, x))
VaultLock(v, x) ==
  Counted(v, Lock(v.container, x), -Size(v.container.resource, LockDelta(v.container, x)))
VaultUnlock(v, x) ==
  LET r == v.container.resource
      n == [k \in LockKeys(r) |-> IF k \in KeysOf(r, x) THEN 1 ELSE 0]
      c == UnlockCounts(v.container, n)
  IN Counted(v, c, Size(r, Without(r, c.liquid, v.container.liquid)))

NotFrozen(v, flag) == flag \notin v.frozen

(* get_vault(.., create) and with_vault_create_on_traversal. *)
VaultAt(s) == IF s \in DOMAIN vaults THEN vaults[s] ELSE NewVault(s[3])
VaultsOf(r) == {s \in DOMAIN vaults : s[3] = r}
CanPut(s) == NotFrozen(VaultAt(s), "DEPOSIT")
AfterPut(given) ==
  [s \in DOMAIN vaults \cup DOMAIN given |->
     IF s \in DOMAIN given THEN VaultPut(VaultAt(s), given[s]) ELSE vaults[s]]
SetVault(s, v) == vaults' = [t \in DOMAIN vaults \cup {s} |-> IF t = s THEN v ELSE vaults[t]]

-----------------------------------------------------------------------------
(* create_local *)
Fresh == [rule |-> "Accept", preference |-> [r \in Resource |-> "None"], depositors |-> {}]

Init ==
  /\ vaults = <<>>
  /\ total_supply = [r \in Resource |-> 0]
  /\ data = [r \in NonFungibles |-> [i \in Ids |-> "none"]]
  /\ worktop = [r \in Resource |-> Nothing(r)]
  /\ \E set \in [Accounts -> InitialSettings \cup {Fresh}] :
       /\ \A a \in Accounts : IF a \in Managed THEN set[a] \in InitialSettings
                                ELSE set[a] = Fresh
       /\ default_deposit_rule = [a \in Accounts |-> set[a].rule]
       /\ resource_preference = [a \in Accounts |-> set[a].preference]
       /\ authorized_depositors = [a \in Accounts |-> set[a].depositors]
  /\ changes = 0

ToWorktop(r, x) == worktop' = [worktop EXCEPT ![r] = Join(r, @, x)]
FromWorktop(r, x) ==
  /\ Covers(r, worktop[r], x)
  /\ worktop' = [worktop EXCEPT ![r] = Without(r, @, x)]

-----------------------------------------------------------------------------
(* Resource managers, with the feature that tracks the total supply. *)
MintFungible(r, x) ==
  /\ r \in Mintable \cap Fungibles
  /\ total_supply[r] + x <= MaxUnits
  /\ total_supply' = [total_supply EXCEPT ![r] = @ + x]
  /\ ToWorktop(r, x)
  /\ UNCHANGED <<vaults, data, settings, changes>>

(* Opening the entry of a burned id for writing fails: it is locked. *)
CanCreate(r, i) == data[r][i] = "none"
MintNonFungible(r, x) ==
  /\ r \in Mintable \cap NonFungibles
  /\ \A i \in x : CanCreate(r, i)
  /\ total_supply' = [total_supply EXCEPT ![r] = @ + Cardinality(x)]
  /\ data' = [data EXCEPT ![r] = [i \in Ids |-> IF i \in x THEN "live" ELSE @[i]]]
  /\ ToWorktop(r, x)
  /\ UNCHANGED <<vaults, settings, changes>>

BurnInternal(r, x) ==
  /\ r \in Burnable
  /\ total_supply' = [total_supply EXCEPT ![r] = @ - Size(r, x)]
  /\ data' = IF r \in Fungibles THEN data
             ELSE [data EXCEPT ![r] = [i \in Ids |-> IF i \in x THEN "burned" ELSE @[i]]]
Burn(r, x) ==
  /\ FromWorktop(r, x)
  /\ BurnInternal(r, x)
  /\ UNCHANGED <<vaults, settings, changes>>

-----------------------------------------------------------------------------
(* What an account's owner does with its vaults. *)
Withdraw(a, r, x) ==
  LET s == <<"account", a, r>>
  IN /\ s \in DOMAIN vaults
     /\ NotFrozen(vaults[s], "WITHDRAW")
     /\ CanTake(vaults[s].container, x)
     /\ SetVault(s, VaultTake(vaults[s], x))
     /\ ToWorktop(r, x)
     /\ UNCHANGED <<total_supply, data, settings, changes>>

WithdrawAmount(a, r, n) ==
  LET s == <<"account", a, r>>
  IN /\ s \in DOMAIN vaults
     /\ NotFrozen(vaults[s], "WITHDRAW")
     /\ \E x \in TakenByAmount(vaults[s], n) :
          /\ SetVault(s, Counted(vaults[s], Take(vaults[s].container, x), -n))
          /\ ToWorktop(r, x)
     /\ UNCHANGED <<total_supply, data, settings, changes>>

(* Mutant: only the burn flag is looked at. *)
AccountBurn_WhenWithdrawFrozen(a, r, x) ==
  LET s == <<"account", a, r>>
  IN /\ s \in DOMAIN vaults
     /\ NotFrozen(vaults[s], "BURN")
     /\ CanTake(vaults[s].container, x)
     /\ SetVault(s, VaultTake(vaults[s], x))
     /\ BurnInternal(r, x)
     /\ UNCHANGED <<worktop, settings, changes>>
(* burn takes like withdraw does, so both flags forbid it. *)
AccountBurn(a, r, x) ==
  LET s == <<"account", a, r>>
  IN /\ s \in DOMAIN vaults
     /\ NotFrozen(vaults[s], "BURN") /\ NotFrozen(vaults[s], "WITHDRAW")
     /\ CanTake(vaults[s].container, x)
     /\ SetVault(s, VaultTake(vaults[s], x))
     /\ BurnInternal(r, x)
     /\ UNCHANGED <<worktop, settings, changes>>

CreateProof(a, r, x) ==
  LET s == <<"account", a, r>>
  IN /\ s \in DOMAIN vaults
     /\ CanLock(vaults[s].container, x)
     /\ \A k \in KeysOf(r, x) : vaults[s].container.locked[k] < MaxProofs
     /\ SetVault(s, VaultLock(vaults[s], x))
     /\ UNCHANGED <<total_supply, data, worktop, settings, changes>>

DropProof(s, x) ==
  /\ s \in DOMAIN vaults
  /\ KeysOf(s[3], x) # {} /\ KeysOf(s[3], x) \subseteq LockedKeys(vaults[s].container)
  /\ SetVault(s, VaultUnlock(vaults[s], x))
  /\ UNCHANGED <<total_supply, data, worktop, settings, changes>>

-----------------------------------------------------------------------------
(* Deposits: xs maps the resources of a batch to what is deposited. *)
AccountSlots(a, xs) == {<<"account", a, r>> : r \in DOMAIN xs}
Deposited(a, xs) ==
  /\ \A r \in DOMAIN xs : Covers(r, worktop[r], xs[r])
  /\ \A s \in AccountSlots(a, xs) : CanPut(s)
  /\ vaults' = AfterPut([s \in AccountSlots(a, xs) |-> xs[s[3]]])
  /\ worktop' = [r \in Resource |->
                   IF r \in DOMAIN xs THEN Without(r, worktop[r], xs[r]) ELSE worktop[r]]
  /\ UNCHANGED <<total_supply, data, settings, changes>>

(* deposit and deposit_batch, by the account's owner. *)
DepositBatch(a, xs) == a \in Depositing /\ Deposited(a, xs)

(* is_deposit_allowed: the preference overrides the default rule. *)
IsDepositAllowed(a, r) ==
  \/ resource_preference[a][r] = "Allowed"
  \/ /\ resource_preference[a][r] = "None"
     /\ \/ default_deposit_rule[a] = "Accept"
        \/ /\ default_deposit_rule[a] = "AllowExisting"
           /\ r = RORK \/ <<"account", a, r>> \in DOMAIN vaults

(* try_deposit_batch_or_refund: badge is <<>> or <<badge>>, shown the      *)
(* badges that the caller's auth zone has.                                 *)
(* Mutant: naming an authorised badge is enough. *)
TryDeposit_Unproved(a, R, badge, shown) ==
  IF \A r \in R : IsDepositAllowed(a, r) THEN "deposit"
  ELSE IF badge = <<>> THEN "refund"
  ELSE IF badge[1] \notin authorized_depositors[a]
       THEN IF Bottlenose THEN "refund" ELSE "error"
  ELSE "deposit"
TryDeposit(a, R, badge, shown) ==
  IF \A r \in R : IsDepositAllowed(a, r) THEN "deposit"
  ELSE IF badge = <<>> THEN "refund"
  ELSE IF badge[1] \notin authorized_depositors[a]
       THEN IF Bottlenose THEN "refund" ELSE "error"
  ELSE IF badge[1] \in shown THEN "deposit" ELSE "error"

BadgeArgs == {<<>>} \cup {<<b>> : b \in Badges \cup {LockerBadge}}
(* The refunded buckets are on the worktop again; .._or_abort fails.       *)
TryDepositBatch(a, xs) ==
  /\ "deposit" \in {TryDeposit(a, DOMAIN xs, badge, shown) :
                       badge \in BadgeArgs, shown \in SUBSET Held}
  /\ Deposited(a, xs)

-----------------------------------------------------------------------------
(* The locker.  airdrop takes a bucket apart and stores each part; store   *)
(* is an airdrop for one claimant that returns no rest.                    *)
SentTo(a, r, direct) ==
  IF direct THEN TryDeposit(a, {r}, <<LockerBadge>>, {LockerBadge}) ELSE "refund"
StoredAt(a, r, direct) ==
  IF SentTo(a, r, direct) = "deposit" THEN <<"account", a, r>> ELSE <<"locker", a, r>>

(* The parts of an airdrop: disjoint, and all in the bucket. *)
Whole(r, parts) ==
  IF r \in Fungibles THEN MapThenSumSet(LAMBDA a : parts[a], DOMAIN parts)
  ELSE UNION {parts[a] : a \in DOMAIN parts}
Separate(r, parts) ==
  \A a, b \in DOMAIN parts : r \in NonFungibles /\ a # b => parts[a] \cap parts[b] = {}

(* Mutant: the accounts share one bucket. *)
Airdrop_OneBucket(r, parts, direct) ==
  LET given == [s \in {StoredAt(a, r, direct) : a \in DOMAIN parts} |-> parts[s[2]]]
  IN /\ \A s \in DOMAIN given : CanPut(s)
     /\ FromWorktop(r, parts[CHOOSE a \in DOMAIN parts : TRUE])
     /\ vaults' = AfterPut(given)
     /\ UNCHANGED <<total_supply, data, settings, changes>>
Airdrop(r, parts, direct) ==
  LET given == [s \in {StoredAt(a, r, direct) : a \in DOMAIN parts} |-> parts[s[2]]]
  IN /\ Separate(r, parts)
     /\ FromWorktop(r, Whole(r, parts))
     /\ \A a \in DOMAIN parts : SentTo(a, r, direct) # "error"
     /\ \A s \in DOMAIN given : CanPut(s)
     /\ vaults' = AfterPut(given)
     /\ UNCHANGED <<total_supply, data, settings, changes>>

(* recover_non_fungibles and claim_non_fungibles (recover and claim of a   *)
(* fungible resource): by the locker's recoverer for any account, or by    *)
(* the account's owner.                                                    *)
Claim(a, r, x) ==
  LET s == <<"locker", a, r>>
  IN /\ NotFrozen(VaultAt(s), "WITHDRAW")
     /\ CanTake(VaultAt(s).container, x)
     /\ SetVault(s, VaultTake(VaultAt(s), x))
     /\ ToWorktop(r, x)
     /\ UNCHANGED <<total_supply, data, settings, changes>>

(* recover and claim of an amount. *)
ClaimAmount(a, r, n) ==
  LET s == <<"locker", a, r>>
  IN /\ NotFrozen(VaultAt(s), "WITHDRAW")
     /\ \E x \in TakenByAmount(VaultAt(s), n) :
          /\ SetVault(s, Counted(VaultAt(s), Take(VaultAt(s).container, x), -n))
          /\ ToWorktop(r, x)
     /\ UNCHANGED <<total_supply, data, settings, changes>>

-----------------------------------------------------------------------------
(* Vault controls of the resource's administrators. *)
Recall(s, x) ==
  /\ s \in DOMAIN vaults /\ s[3] \in Recallable
  /\ CanTake(vaults[s].container, x)
  /\ SetVault(s, VaultTake(vaults[s], x))
  /\ ToWorktop(s[3], x)
  /\ UNCHANGED <<total_supply, data, settings, changes>>

(* A call that changes nothing need not be counted. *)
Change ==
  /\ changes < MaxChanges
  /\ changes' = changes + 1
  /\ UNCHANGED <<total_supply, data, worktop>>

SetFrozen(s, frozen) ==
  /\ Change
  /\ s \in DOMAIN vaults /\ s[3] \in Freezable
  /\ vaults' = [vaults EXCEPT ![s].frozen = frozen]
  /\ frozen # vaults[s].frozen
  /\ UNCHANGED settings
Freeze(s, flag) == s \in DOMAIN vaults /\ SetFrozen(s, vaults[s].frozen \cup {flag})
Unfreeze(s, flag) == s \in DOMAIN vaults /\ SetFrozen(s, vaults[s].frozen \ {flag})

(* Settings of the account's owner. *)
SetDefaultDepositRule(a, rule) ==
  /\ Change
  /\ rule # default_deposit_rule[a]
  /\ default_deposit_rule' = [default_deposit_rule EXCEPT ![a] = rule]
  /\ UNCHANGED <<vaults, resource_preference, authorized_depositors>>
(* set_resource_preference, and remove_resource_preference for "None". *)
SetResourcePreference(a, r, preference) ==
  /\ Change
  /\ preference # resource_preference[a][r]
  /\ resource_preference' = [resource_preference EXCEPT ![a][r] = preference]
  /\ UNCHANGED <<vaults, default_deposit_rule, authorized_depositors>>
AddAuthorizedDepositor(a, b) ==
  /\ Change /\ b \notin authorized_depositors[a]
  /\ authorized_depositors' = [authorized_depositors EXCEPT ![a] = @ \cup {b}]
  /\ UNCHANGED <<vaults, default_deposit_rule, resource_preference>>
RemoveAuthorizedDepositor(a, b) ==
  /\ Change /\ b \in authorized_depositors[a]
  /\ authorized_depositors' = [authorized_depositors EXCEPT ![a] = @ \ {b}]
  /\ UNCHANGED <<vaults, default_deposit_rule, resource_preference>>
-----------------------------------------------------------------------------
One(r, x) == [q \in {r} |-> x]
All(R) == [r \in R |-> worktop[r]]
Amounts(r) == Contents(r) \ {Nothing(r)}
InBuckets(r) == {x \in Amounts(r) : Covers(r, worktop[r], x)}
InFlight == {r \in Resource : worktop[r] # Nothing(r)}

Next ==
  \/ \E r \in Fungibles, x \in 1 .. MaxUnits : MintFungible(r, x)
  \/ \E r \in NonFungibles, x \in SUBSET Ids \ {{}} : MintNonFungible(r, x)
  \/ \E r \in InFlight : \E x \in InBuckets(r) :
       \/ Burn(r, x)
       \/ \E a \in Accounts : DepositBatch(a, One(r, x)) \/ TryDepositBatch(a, One(r, x))
  \/ \E r \in InFlight, A \in SUBSET Accounts \ {{}}, direct \in BOOLEAN :
       \E parts \in [A -> InBuckets(r)] : Airdrop(r, parts, direct)
  \/ \E R \in SUBSET InFlight :
       /\ Cardinality(R) > 1
       /\ \E a \in Accounts : DepositBatch(a, All(R)) \/ TryDepositBatch(a, All(R))
  \/ \E s \in DOMAIN vaults : \E x \in Amounts(s[3]) :
       \/ Recall(s, x)
       \/ s[1] = "locker" /\ Claim(s[2], s[3], x)
       \/ /\ s[1] = "account" /\ s[2] \in Managed
          /\ \/ Withdraw(s[2], s[3], x) \/ AccountBurn(s[2], s[3], x)
             \/ s[3] \in Provable /\ CreateProof(s[2], s[3], x)
       \/ s[3] \in Provable /\ DropProof(s, x)
  \/ \E s \in DOMAIN vaults, n \in 1 .. Cardinality(Ids) :
       /\ s[3] \in NonFungibles
       /\ \/ s[1] = "locker" /\ ClaimAmount(s[2], s[3], n)
          \/ s[1] = "account" /\ s[2] \in Managed /\ WithdrawAmount(s[2], s[3], n)
  \/ /\ changes < MaxChanges
     /\ \E a \in Managed :
          \/ \E s \in DOMAIN vaults, flag \in Flags :
               s[2] = a /\ (Freeze(s, flag) \/ Unfreeze(s, flag))
          \/ \E rule \in Rules : SetDefaultDepositRule(a, rule)
          \/ \E r \in Resource, p \in Preferences : SetResourcePreference(a, r, p)
          \/ \E b \in Badges \cup {LockerBadge} :
               AddAuthorizedDepositor(a, b) \/ RemoveAuthorizedDepositor(a, b)

Spec == Init /\ [][Next]_vars

-----------------------------------------------------------------------------
HeldAt(s) == Holding(VaultAt(s).container)
HoldersOf(r, i) ==
  {s \in VaultsOf(r) : i \in HeldAt(s)} \cup (IF i \in worktop[r] THEN {"worktop"} ELSE {})

(* The total supply a resource manager keeps is what vaults and buckets    *)
(* hold together, what proofs lock included; a non-fungible is held        *)
(* exactly once as long as its data entry lives, and nowhere once it has   *)
(* been burned, however mints, burns, recalls and airdrops alternate.      *)
SupplyIsHeld ==
  /\ \A r \in Fungibles :
       total_supply[r] = worktop[r]
                         + Cardinality({h \in VaultsOf(r) \X (1 .. MaxUnits) : h[2] <= HeldAt(h[1])})
  /\ \A r \in NonFungibles :
       /\ total_supply[r] = Cardinality({i \in Ids : data[r][i] = "live"})
       /\ \A i \in Ids :
            Cardinality(HoldersOf(r, i)) = IF data[r][i] = "live" THEN 1 ELSE 0

(* The balance of a non-fungible vault counts exactly the ids of its index *)
(* through takes by id and by amount, puts, and locks that overlap: it is  *)
(* what internal_take_by_amount checks before it drains the index.         *)
VaultCountsItsIndex ==
  \A s \in DOMAIN vaults :
    s[3] \in NonFungibles => vaults[s].amount = Cardinality(vaults[s].container.liquid)

(* While a vault is frozen for withdrawals, nothing leaves it unless it is *)
(* recalled, and nothing enters it while it is frozen for deposits: not    *)
(* through batches, airdrops, claims, burns or proofs that end.            *)
FrozenVaultsHold ==
  [][\A s \in DOMAIN vaults :
       LET after == Holding(vaults'[s].container)
       IN /\ "WITHDRAW" \in vaults[s].frozen =>
               Covers(s[3], after, HeldAt(s)) \/ \E x \in Contents(s[3]) : Recall(s, x)
          /\ "DEPOSIT" \in vaults[s].frozen => Covers(s[3], HeldAt(s), after)]_vars

(* An account that leaves deposits to others receives a resource only if   *)
(* it takes that resource, or has authorised a badge that a depositor      *)
(* really has, or has authorised the locker and the locker sends it: for   *)
(* every bucket of a batch.  Naming an authorised badge without proving it *)
(* does not help, whether it is a lost one or the locker's.                *)
UninvitedDepositsRefused ==
  [][\A a \in Accounts \ Depositing, r \in Resource :
       LET s == <<"account", a, r>>
       IN (s \in DOMAIN vaults' /\ ~Covers(r, HeldAt(s), Holding(vaults'[s].container)))
            => \/ IsDepositAllowed(a, r)
               \/ authorized_depositors[a] \cap Held # {}
               \/ /\ LockerBadge \in authorized_depositors[a]
                  /\ \E A \in SUBSET Accounts : a \in A /\
                       \E parts \in [A -> Contents(r) \ {Nothing(r)}] : Airdrop(r, parts, TRUE)]_vars
=============================================================================
