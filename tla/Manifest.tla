------------------------------ MODULE Manifest ------------------------------
(***************************************************************************)
(* A manifest, seen by the two parts of the code that execute it:          *)
(*                                                                         *)
(*  - StaticManifestInterpreter, which validates the list of instructions  *)
(*    before the transaction runs and knows only the names a manifest      *)
(*    gives to buckets and proofs;                                         *)
(*  - IntentProcessor, which runs the same instructions one by one on real *)
(*    buckets, proofs, a worktop and an auth zone.                         *)
(*                                                                         *)
(* Both read the same instructions, so one step is one instruction: its    *)
(* guard is what the validator requires (a manifest it refuses never       *)
(* runs), its effect moves both states.  A callee is external: it may      *)
(* store the buckets it is given, drop the proofs, withdraw from the       *)
(* account's vaults or create a proof of them.                             *)
(***************************************************************************)
EXTENDS Resources, TLC

CONSTANTS Accounts,          \* what the account may hold before the transaction
          MaxBuckets,        \* named buckets of a manifest
          MaxProofs,         \* named proofs of a manifest
          MaxZone,           \* proofs kept in the auth zone
          Asserted           \* resources an ASSERT_NEXT_CALL_RETURNS_* may name

ASSUME ManifestAssumption ==
  /\ \A account \in Accounts : \A r \in Resource : account[r] \in Contents(r)
  /\ MaxBuckets \in Nat /\ MaxProofs \in Nat /\ MaxZone \in Nat
  /\ Asserted \subseteq Resource

VARIABLES
  \* StaticManifestInterpreter
  bucket_state,        \* per named bucket: [live, proof_locks]
  proof_state,         \* per named proof: [live, source], source 0: no named bucket
  requirement,         \* the next instruction has to be an invocation
  \* IntentProcessor and the nodes it works on
  committed,           \* what the account held before the transaction
  containers,          \* buckets (by number) and the account's vaults (by resource)
  bucket_mapping,      \* named bucket -> bucket, 0 when absent
  proof_mapping,       \* named proof -> <<proof>>, <<>> when absent
  worktop,             \* resource -> bucket, 0 when absent
  zone,                \* the proofs in the auth zone
  constraint,          \* next_call_return_constraints, <<>> or <<c>>
  supply,              \* total supply per resource
  outcome              \* running, success, aborted, not_found or trapped

static == <<bucket_state, proof_state, requirement>>
runtime == <<committed, containers, bucket_mapping, proof_mapping, worktop, zone, constraint, supply>>
vars == <<static, runtime, outcome>>

BucketName == 1 .. MaxBuckets
ProofName == 1 .. MaxProofs
BucketId == 1 .. (MaxBuckets + Cardinality(Resource) + 1)

Vaults == [r \in Resource |-> NewContainer(r, committed[r])]

Init ==
  /\ committed \in Accounts
  /\ bucket_state = <<>>
  /\ proof_state = <<>>
  /\ requirement = FALSE
  /\ containers = Vaults
  /\ bucket_mapping = [b \in BucketName |-> 0]
  /\ proof_mapping = [p \in ProofName |-> <<>>]
  /\ worktop = [r \in Resource |-> 0]
  /\ zone = <<>>
  /\ constraint = <<>>
  /\ supply = committed
  /\ outcome = "running"

-----------------------------------------------------------------------------
(* The validator. *)

LiveBucket(b) == b \in DOMAIN bucket_state /\ bucket_state[b].live
LiveProof(p) == p \in DOMAIN proof_state /\ proof_state[p].live

CanNewBucket == Len(bucket_state) < MaxBuckets
NewBucket(bs) == Append(bs, [live |-> TRUE, proof_locks |-> 0])

(* consume_bucket refuses a bucket that a named proof locks. *)
CanConsumeBucket(b) == LiveBucket(b) /\ bucket_state[b].proof_locks = 0
ConsumeBucket(bs, b) == [bs EXCEPT ![b].live = FALSE]

CanNewProof == Len(proof_state) < MaxProofs
NewProof(ps, source) == Append(ps, [live |-> TRUE, source |-> source])
LockSource(bs, source) ==
  IF source = 0 THEN bs ELSE [bs EXCEPT ![source].proof_locks = @ + 1]

(* consume_proof gives the lock back to the bucket the proof came from. *)
ConsumeProofs(ps, S) == [p \in DOMAIN ps |-> IF p \in S THEN [ps[p] EXCEPT !.live = FALSE] ELSE ps[p]]
(* Mutant: the source bucket stays locked. *)
UnlockSources_Forgotten(bs, S) == bs
UnlockSources(bs, S) ==
  IF S = {} THEN bs
  ELSE [b \in DOMAIN bs |->
          [bs[b] EXCEPT !.proof_locks = @ - Cardinality({p \in S : proof_state[p].source = b})]]

LiveProofs == {p \in DOMAIN proof_state : proof_state[p].live}

(* handle_instruction: after an ASSERT_NEXT_CALL_RETURNS_* only an         *)
(* invocation may follow.                                                  *)
Plain == outcome = "running" /\ ~requirement

-----------------------------------------------------------------------------
(* The processor. *)

(* Any error ends the transaction and undoes it. *)
Fail(kind) ==
  /\ outcome' = kind
  /\ bucket_state' = <<>> /\ proof_state' = <<>>
  /\ requirement' = FALSE
  /\ containers' = Vaults
  /\ bucket_mapping' = [b \in BucketName |-> 0]
  /\ proof_mapping' = [p \in ProofName |-> <<>>]
  /\ worktop' = [r \in Resource |-> 0]
  /\ zone' = <<>>
  /\ constraint' = <<>>
  /\ supply' = committed
  /\ UNCHANGED committed

FreshBucket(cs) == Min(BucketId \ DOMAIN cs)
AddBucket(cs, r, x) == (FreshBucket(cs) :> NewContainer(r, x)) @@ cs
DropBucket(cs, b) == [c \in DOMAIN cs \ {b} |-> cs[c]]

(* The live proofs: those in the auth zone and those with a name. *)
InZone == {<<"zone", i>> : i \in DOMAIN zone}
Named == {<<"name", p>> : p \in {q \in ProofName : proof_mapping[q] # <<>>}}
Proofs == InZone \cup Named
ProofAt(s) == IF s[1] = "zone" THEN zone[s[2]] ELSE proof_mapping[s[2]][1]
LocksBy(S, c, k) ==
  Cardinality({s \in S : \E i \in DOMAIN ProofAt(s).evidence :
                 LET e == ProofAt(s).evidence[i]
                 IN e.container = c /\ k \in KeysOf(ProofAt(s).resource, e.part)})

(* Proof::drop for the proofs S, one after the other. *)
DropProofs(cs, S) ==
  IF S = {} THEN cs
  ELSE [c \in DOMAIN cs |->
          UnlockCounts(cs[c], [k \in DOMAIN cs[c].locked |-> LocksBy(S, c, k)])]

(* A bucket is dropped when it is burnt, stored or merged into another:    *)
(* the kernel refuses while a proof refers to it, even one for which       *)
(* nothing of it is locked, and the bucket's own code while it is locked.  *)
Droppable(cs, b, S) ==
  /\ \A s \in S : \A i \in DOMAIN ProofAt(s).evidence : ProofAt(s).evidence[i].container # b
  /\ ~IsLocked(cs[b])

(* Bucket::put *)
PutInto(cs, b, c) == DropBucket([cs EXCEPT ![c] = Put(@, cs[b].liquid)], b)

(* Worktop::put: an empty bucket is dropped, the first bucket of a         *)
(* resource is kept as it is, locks included, and a later one is merged.   *)
CanPutOnWorktop(b) ==
  \/ Holding(containers[b]) # Nothing(containers[b].resource)
     /\ worktop[containers[b].resource] = 0
  \/ Droppable(containers, b, Proofs)
(* Mutant: an empty bucket is kept like any other. *)
PutOnWorktop_KeepsEmpty(cs, wt, b) ==
  LET r == cs[b].resource
  IN IF wt[r] = 0 THEN [cs |-> cs, wt |-> [wt EXCEPT ![r] = b]]
     ELSE [cs |-> PutInto(cs, b, wt[r]), wt |-> wt]
PutOnWorktop(cs, wt, b) ==
  LET r == cs[b].resource
  IN CASE Holding(cs[b]) = Nothing(r) -> [cs |-> DropBucket(cs, b), wt |-> wt]
       [] Holding(cs[b]) # Nothing(r) /\ wt[r] = 0 -> [cs |-> cs, wt |-> [wt EXCEPT ![r] = b]]
       [] OTHER -> [cs |-> PutInto(cs, b, wt[r]), wt |-> wt]

SetBucket(b, c) == bucket_mapping' = [bucket_mapping EXCEPT ![b] = c]
SetProof(p, v) == proof_mapping' = [proof_mapping EXCEPT ![p] = v]

(* get_bucket and take_bucket, get_proof and take_proof: the processor     *)
(* fails when it does not know the name.                                   *)
BucketFound(b) == bucket_mapping[b] # 0
ProofFound(p) == proof_mapping[p] # <<>>

-----------------------------------------------------------------------------
(* Worktop instructions. *)

(* What the worktop returns for content x of resource r: an empty bucket   *)
(* for nothing, the worktop's own bucket when x is all of it, a new one    *)
(* otherwise.                                                              *)
TakeFromWorktop(r, x) ==
  /\ Plain /\ CanNewBucket
  /\ LET b == Len(bucket_state) + 1
         c == worktop[r]
     IN \/ /\ x = Nothing(r)
           /\ containers' = AddBucket(containers, r, x)
           /\ SetBucket(b, FreshBucket(containers))
           /\ UNCHANGED worktop
        \/ /\ x # Nothing(r) /\ c # 0 /\ x = Holding(containers[c])
           /\ worktop' = [worktop EXCEPT ![r] = 0]
           /\ SetBucket(b, c)
           /\ UNCHANGED containers
        \/ /\ x # Nothing(r) /\ c # 0 /\ x # Holding(containers[c])
           /\ CanTake(containers[c], x)
           /\ containers' = AddBucket([containers EXCEPT ![c] = Take(@, x)], r, x)
           /\ SetBucket(b, FreshBucket(containers))
           /\ UNCHANGED worktop
  /\ bucket_state' = NewBucket(bucket_state)
  /\ UNCHANGED <<committed, proof_state, requirement, proof_mapping,
                 zone, constraint, supply, outcome>>

(* ... and the error when the worktop does not hold x, or holds it locked. *)
TakeTooMuch(r, x) ==
  /\ Plain /\ CanNewBucket
  /\ x # Nothing(r)
  /\ worktop[r] # 0 => /\ x # Holding(containers[worktop[r]])
                       /\ ~CanTake(containers[worktop[r]], x)
  /\ Fail("aborted")

(* TAKE_NON_FUNGIBLES_FROM_WORKTOP compares ids where the other compares   *)
(* amounts.                                                                *)
TakeNonFungiblesFromWorktop(r, ids) == r \in NonFungibles /\ TakeFromWorktop(r, ids)

(* Worktop::take_all moves the bucket out whatever proofs lock. *)
TakeAllFromWorktop(r) ==
  TakeFromWorktop(r, IF worktop[r] = 0 THEN Nothing(r) ELSE Holding(containers[worktop[r]]))

(* take_bucket, then Worktop::put. *)
ReturnToWorktop(b) ==
  /\ Plain /\ CanConsumeBucket(b)
  /\ IF ~BucketFound(b) THEN Fail("not_found")
     ELSE LET c == bucket_mapping[b]
          IN IF ~CanPutOnWorktop(c) THEN Fail("aborted")
             ELSE /\ containers' = PutOnWorktop(containers, worktop, c).cs
                  /\ worktop' = PutOnWorktop(containers, worktop, c).wt
                  /\ SetBucket(b, 0)
                  /\ bucket_state' = ConsumeBucket(bucket_state, b)
                  /\ UNCHANGED <<committed, proof_state, requirement, proof_mapping, zone,
                                 constraint, supply, outcome>>

(* BURN_RESOURCE: the resource manager drops the bucket and lowers the     *)
(* total supply.                                                           *)
BurnResource(b) ==
  /\ Plain /\ CanConsumeBucket(b)
  /\ IF ~BucketFound(b) THEN Fail("not_found")
     ELSE LET c == bucket_mapping[b]
          IN IF ~Droppable(containers, c, Proofs) THEN Fail("aborted")
             ELSE /\ containers' = DropBucket(containers, c)
                  /\ supply' = [supply EXCEPT ![containers[c].resource] =
                                  Without(containers[c].resource, @, containers[c].liquid)]
                  /\ SetBucket(b, 0)
                  /\ bucket_state' = ConsumeBucket(bucket_state, b)
                  /\ UNCHANGED <<committed, proof_state, requirement, proof_mapping, worktop,
                                 zone, constraint, outcome>>

(* ASSERT_WORKTOP_* and ASSERT_BUCKET_CONTENTS change nothing or abort. *)
AssertWorktop(r, x) ==
  /\ Plain
  /\ ~Covers(r, IF worktop[r] = 0 THEN Nothing(r) ELSE Holding(containers[worktop[r]]), x)
  /\ Fail("aborted")

AssertBucketContents(b, x) ==
  /\ Plain /\ LiveBucket(b)
  /\ IF ~BucketFound(b) THEN Fail("not_found")
     ELSE LET c == bucket_mapping[b]
          IN /\ ~Covers(containers[c].resource, Holding(containers[c]), x)
             /\ Fail("aborted")

-----------------------------------------------------------------------------
(* Proof instructions. *)

(* create_manifest_proof together with the validator's handle_new_proof. *)
NameProof(source, proof) ==
  /\ proof_state' = NewProof(proof_state, source)
  /\ bucket_state' = LockSource(bucket_state, source)
  /\ SetProof(Len(proof_state) + 1, <<proof>>)

(* CREATE_PROOF_FROM_BUCKET_OF_*: a proof of nothing is an error. *)
CreateProofFromBucket(b, x) ==
  /\ Plain /\ LiveBucket(b) /\ CanNewProof
  /\ IF ~BucketFound(b) THEN Fail("not_found")
     ELSE LET c == bucket_mapping[b]
              r == containers[c].resource
          IN IF x = Nothing(r) \/ ~CanLock(containers[c], x) THEN Fail("aborted")
             ELSE /\ containers' = [containers EXCEPT ![c] = Lock(@, x)]
                  /\ NameProof(b, Proof(r, x, <<Evidence(c, x)>>))
                  /\ UNCHANGED <<committed, requirement, bucket_mapping, worktop, zone,
                                 constraint, supply, outcome>>

(* POP_FROM_AUTH_ZONE and PUSH_TO_AUTH_ZONE. *)
PopFromAuthZone ==
  /\ Plain /\ CanNewProof
  /\ \/ zone = <<>> /\ Fail("aborted")
     \/ /\ zone # <<>>
        /\ zone' = Front(zone)
        /\ NameProof(0, Last(zone))
        /\ UNCHANGED <<committed, requirement, containers, bucket_mapping,
                       worktop, constraint, supply, outcome>>

PushToAuthZone(p) ==
  /\ Plain /\ LiveProof(p) /\ Len(zone) < MaxZone
  /\ IF ~ProofFound(p) THEN Fail("not_found")
     ELSE LET q == proof_mapping[p][1]
          IN /\ zone' = Append(zone, q)
             /\ SetProof(p, <<>>)
             /\ proof_state' = ConsumeProofs(proof_state, {p})
             /\ bucket_state' = UnlockSources(bucket_state, {p})
             /\ UNCHANGED <<committed, requirement, containers, bucket_mapping, worktop,
                            constraint, supply, outcome>>

(* Mutant: the clone shares the locks of the original. *)
CloneProof_Unlocked(p) ==
  /\ Plain /\ LiveProof(p) /\ CanNewProof
  /\ IF ~ProofFound(p) THEN Fail("not_found")
     ELSE LET q == proof_mapping[p][1]
          IN /\ NameProof(proof_state[p].source, q)
             /\ UNCHANGED <<committed, requirement, containers, bucket_mapping, worktop, zone,
                            constraint, supply, outcome>>
(* CLONE_PROOF locks every piece of evidence once more; the clone has the  *)
(* same source for the validator.                                          *)
CloneProof(p) ==
  /\ Plain /\ LiveProof(p) /\ CanNewProof
  /\ IF ~ProofFound(p) THEN Fail("not_found")
     ELSE LET q == proof_mapping[p][1]
          IN IF ~CanLockAll(containers, q) THEN Fail("aborted")
             ELSE /\ containers' = LockAll(containers, q)
                  /\ NameProof(proof_state[p].source, q)
                  /\ UNCHANGED <<committed, requirement, bucket_mapping, worktop, zone,
                                 constraint, supply, outcome>>

DropProof(p) ==
  /\ Plain /\ LiveProof(p)
  /\ IF ~ProofFound(p) THEN Fail("not_found")
     ELSE /\ containers' = DropProofs(containers, {<<"name", p>>})
          /\ SetProof(p, <<>>)
          /\ proof_state' = ConsumeProofs(proof_state, {p})
          /\ bucket_state' = UnlockSources(bucket_state, {p})
          /\ UNCHANGED <<committed, requirement, bucket_mapping, worktop, zone, constraint,
                         supply, outcome>>

DropManyProofs(named, inZone) ==
  /\ Plain
  /\ containers' = DropProofs(containers, (IF named THEN Named ELSE {})
                                          \cup (IF inZone THEN InZone ELSE {}))
  /\ proof_mapping' = IF named THEN [p \in ProofName |-> <<>>] ELSE proof_mapping
  /\ zone' = IF inZone THEN <<>> ELSE zone
  /\ IF named
     THEN /\ proof_state' = ConsumeProofs(proof_state, LiveProofs)
          /\ bucket_state' = UnlockSources(bucket_state, LiveProofs)
     ELSE UNCHANGED <<proof_state, bucket_state>>
  /\ UNCHANGED <<committed, requirement, bucket_mapping, worktop, constraint, supply, outcome>>
DropNamedProofs == DropManyProofs(TRUE, FALSE)
DropAuthZoneProofs == DropManyProofs(FALSE, TRUE)
DropAllProofs == DropManyProofs(TRUE, TRUE)

-----------------------------------------------------------------------------
(* Composing a proof from the proofs in the auth zone. *)

SameKind(r, s) == (r \in Fungibles) = (s \in Fungibles)
BaseEvidence(r) == UNION {ToSet(zone[i].evidence) : i \in {j \in DOMAIN zone : zone[j].resource = r}}
Quoted(r) == {e.container : e \in BaseEvidence(r)}

(* max_amount_locked and max_ids_locked: per container the most that one   *)
(* base proof locks, since proofs of one container overlap.                *)
Quota(r, c) ==
  LET parts == {e.part : e \in {f \in BaseEvidence(r) : f.container = c}}
  IN IF r \in Fungibles THEN Max(parts) ELSE UNION parts
MaxLocked(r) ==
  IF r \in Fungibles THEN MapThenSumSet(LAMBDA c : Quota(r, c), Quoted(r))
  ELSE UNION {Quota(r, c) : c \in Quoted(r)}

(* The loop of compose_fungible_proof and compose_non_fungible_proof goes  *)
(* over all proofs of the zone and reads each as a proof of its own kind,  *)
(* which fails on a proof of the other kind; whether something remains to  *)
(* be covered is asked before each piece of evidence only.                 *)
OtherKind == Evidence(0, 0)
IsOtherKind(e) == e.container = 0
ZoneEvidence(r) ==
  FlattenSeq([i \in DOMAIN zone |-> IF SameKind(r, zone[i].resource) THEN zone[i].evidence
                                    ELSE <<OtherKind>>])
Cover(r, rest, quota) ==
  IF r \in Fungibles THEN Min({rest, quota}) ELSE rest \cap quota
ComposeStep(r, acc, e) ==
  LET part == Cover(r, acc.rest, Quota(r, e.container))
  IN CASE acc.state # "looping" -> acc
       [] acc.state = "looping" /\ IsOtherKind(e) -> [acc EXCEPT !.state = "trapped"]
       [] acc.state = "looping" /\ ~IsOtherKind(e) /\ acc.rest = Nothing(r) ->
            [acc EXCEPT !.state = "covered"]
       [] acc.state = "looping" /\ ~IsOtherKind(e) /\ acc.rest # Nothing(r)
            /\ e.container \in Quoted(r) \ acc.used ->
            [acc EXCEPT !.rest = Without(r, @, part),
                        !.used = @ \cup {e.container},
                        !.evidence = Append(@, Evidence(e.container, part))]
       [] OTHER -> acc
Compose(r, x) ==
  FoldLeft(LAMBDA acc, e : ComposeStep(r, acc, e),
           [rest |-> x, used |-> {}, evidence |-> <<>>, state |-> "looping"],
           ZoneEvidence(r))

(* CREATE_PROOF_FROM_AUTH_ZONE_OF_AMOUNT, _OF_NON_FUNGIBLES and, with x    *)
(* all that is locked, _OF_ALL.                                            *)
CreateProofFromAuthZone(r, x) ==
  /\ Plain /\ CanNewProof
  /\ LET composed == Compose(r, x)
         proof == Proof(r, x, composed.evidence)
         enough == Covers(r, MaxLocked(r), x)
     IN IF ~enough THEN Fail("aborted")
        ELSE IF composed.state = "trapped" THEN Fail("trapped")
        ELSE IF x = Nothing(r) \/ ~CanLockAll(containers, proof) THEN Fail("aborted")
        ELSE /\ containers' = LockAll(containers, proof)
             /\ NameProof(0, proof)
             /\ UNCHANGED <<committed, requirement, bucket_mapping, worktop, zone,
                            constraint, supply, outcome>>

-----------------------------------------------------------------------------
(* Invocations. *)

(* The arguments of a call that matter: a named bucket, a named proof, and *)
(* the expressions ENTIRE_WORKTOP and ENTIRE_AUTH_ZONE; 0 stands for none, *)
(* and proof_first says which of the two names comes first.                *)
Args ==
  {a \in [bucket : {0} \cup BucketName, proof : {0} \cup ProofName, proof_first : BOOLEAN,
          entire_worktop : BOOLEAN, entire_zone : BOOLEAN] :
     /\ ~a.proof_first \/ (a.bucket # 0 /\ a.proof # 0)
     /\ a.entire_worktop \/ a.entire_zone => a.bucket = 0 /\ a.proof = 0
     /\ ~(a.entire_worktop /\ a.entire_zone)}

NoArgs == CHOOSE a \in Args :
  a.bucket = 0 /\ a.proof = 0 /\ ~a.entire_worktop /\ ~a.entire_zone

(* The validator walks the arguments in order and consumes the names. *)
ValidArgs(a) ==
  /\ a.proof # 0 => LiveProof(a.proof)
  /\ a.bucket # 0 =>
       /\ LiveBucket(a.bucket)
       /\ bucket_state[a.bucket].proof_locks =
            (IF a.proof_first /\ proof_state[a.proof].source = a.bucket THEN 1 ELSE 0)
ConsumedProofs(a) == {a.proof} \ {0}
ConsumeArgs(a) ==
  /\ LET unlocked == UnlockSources(bucket_state, ConsumedProofs(a))
     IN bucket_state' = IF a.bucket = 0 THEN unlocked ELSE ConsumeBucket(unlocked, a.bucket)
  /\ proof_state' = ConsumeProofs(proof_state, ConsumedProofs(a))

(* TransformHandler takes the named nodes out of the processor's maps. *)
ArgsFound(a) ==
  /\ a.bucket # 0 => BucketFound(a.bucket)
  /\ a.proof # 0 => ProofFound(a.proof)
PassedBuckets(a) ==
  ((IF a.bucket = 0 THEN {} ELSE {bucket_mapping[a.bucket]})
   \cup (IF a.entire_worktop THEN {worktop[r] : r \in Resource} ELSE {})) \ {0}
PassedProofs(a) ==
  (IF a.proof = 0 THEN {} ELSE {<<"name", a.proof>>}) \cup (IF a.entire_zone THEN InZone ELSE {})

(* The callee drops the proofs, stores the buckets in its vaults as an     *)
(* account's deposit_batch does, and returns nothing, a bucket of x like   *)
(* withdraw, or a proof of x like create_proof.                            *)
Store(cs, bs) ==
  LET brought(r) == {b \in bs : cs[b].resource = r}
      into(r) == IF r \in Fungibles THEN MapThenSumSet(LAMBDA b : cs[b].liquid, brought(r))
                 ELSE UNION {cs[b].liquid : b \in brought(r)}
  IN IF bs = {} THEN cs
     ELSE [c \in DOMAIN cs \ bs |-> IF c \in Resource THEN Put(cs[c], into(c)) ELSE cs[c]]

NoReturn == [kind |-> "nothing"]
Return(kind, r, x) == [kind |-> kind, resource |-> r, content |-> x]
CanReturn(cs, ret) ==
  CASE ret.kind = "bucket" -> CanTake(cs[ret.resource], ret.content)
    [] ret.kind = "proof" -> /\ ret.content # Nothing(ret.resource)
                             /\ CanLock(cs[ret.resource], ret.content)
    [] OTHER -> TRUE

(* handle_call_return_data: buckets go to the worktop, proofs to the auth  *)
(* zone, and only then is the pending assertion checked.                   *)
Returned(cs, wt, zn, ret) ==
  CASE ret.kind = "bucket" ->
         LET r == ret.resource
             taken == AddBucket([cs EXCEPT ![r] = Take(@, ret.content)], r, ret.content)
             put == PutOnWorktop(taken, wt, FreshBucket(cs))
         IN [cs |-> put.cs, wt |-> put.wt, zn |-> zn]
    [] ret.kind = "proof" ->
         [cs |-> [cs EXCEPT ![ret.resource] = Lock(@, ret.content)], wt |-> wt,
          zn |-> Append(zn, Proof(ret.resource, ret.content,
                                  <<Evidence(ret.resource, ret.content)>>))]
    [] OTHER -> [cs |-> cs, wt |-> wt, zn |-> zn]
Satisfies(ret, c) ==
  ret.kind = "bucket" /\ ret.resource = c /\ ret.content # Nothing(c)

(* handle_invocation *)
Invoke(a, ret) ==
  /\ outcome = "running"
  /\ ValidArgs(a)
  /\ IF ~ArgsFound(a) THEN Fail("not_found")
     ELSE LET buckets == PassedBuckets(a)
              dropped == DropProofs(containers, PassedProofs(a))
              stored == Store(dropped, buckets)
              end == Returned(stored, IF a.entire_worktop THEN [r \in Resource |-> 0] ELSE worktop,
                              IF a.entire_zone THEN <<>> ELSE zone, ret)
          IN IF \E b \in buckets : ~Droppable(dropped, b, Proofs \ PassedProofs(a)) THEN Fail("aborted")
             ELSE /\ CanReturn(stored, ret)
                  /\ \/ /\ \E i \in DOMAIN constraint : ~Satisfies(ret, constraint[i])
                        /\ Fail("aborted")
                     \/ /\ \A i \in DOMAIN constraint : Satisfies(ret, constraint[i])
                        /\ Len(end.zn) <= MaxZone
                        /\ containers' = end.cs /\ worktop' = end.wt /\ zone' = end.zn
                        /\ bucket_mapping' = [b \in BucketName |->
                                                IF b = a.bucket THEN 0 ELSE bucket_mapping[b]]
                        /\ proof_mapping' = [p \in ProofName |->
                                               IF p = a.proof THEN <<>> ELSE proof_mapping[p]]
                        /\ ConsumeArgs(a)
                        /\ requirement' = FALSE /\ constraint' = <<>>
                        /\ UNCHANGED <<committed, supply, outcome>>

(* ASSERT_NEXT_CALL_RETURNS_INCLUDE / _ONLY of a non-zero amount of r. *)
AssertNextCallReturns(r) ==
  /\ Plain
  /\ requirement' = TRUE
  /\ constraint' = <<r>>
  /\ UNCHANGED <<committed, bucket_state, proof_state, containers, bucket_mapping,
                 proof_mapping, worktop, zone, supply, outcome>>

-----------------------------------------------------------------------------
(* The end of the manifest: the validator's handle_wrap_up refuses a       *)
(* manifest that leaves a named bucket or an assertion                     *)
(* behind.  The processor drops the worktop, whose buckets have to be      *)
(* empty, and the cleanup drops the remaining proofs and then finds no     *)
(* other node of the intent.                                               *)
Finish ==
  /\ Plain
  /\ \A b \in DOMAIN bucket_state : ~bucket_state[b].live
  /\ \/ /\ \E r \in Resource : worktop[r] # 0
        /\ Fail("aborted")
     \/ /\ \A r \in Resource : worktop[r] = 0
        /\ containers' = DropProofs(containers, Proofs)
        /\ proof_mapping' = [p \in ProofName |-> <<>>]
        /\ zone' = <<>>
        /\ outcome' = "success"
        /\ UNCHANGED <<committed, static, bucket_mapping, worktop, constraint, supply>>

ContentsOf(b) ==
  IF bucket_mapping[b] = 0 THEN {0} ELSE Contents(containers[bucket_mapping[b]].resource)

Next ==
  \/ \E r \in Resource : \E x \in Contents(r) :
       \/ r \in Fungibles /\ TakeFromWorktop(r, x)
       \/ TakeNonFungiblesFromWorktop(r, x)
       \/ TakeTooMuch(r, x)
       \/ AssertWorktop(r, x)
       \/ CreateProofFromAuthZone(r, x)
  \/ \E r \in Resource : TakeAllFromWorktop(r)
  \/ \E r \in Asserted : AssertNextCallReturns(r)
  \/ \E b \in BucketName :
       \/ ReturnToWorktop(b)
       \/ BurnResource(b)
       \/ \E x \in ContentsOf(b) : AssertBucketContents(b, x) \/ CreateProofFromBucket(b, x)
  \/ \E p \in ProofName : PushToAuthZone(p) \/ CloneProof(p) \/ DropProof(p)
  \/ PopFromAuthZone
  \/ DropNamedProofs \/ DropAuthZoneProofs \/ DropAllProofs
  \/ \E a \in Args : Invoke(a, NoReturn)
  \/ \E kind \in {"bucket", "proof"}, r \in Resource : \E x \in Contents(r) :
       Invoke(NoArgs, Return(kind, r, x))
  \/ Finish

Spec == Init /\ [][Next]_vars

-----------------------------------------------------------------------------
Total(r) ==
  LET of == {c \in DOMAIN containers : containers[c].resource = r}
  IN IF r \in Fungibles THEN MapThenSumSet(LAMBDA c : Holding(containers[c]), of)
     ELSE UNION {Holding(containers[c]) : c \in of}

(* The validator's view of buckets and proofs is the processor's.  Every   *)
(* name a validated manifest uses is found: BucketNotFound and             *)
(* ProofNotFound are never returned.  proof_locks count the live named     *)
(* proofs of a bucket, and a bucket held for locked is a live name whose   *)
(* bucket really is locked: what the validator refuses would have failed,  *)
(* and it keeps no bucket locked after its last proof is gone.             *)
ValidatorFollowsProcessor ==
  /\ outcome # "not_found"
  /\ outcome = "running" =>
       \A b \in DOMAIN bucket_state :
         /\ bucket_state[b].proof_locks =
              Cardinality({p \in LiveProofs : proof_state[p].source = b})
         /\ bucket_state[b].proof_locks > 0 =>
              bucket_state[b].live /\ IsLocked(containers[bucket_mapping[b]])

(* Whatever was cloned, composed, pushed, popped, passed on or dropped,    *)
(* the lock counts of every bucket and vault are exactly the evidence of   *)
(* the live proofs.  Hence unlocking never fails (`expect` in              *)
(* unlock_amount and unlock_non_fungibles), no proof outlives what it      *)
(* proves, and a proof shows no more than its evidence.                    *)
ProofsBacked ==
  /\ \A c \in DOMAIN containers : \A k \in DOMAIN containers[c].locked :
       containers[c].locked[k] = LocksBy(Proofs, c, k)
  /\ \A s \in Proofs :
       LET p == ProofAt(s)
       IN /\ \A i \in DOMAIN p.evidence : p.evidence[i].container \in DOMAIN containers
          /\ p.total = IF p.resource \in Fungibles
                       THEN MapThenSumSet(LAMBDA i : p.evidence[i].part, DOMAIN p.evidence)
                       ELSE UNION {p.evidence[i].part : i \in DOMAIN p.evidence}

(* No instruction creates or loses resources: what all buckets and vaults  *)
(* hold, liquid or locked, is the total supply the resource manager        *)
(* records, and no non-fungible is in two places.                          *)
SupplyConserved ==
  \A r \in Resource :
    /\ Total(r) = supply[r]
    /\ r \in NonFungibles =>
         \A c, d \in {e \in DOMAIN containers : containers[e].resource = r} :
           c # d => Holding(containers[c]) \cap Holding(containers[d]) = {}

(* "Invariant: no empty buckets in the worktop!" (worktop.rs): it is why   *)
(* the worktop can be dropped exactly when it lists no bucket.  And a      *)
(* transaction that succeeds leaves only the account's vaults, none of     *)
(* them locked, and no assertion unchecked.                                *)
NothingLeftBehind ==
  /\ \A r \in Resource : worktop[r] # 0 =>
       /\ containers[worktop[r]].resource = r
       /\ Holding(containers[worktop[r]]) # Nothing(r)
  /\ outcome = "success" =>
       /\ DOMAIN containers = Resource
       /\ \A r \in Resource : ~IsLocked(containers[r])
       /\ constraint = <<>>
=============================================================================
