----------------------- MODULE ConsensusManagerProofs -----------------------
(***************************************************************************)
(* Proofs about the consensus manager and its validators, for any finite   *)
(* set of validators, any amounts and any configuration.                   *)
(***************************************************************************)
EXTENDS ConsensusManager, SumProofs

\* The leaves that need arithmetic or sequences name the backend they need.
USE Zenon

-----------------------------------------------------------------------------
(***************************************************************************)
(* The order of the next validator set.  Place gives an entry of the index *)
(* its position among those read; that each position is taken by exactly   *)
(* one entry follows from the order being strict and total.                *)
(***************************************************************************)

\* R is a strict total order on S
StrictOrder(R, S) ==
    /\ \A k \in S : <<k, k>> \notin R
    /\ \A k, l \in S : k # l => <<k, l>> \in R \/ <<l, k>> \in R
    /\ \A k, l, m \in S : <<k, l>> \in R /\ <<l, m>> \in R => <<k, m>> \in R

\* the position of k in S in the order R
Rank(R, S, k) == 1 + Cardinality({l \in S : <<l, k>> \in R})

\* In a strict total order a position is a number up to the number of elements, what
\* comes before has a smaller one, and every position is taken.
LEMMA RankOnto ==
    ASSUME NEW S, IsFiniteSet(S), NEW R, StrictOrder(R, S)
    PROVE  /\ \A k \in S : Rank(R, S, k) \in 1 .. Cardinality(S)
           /\ \A k, l \in S : <<k, l>> \in R => Rank(R, S, k) < Rank(R, S, l)
           /\ \A i \in 1 .. Cardinality(S) : \E k \in S : Rank(R, S, k) = i
<1> DEFINE Below(k) == {l \in S : <<l, k>> \in R}
           n == Cardinality(S)
<1>1. n \in Nat
    BY FS_CardinalityType
<1>2. ASSUME NEW k \in S
      PROVE  IsFiniteSet(Below(k)) /\ Cardinality(Below(k)) \in Nat /\ Cardinality(Below(k)) < n
    <2>1. Below(k) \in SUBSET S /\ k \notin Below(k)
        BY DEF StrictOrder
    <2>2. Below(k) # S
        BY <2>1
    <2> HIDE DEF Below
    <2>3. /\ IsFiniteSet(Below(k))
          /\ Cardinality(Below(k)) <= Cardinality(S)
          /\ Cardinality(S) = Cardinality(Below(k)) => S = Below(k)
        BY <2>1, FS_Subset
    <2>4. Cardinality(Below(k)) \in Nat
        BY <2>3, FS_CardinalityType
    <2> QED
        BY <1>1, <2>2, <2>3, <2>4, SMT
<1>3. ASSUME NEW k \in S, NEW l \in S, <<k, l>> \in R
      PROVE  Cardinality(Below(k)) < Cardinality(Below(l))
    <2>1. Below(k) \in SUBSET Below(l) /\ k \in Below(l) /\ k \notin Below(k)
        BY <1>3 DEF StrictOrder
    <2>2. Below(k) # Below(l)
        BY <2>1
    <2>3. IsFiniteSet(Below(l)) /\ Cardinality(Below(l)) \in Nat /\ Cardinality(Below(k)) \in Nat
        BY <1>2
    <2> HIDE DEF Below
    <2>4. /\ Cardinality(Below(k)) <= Cardinality(Below(l))
          /\ Cardinality(Below(l)) = Cardinality(Below(k)) => Below(l) = Below(k)
        BY <2>1, <2>3, FS_Subset
    <2> QED
        BY <2>2, <2>3, <2>4, SMT
<1> DEFINE rank == [k \in S |-> 1 + Cardinality(Below(k))]
<1>4. \A k \in S : rank[k] = Rank(R, S, k)
    BY DEF Rank
<1> HIDE DEF Below
<1>5. rank \in [S -> 1 .. n]
    <2>1. \A k \in S : 1 + Cardinality(Below(k)) \in 1 .. n
        BY <1>1, <1>2, SMT
    <2> QED
        BY <2>1
<1>6. \A k, l \in S : <<k, l>> \in R => rank[k] < rank[l]
    BY <1>2, <1>3, SMT
<1>7. \A k, l \in S : rank[k] = rank[l] => k = l
    <2> SUFFICES ASSUME NEW k \in S, NEW l \in S, k # l PROVE rank[k] # rank[l]
        OBVIOUS
    <2>1. <<k, l>> \in R \/ <<l, k>> \in R
        BY DEF StrictOrder
    <2> HIDE DEF rank
    <2>2. rank[k] \in 1 .. n /\ rank[l] \in 1 .. n
        BY <1>5
    <2>3. rank[k] < rank[l] \/ rank[l] < rank[k]
        BY <1>6, <2>1
    <2> QED
        BY <1>1, <2>2, <2>3, SMT
<1> HIDE DEF rank
<1>8. rank \in Injection(S, 1 .. n)
    BY <1>5, <1>7 DEF Injection, IsInjective
<1>9. IsFiniteSet(1 .. n) /\ Cardinality(1 .. n) = n
    BY <1>1, FS_Interval, SMT
<1>10. rank \in Surjection(S, 1 .. n)
    BY <1>8, <1>9, FS_Injection
<1>11. \A i \in 1 .. n : \E k \in S : rank[k] = i
    BY <1>10 DEF Surjection
<1>12. \A k \in S : rank[k] \in 1 .. n
    BY <1>5
<1> QED
    BY <1>4, <1>6, <1>11, <1>12

\* The addresses are in a strict total order.
LEMMA AddressesOrdered ==
    /\ \A a \in Validator : ~AddressBefore(a, a)
    /\ \A a, b \in Validator : a # b => AddressBefore(a, b) \/ AddressBefore(b, a)
    /\ \A a, b, c \in Validator : AddressBefore(a, b) /\ AddressBefore(b, c) => AddressBefore(a, c)
<1> DEFINE n == Len(AddressOrder)
<1>1. /\ n \in Nat /\ DOMAIN AddressOrder = 1 .. n
      /\ AddressOrder \in [1 .. n -> Validator]
    BY ConsensusManagerAssumption, SMT
<1>2. n = Cardinality(Validator) /\ Range(AddressOrder) = Validator
    BY ConsensusManagerAssumption
<1>3. IsFiniteSet(1 .. n) /\ Cardinality(1 .. n) = n
    <2> HIDE DEF n
    <2> QED
        BY <1>1, FS_Interval, SMT
<1> HIDE DEF n
<1>4. \A v \in Validator : \E i \in 1 .. n : AddressOrder[i] = v
    BY <1>1, <1>2 DEF Range
<1>5. AddressOrder \in Surjection(1 .. n, Validator)
    BY <1>1, <1>4 DEF Surjection
<1>6. AddressOrder \in Injection(1 .. n, Validator)
    BY <1>2, <1>3, <1>5, FS_Surjection
<1>7. \A i, j \in 1 .. n : AddressOrder[i] = AddressOrder[j] => i = j
    BY <1>1, <1>6 DEF Injection, IsInjective
<1>8. \A a, b \in Validator : AddressBefore(a, b) <=>
        \E i, j \in 1 .. n : i < j /\ AddressOrder[i] = a /\ AddressOrder[j] = b
    BY <1>1 DEF AddressBefore
<1>9. \A i, j, k \in 1 .. n : ~(i < i) /\ (i # j => i < j \/ j < i) /\ (i < j /\ j < k => i < k)
    BY <1>1, SMT
<1>10. ASSUME NEW a \in Validator PROVE ~AddressBefore(a, a)
    <2>1. SUFFICES ASSUME AddressBefore(a, a) PROVE FALSE
        OBVIOUS
    <2>2. PICK i \in 1 .. n, j \in 1 .. n : i < j /\ AddressOrder[i] = a /\ AddressOrder[j] = a
        BY <1>1, <2>1 DEF AddressBefore
    <2>3. i = j
        BY <1>7, <2>2
    <2> QED
        BY <1>9, <2>2, <2>3
<1>11. ASSUME NEW a \in Validator, NEW b \in Validator, a # b
       PROVE  AddressBefore(a, b) \/ AddressBefore(b, a)
    <2>1. PICK i \in 1 .. n : AddressOrder[i] = a
        BY <1>4
    <2>2. PICK j \in 1 .. n : AddressOrder[j] = b
        BY <1>4
    <2>3. i < j \/ j < i
        BY <1>9, <1>11, <2>1, <2>2
    <2> QED
        BY <1>8, <2>1, <2>2, <2>3
<1>12. ASSUME NEW a \in Validator, NEW b \in Validator, NEW c \in Validator,
              AddressBefore(a, b), AddressBefore(b, c)
       PROVE  AddressBefore(a, c)
    <2>1. PICK i \in 1 .. n, j \in 1 .. n : i < j /\ AddressOrder[i] = a /\ AddressOrder[j] = b
        BY <1>1, <1>12 DEF AddressBefore
    <2>2. PICK l \in 1 .. n, k \in 1 .. n : l < k /\ AddressOrder[l] = b /\ AddressOrder[k] = c
        BY <1>1, <1>12 DEF AddressBefore
    <2>3. l = j
        BY <1>7, <2>1, <2>2
    <2>4. i < k
        BY <1>9, <2>1, <2>2, <2>3
    <2> QED
        BY <1>8, <2>1, <2>2, <2>4
<1> QED
    BY <1>10, <1>11, <1>12

\* what the index has to be for a validator set to be read from it
WellIndexed(ix) ==
    /\ \A k \in DOMAIN ix : k \in Int \X Validator /\ ix[k].stake \in Nat \ {0}
    /\ \A k, l \in DOMAIN ix : k[2] = l[2] => k = l

\* No more entries are read than there are validators.
LEMMA ScannedFinite ==
    ASSUME NEW ix, WellIndexed(ix)
    PROVE  /\ IsFiniteSet(DOMAIN ix) /\ Cardinality(DOMAIN ix) <= Cardinality(Validator)
           /\ IsFiniteSet(Scanned(ix)) /\ Cardinality(Scanned(ix)) <= Cardinality(Validator)
           /\ Scanned(ix) \subseteq DOMAIN ix
           /\ Cardinality(Scanned(ix)) \in Nat /\ Cardinality(Validator) \in Nat
<1> DEFINE second == [k \in DOMAIN ix |-> k[2]]
<1>1. \A k \in DOMAIN ix : k[2] \in Validator
    BY SMT DEF WellIndexed
<1>2. second \in Injection(DOMAIN ix, Validator)
    BY <1>1 DEF Injection, IsInjective, WellIndexed
<1>3. IsFiniteSet(Validator)
    BY ConsensusManagerAssumption
<1>4. IsFiniteSet(DOMAIN ix) /\ Cardinality(DOMAIN ix) <= Cardinality(Validator)
    BY <1>2, <1>3, FS_Injection
<1>5. Scanned(ix) \in SUBSET DOMAIN ix
    BY DEF Scanned
<1>6. IsFiniteSet(Scanned(ix)) /\ Cardinality(Scanned(ix)) <= Cardinality(DOMAIN ix)
    BY <1>4, <1>5, FS_Subset
<1>7. /\ Cardinality(Scanned(ix)) \in Nat /\ Cardinality(Validator) \in Nat
      /\ Cardinality(DOMAIN ix) \in Nat
    BY <1>3, <1>4, <1>6, FS_CardinalityType
<1>8. Cardinality(Scanned(ix)) <= Cardinality(Validator)
    BY <1>4, <1>6, <1>7, SMT
<1> QED
    BY <1>4, <1>5, <1>6, <1>7, <1>8

\* Sorting by stake, and by the order of the index where stakes are equal, is strict and total.
LEMMA StakeOrdered ==
    ASSUME NEW ix, WellIndexed(ix)
    PROVE  StrictOrder({p \in Scanned(ix) \X Scanned(ix) : StakeBefore(ix, p[1], p[2])}, Scanned(ix))
<1> DEFINE S == Scanned(ix)
           R == {p \in S \X S : StakeBefore(ix, p[1], p[2])}
<1>1. \A k \in S : k[1] \in Int /\ k[2] \in Validator /\ ix[k].stake \in Nat
    BY ScannedFinite, SMT DEF WellIndexed
<1>2. \A k, l \in S : k[2] = l[2] => k = l
    BY ScannedFinite DEF WellIndexed
<1>3. \A k, l \in S : <<k, l>> \in R <=> StakeBefore(ix, k, l)
    BY SMT
<1> HIDE DEF S, R
<1>4. ASSUME NEW k \in S, NEW l \in S
      PROVE  StakeBefore(ix, k, l) <=>
               \/ ix[k].stake > ix[l].stake
               \/ ix[k].stake = ix[l].stake /\ k[1] < l[1]
               \/ ix[k].stake = ix[l].stake /\ k[1] = l[1] /\ AddressBefore(k[2], l[2])
    BY DEF StakeBefore, KeyBefore
<1>5. ASSUME NEW k \in S PROVE ~StakeBefore(ix, k, k)
    BY <1>1, <1>4, AddressesOrdered, SMT
<1>6. ASSUME NEW k \in S, NEW l \in S, k # l PROVE StakeBefore(ix, k, l) \/ StakeBefore(ix, l, k)
    <2>1. k[2] # l[2]
        BY <1>2, <1>6
    <2>2. AddressBefore(k[2], l[2]) \/ AddressBefore(l[2], k[2])
        BY <1>1, <2>1, AddressesOrdered
    <2> QED
        BY <1>1, <1>4, <2>2, SMT
<1>7. ASSUME NEW k \in S, NEW l \in S, NEW m \in S, StakeBefore(ix, k, l), StakeBefore(ix, l, m)
      PROVE  StakeBefore(ix, k, m)
    <2>1. AddressBefore(k[2], l[2]) /\ AddressBefore(l[2], m[2]) => AddressBefore(k[2], m[2])
        BY <1>1, AddressesOrdered, SMT
    <2> QED
        BY <1>1, <1>4, <1>7, <2>1, SMT
<1>8. StrictOrder(R, S)
    BY <1>3, <1>5, <1>6, <1>7 DEF StrictOrder
<1> QED
    BY <1>8 DEF R, S

\* Every place up to the number of entries read is taken by one entry, in the order of stake.
LEMMA Places ==
    ASSUME NEW ix, WellIndexed(ix)
    PROVE  /\ \A k \in Scanned(ix) : Place(ix, k) \in 1 .. Cardinality(Scanned(ix))
           /\ \A k, l \in Scanned(ix) : k # l =>
                \/ StakeBefore(ix, k, l) /\ Place(ix, k) < Place(ix, l)
                \/ StakeBefore(ix, l, k) /\ Place(ix, l) < Place(ix, k)
           /\ \A i \in 1 .. Cardinality(Scanned(ix)) : \E k \in Scanned(ix) : Place(ix, k) = i
<1> DEFINE S == Scanned(ix)
           R == {p \in S \X S : StakeBefore(ix, p[1], p[2])}
<1>1. StrictOrder(R, S) /\ IsFiniteSet(S)
    BY StakeOrdered, ScannedFinite
<1>2. \A k, l \in S : <<k, l>> \in R <=> StakeBefore(ix, k, l)
    BY SMT
<1> HIDE DEF R
<1>3. \A k \in S : Place(ix, k) = Rank(R, S, k)
    <2> SUFFICES ASSUME NEW k \in S PROVE Place(ix, k) = Rank(R, S, k)
        OBVIOUS
    <2>1. {l \in Scanned(ix) : StakeBefore(ix, l, k)} = {l \in S : <<l, k>> \in R}
        BY <1>2
    <2> QED
        BY <2>1 DEF Place, Rank
<1>4. /\ \A k \in S : Rank(R, S, k) \in 1 .. Cardinality(S)
      /\ \A k, l \in S : <<k, l>> \in R => Rank(R, S, k) < Rank(R, S, l)
      /\ \A i \in 1 .. Cardinality(S) : \E k \in S : Rank(R, S, k) = i
    <2> HIDE DEF S
    <2> QED
        BY <1>1, RankOnto, SMT
<1>5. \A k, l \in S : k # l => <<k, l>> \in R \/ <<l, k>> \in R
    BY <1>1 DEF StrictOrder
<1>6. \A k \in S : Place(ix, k) \in 1 .. Cardinality(S)
    BY <1>3, <1>4
<1>7. \A k, l \in S : StakeBefore(ix, k, l) => Place(ix, k) < Place(ix, l)
    BY <1>2, <1>3, <1>4
<1>8. \A i \in 1 .. Cardinality(S) : \E k \in S : Place(ix, k) = i
    BY <1>3, <1>4
<1> QED
    BY <1>2, <1>5, <1>6, <1>7, <1>8

\* Each place of the next validator set is taken by the entry of that place.
LEMMA NextSet ==
    ASSUME NEW ix, WellIndexed(ix), network \in Networks
    PROVE  /\ SetSize(ix) \in Nat /\ SetSize(ix) <= Cardinality(Scanned(ix))
           /\ SetSize(ix) <= network.max_validators
           /\ SetSize(ix) # Cardinality(Scanned(ix)) => SetSize(ix) = network.max_validators
           /\ DOMAIN NextValidatorSet(ix) = 1 .. SetSize(ix)
<1>1. network.max_validators \in Nat
    BY ConsensusManagerAssumption, SMT
<1>2. Cardinality(Scanned(ix)) \in Nat
    BY ScannedFinite
<1>3. /\ SetSize(ix) \in Nat /\ SetSize(ix) <= Cardinality(Scanned(ix))
      /\ SetSize(ix) <= network.max_validators
      /\ SetSize(ix) # Cardinality(Scanned(ix)) => SetSize(ix) = network.max_validators
    BY <1>1, <1>2, SMT DEF SetSize
<1>4. DOMAIN NextValidatorSet(ix) = 1 .. SetSize(ix)
    BY DEF NextValidatorSet
<1> QED
    BY <1>3, <1>4

\* m is the member of the set that the entry k of the index ix describes
Describes(ix, k, m) == m.address = k[2] /\ m.stake = ix[k].stake /\ m.key = ix[k].key

\* A member of the next set is the entry of the index at its place.
LEMMA NextMember ==
    ASSUME NEW ix, WellIndexed(ix), network \in Networks, NEW i \in 1 .. SetSize(ix)
    PROVE  \E k \in Scanned(ix) : Place(ix, k) = i /\ Describes(ix, k, NextValidatorSet(ix)[i])
<1> DEFINE k == CHOOSE l \in Scanned(ix) : Place(ix, l) = i
<1>1. i \in 1 .. Cardinality(Scanned(ix))
    <2>1. /\ SetSize(ix) \in Nat /\ SetSize(ix) <= Cardinality(Scanned(ix))
          /\ Cardinality(Scanned(ix)) \in Nat
        BY NextSet, ScannedFinite
    <2> QED
        BY <2>1, SMT
<1>2. \E l \in Scanned(ix) : Place(ix, l) = i
    BY <1>1, Places
<1>3. k \in Scanned(ix) /\ Place(ix, k) = i
    BY <1>2
<1>4. NextValidatorSet(ix)[i] = [address |-> k[2], key |-> ix[k].key, stake |-> ix[k].stake]
    BY DEF NextValidatorSet
<1> HIDE DEF k
<1>5. Describes(ix, k, NextValidatorSet(ix)[i])
    BY <1>4, SMT DEF Describes
<1> QED
    BY <1>3, <1>5

-----------------------------------------------------------------------------
(***************************************************************************)
(* Decimals: products and quotients round towards zero.                    *)
(***************************************************************************)

\* A factor preserves the order.
LEMMA MulMono == ASSUME NEW x \in Nat, NEW y \in Nat, NEW z \in Nat, x <= y
                 PROVE  x * z <= y * z
    BY SMT

\* A positive common factor can be dropped.
LEMMA MulCancel == ASSUME NEW x \in Nat, NEW y \in Nat, NEW z \in Nat \ {0}, x * z <= y * z
                   PROVE  x <= y
<1>1. SUFFICES ASSUME x >= y + 1 PROVE FALSE
    BY SMT
<1>2. (y + 1) * z <= x * z
    BY <1>1, MulMono, SMT
<1> QED
    BY <1>2, SMT

\* Integer division.
LEMMA DivisionFacts == ASSUME NEW a \in Nat, NEW n \in Nat \ {0}
                       PROVE  a \div n \in Nat /\ (a \div n) * n <= a
    BY SMT

\* A product of decimals is a decimal and is not rounded up.
LEMMA MulFacts ==
    ASSUME NEW a \in Nat, NEW b \in Nat
    PROVE  /\ Mul(a, b) \in Nat /\ Mul(a, b) * SCALE <= a * b
           /\ b <= SCALE => Mul(a, b) <= a
           /\ a <= SCALE => Mul(a, b) <= b
<1>1. SCALE \in Nat \ {0} /\ a * b \in Nat
    BY ValidatorsAssumption, SMT
<1> DEFINE p == a * b
<1>2. (p \div SCALE) \in Nat /\ (p \div SCALE) * SCALE <= p
    <2> HIDE DEF p
    <2>1. p \in Nat
        BY <1>1 DEF p
    <2> QED
        BY <1>1, <2>1, DivisionFacts
<1>3. Mul(a, b) \in Nat /\ Mul(a, b) * SCALE <= a * b
    BY <1>2 DEF Mul
<1>4. ASSUME b <= SCALE PROVE Mul(a, b) <= a
    <2>1. b * a <= SCALE * a
        BY <1>1, <1>4, MulMono
    <2>2. Mul(a, b) * SCALE <= a * SCALE
        BY <1>1, <1>3, <2>1, SMT
    <2> QED
        BY <1>1, <1>3, <2>2, MulCancel
<1>5. ASSUME a <= SCALE PROVE Mul(a, b) <= b
    <2>1. a * b <= SCALE * b
        BY <1>1, <1>5, MulMono
    <2>2. Mul(a, b) * SCALE <= b * SCALE
        BY <1>1, <1>3, <2>1, SMT
    <2> QED
        BY <1>1, <1>3, <2>2, MulCancel
<1> QED
    BY <1>3, <1>4, <1>5

\* A quotient of decimals is a decimal and is not rounded up.
LEMMA DivFacts ==
    ASSUME NEW a \in Nat, NEW b \in Nat \ {0}
    PROVE  /\ Div(a, b) \in Nat /\ Div(a, b) * b <= a * SCALE
           /\ a <= b => Div(a, b) <= SCALE
<1>1. SCALE \in Nat \ {0} /\ a * SCALE \in Nat
    BY ValidatorsAssumption, SMT
<1> DEFINE p == a * SCALE
<1>2. (p \div b) \in Nat /\ (p \div b) * b <= p
    <2> HIDE DEF p
    <2>1. p \in Nat
        BY <1>1 DEF p
    <2> QED
        BY <2>1, DivisionFacts
<1>3. Div(a, b) \in Nat /\ Div(a, b) * b <= a * SCALE
    BY <1>2 DEF Div
<1>4. ASSUME a <= b PROVE Div(a, b) <= SCALE
    <2>1. a * SCALE <= b * SCALE
        BY <1>1, <1>4, MulMono
    <2>2. Div(a, b) * b <= SCALE * b
        BY <1>1, <1>3, <2>1, SMT
    <2> QED
        BY <1>1, <1>3, <2>2, MulCancel
<1> QED
    BY <1>3, <1>4

\* A share of b in proportion a to c is not rounded up.
LEMMA ShareFacts ==
    ASSUME NEW a \in Nat, NEW b \in Nat, NEW c \in Nat \ {0}
    PROVE  Mul(a, Div(b, c)) \in Nat /\ Mul(a, Div(b, c)) * c <= a * b
<1> DEFINE q == Div(b, c)
           m == Mul(a, q)
<1>1. q \in Nat /\ q * c <= b * SCALE /\ SCALE \in Nat \ {0}
    BY DivFacts, ValidatorsAssumption
<1>2. m \in Nat /\ m * SCALE <= a * q
    BY <1>1, MulFacts
<1> HIDE DEF q, m
<1>3. (m * SCALE) * c <= (a * q) * c
    <2>1. m * SCALE \in Nat /\ a * q \in Nat
        BY <1>1, <1>2, SMT
    <2> QED
        BY <1>2, <2>1, MulMono
<1>4. (q * c) * a <= (b * SCALE) * a
    <2>1. q * c \in Nat /\ b * SCALE \in Nat
        BY <1>1, SMT
    <2> QED
        BY <1>1, <2>1, MulMono
<1>5. (m * c) * SCALE <= (a * b) * SCALE
    BY <1>1, <1>2, <1>3, <1>4, SMT
<1>6. m * c \in Nat /\ a * b \in Nat
    BY <1>2, SMT
<1>7. m * c <= a * b
    BY <1>1, <1>5, <1>6, MulCancel
<1> QED
    BY <1>2, <1>7 DEF m, q

-----------------------------------------------------------------------------
(***************************************************************************)
(* The inductive invariant: the types of the state, with the three         *)
(* invariants that the runs check.                                         *)
(***************************************************************************)
AmountsTyped ==
    /\ epoch \in Nat /\ wallet \in Nat /\ rewards_vault \in Nat
    /\ stake \in [Validator -> Nat] /\ unit_supply \in [Validator -> Nat]
    /\ units \in [Validator -> Nat] /\ pending_xrd \in [Validator -> Nat]
    /\ locked_units \in [Validator -> Nat] /\ pending_units \in [Validator -> Nat]
    /\ already_unlocked \in [Validator -> Nat]

ListingTyped ==
    /\ registered \in [Validator -> BOOLEAN] /\ key \in [Validator -> Key]

\* claims and withdrawals are finite
PromisesTyped ==
    /\ DOMAIN claims = Validator /\ DOMAIN withdrawals = Validator
    /\ \A v \in Validator :
         /\ IsFiniteSet(DOMAIN claims[v]) /\ IsFiniteSet(DOMAIN withdrawals[v])
         /\ \A id \in DOMAIN claims[v] : claims[v][id][1] \in Nat /\ claims[v][id][2] \in Nat
         /\ \A e \in DOMAIN withdrawals[v] : e \in Nat /\ withdrawals[v][e] \in Nat

FeesTyped ==
    /\ fee_factor \in [Validator -> 0 .. SCALE] /\ DOMAIN fee_request = Validator
    /\ \A v \in Validator : fee_request[v] # <<>> =>
         fee_request[v][1] \in Nat /\ fee_request[v][2] \in 0 .. SCALE

\* the members of the set are different validators, and the tables match the set
SetTyped ==
    /\ network \in Networks /\ round \in Nat
    /\ Members \subseteq Indices
    /\ \A i \in Members :
         validator_set[i].address \in Validator /\ validator_set[i].stake \in Nat \ {0}
    /\ \A i, j \in Members : validator_set[i].address = validator_set[j].address => i = j
    /\ \A i \in Members : statistics[i][1] \in Nat /\ statistics[i][2] \in Nat
    /\ proposer_rewards \in [Indices -> Nat]

\* the parts of PromisesAreBacked
ClaimsBacked == \A v \in Validator : pending_xrd[v] = ClaimAmount(v, DOMAIN claims[v])
UnlocksBacked ==
    \A v \in Validator : pending_units[v] =
        already_unlocked[v] + SumFunctionOnSet(withdrawals[v], DOMAIN withdrawals[v])
UnitsBacked ==
    \A v \in Validator : unit_supply[v] = units[v] + locked_units[v] + pending_units[v]
RewardsBacked == SumFunctionOnSet(proposer_rewards, Indices) <= rewards_vault

IInv ==
    /\ AmountsTyped /\ ListingTyped /\ PromisesTyped /\ FeesTyped /\ SetTyped
    /\ IndexIsExact /\ RoundsAreAccounted
    /\ ClaimsBacked /\ UnlocksBacked /\ UnitsBacked /\ RewardsBacked

-----------------------------------------------------------------------------
(***************************************************************************)
(* The index of validators by stake.                                       *)
(***************************************************************************)

\* A sort prefix is a number, and a key is not empty.
LEMMA KeyFacts ==
    /\ \A n \in Nat : SortPrefix(n) \in Int
    /\ \A n, v : <<SortPrefix(n), v>> # <<>> /\ <<SortPrefix(n), v>>[2] = v
<1>1. ASSUME NEW n \in Nat PROVE SortPrefix(n) \in Int
    BY ValidatorsAssumption, SMT DEF SortPrefix
<1>2. ASSUME NEW n, NEW v PROVE <<SortPrefix(n), v>> # <<>> /\ <<SortPrefix(n), v>>[2] = v
    BY SMT
<1> QED
    BY <1>1, <1>2

\* An exact index can be read for the next set.
LEMMA ExactIsWellIndexed ==
    ASSUME stake \in [Validator -> Nat], IndexIsExact
    PROVE  WellIndexed(index)
<1>1. ASSUME NEW k \in DOMAIN index
      PROVE  \E v \in Validator : k = <<SortPrefix(stake[v]), v>> /\ stake[v] > 0
    BY DEF IndexIsExact
<1>2. ASSUME NEW k \in DOMAIN index
      PROVE  /\ k \in Int \X Validator
             /\ k = <<SortPrefix(stake[k[2]]), k[2]>>
             /\ index[k].stake \in Nat \ {0}
    <2>1. PICK v \in Validator : k = <<SortPrefix(stake[v]), v>> /\ stake[v] > 0
        BY <1>1
    <2>2. k[2] = v /\ SortPrefix(stake[v]) \in Int
        BY <2>1, KeyFacts
    <2>3. index[k].stake = stake[v]
        <3>1. index[k] = [key |-> key[k[2]], stake |-> stake[k[2]]]
            BY DEF IndexIsExact
        <3> QED
            BY <2>2, <3>1, SMT
    <2>4. index[k].stake \in Nat \ {0}
        BY <2>1, <2>3, SMT
    <2>5. k \in Int \X Validator
        BY <2>1, <2>2, SMT
    <2> QED
        BY <2>1, <2>2, <2>4, <2>5
<1> QED
    BY <1>2 DEF WellIndexed

\* Updating the entries of some validators keeps the index exact, whatever changed for them.
LEMMA IndexStep ==
    ASSUME IndexIsExact, stake \in [Validator -> Nat], stake' \in [Validator -> Nat],
           registered \in [Validator -> BOOLEAN], registered' \in [Validator -> BOOLEAN],
           key' = key, NEW U \in SUBSET Validator,
           \A v \in Validator \ U : stake'[v] = stake[v] /\ registered'[v] = registered[v],
           IndexUpdate(U, registered', stake')
    PROVE  IndexIsExact'
<1> DEFINE new == [v \in Validator |->
                     IF v \in U THEN ToSortedKey(v, registered'[v], stake'[v]) ELSE sorted_key[v]]
           kept == DOMAIN index \ {sorted_key[v] : v \in U}
           added == {new[v] : v \in {u \in U : new[u] # <<>>}}
           Listed(v) == registered[v] /\ stake[v] > 0
           NowListed(v) == registered'[v] /\ stake'[v] > 0
           K(v) == <<SortPrefix(stake[v]), v>>
           L(v) == <<SortPrefix(stake'[v]), v>>
<1>1. /\ sorted_key' = new
      /\ index' = [k \in kept \cup added |->
                     IF k \in added
                     THEN [key |-> IF sorted_key[k[2]] = <<>> THEN key[k[2]]
                                   ELSE index[sorted_key[k[2]]].key,
                           stake |-> stake'[k[2]]]
                     ELSE index[k]]
    BY DEF IndexUpdate
<1>2. ASSUME NEW v \in Validator
      PROVE  /\ K(v) # <<>> /\ K(v)[2] = v /\ L(v) # <<>> /\ L(v)[2] = v
             /\ sorted_key[v] = IF Listed(v) THEN K(v) ELSE <<>>
             /\ new[v] = IF NowListed(v) THEN L(v) ELSE <<>>
    <2>1. K(v) # <<>> /\ K(v)[2] = v /\ L(v) # <<>> /\ L(v)[2] = v
        BY KeyFacts
    <2>2. sorted_key[v] = IF Listed(v) THEN K(v) ELSE <<>>
        BY DEF IndexIsExact, ToSortedKey
    <2>3. CASE v \in U
        BY <2>1, <2>2, <2>3 DEF ToSortedKey
    <2>4. CASE v \notin U
        BY <2>1, <2>2, <2>4 DEF ToSortedKey
    <2> QED
        BY <2>3, <2>4
<1>3. DOMAIN index = {K(v) : v \in {u \in Validator : Listed(u)}}
    BY DEF IndexIsExact
<1>4. \A k \in DOMAIN index : index[k] = [key |-> key[k[2]], stake |-> stake[k[2]]]
    BY DEF IndexIsExact
<1> HIDE DEF new, K, L, Listed, NowListed
<1>5. \A k \in kept : \E v \in Validator \ U : NowListed(v) /\ k = L(v) /\ k = K(v)
    <2> SUFFICES ASSUME NEW k \in kept
                 PROVE  \E v \in Validator \ U : NowListed(v) /\ k = L(v) /\ k = K(v)
        OBVIOUS
    <2>1. PICK v \in Validator : Listed(v) /\ k = K(v)
        BY <1>3
    <2>2. sorted_key[v] = k
        BY <1>2, <2>1
    <2>3. v \notin U
        BY <2>2
    <2>4. stake'[v] = stake[v] /\ registered'[v] = registered[v]
        BY <2>3
    <2> QED
        BY <2>1, <2>3, <2>4 DEF NowListed, Listed, K, L
<1>6. \A k \in added : \E v \in U : NowListed(v) /\ k = L(v)
    <2> SUFFICES ASSUME NEW k \in added PROVE \E v \in U : NowListed(v) /\ k = L(v)
        OBVIOUS
    <2>1. PICK v \in U : new[v] # <<>> /\ k = new[v]
        OBVIOUS
    <2> QED
        BY <1>2, <2>1
<1>7. ASSUME NEW v \in Validator, NowListed(v) PROVE L(v) \in kept \cup added
    <2>1. CASE v \in U
        <3>1. new[v] = L(v) /\ new[v] # <<>>
            BY <1>2, <1>7
        <3> QED
            BY <2>1, <3>1
    <2>2. CASE v \notin U
        <3>1. stake'[v] = stake[v] /\ registered'[v] = registered[v]
            BY <2>2
        <3>2. Listed(v) /\ L(v) = K(v)
            BY <1>7, <3>1 DEF NowListed, Listed, K, L
        <3>3. L(v) \in DOMAIN index
            BY <1>3, <3>2
        <3>4. \A u \in U : sorted_key[u] # L(v)
            <4>1. SUFFICES ASSUME NEW u \in U, sorted_key[u] = L(v) PROVE FALSE
                OBVIOUS
            <4>2. K(u) = L(v) /\ K(u)[2] = u /\ L(v)[2] = v
                BY <1>2, <4>1
            <4> QED
                BY <2>2, <4>2
        <3> QED
            BY <3>3, <3>4
    <2> QED
        BY <2>1, <2>2
<1>8. DOMAIN index' = {L(v) : v \in {u \in Validator : NowListed(u)}}
    <2>1. DOMAIN index' = kept \cup added
        BY <1>1
    <2> HIDE DEF kept, added
    <2>2. ASSUME NEW k \in DOMAIN index' PROVE \E v \in Validator : NowListed(v) /\ k = L(v)
        BY <1>5, <1>6, <2>1
    <2> QED
        BY <1>7, <2>1, <2>2
<1>9. ASSUME NEW k \in DOMAIN index' PROVE index'[k] = [key |-> key[k[2]], stake |-> stake'[k[2]]]
    <2>1. CASE k \in added
        <3>1. PICK v \in U : NowListed(v) /\ k = L(v)
            BY <1>6, <2>1
        <3>2. k[2] = v
            BY <1>2, <3>1
        <3>3. ASSUME sorted_key[v] # <<>> PROVE index[sorted_key[v]].key = key[v]
            <4>1. Listed(v) /\ sorted_key[v] = K(v) /\ K(v)[2] = v
                BY <1>2, <3>3
            <4>2. K(v) \in DOMAIN index
                BY <1>3, <4>1
            <4>3. index[K(v)] = [key |-> key[v], stake |-> stake[v]]
                BY <1>4, <4>1, <4>2
            <4> QED
                BY <4>1, <4>3, SMT
        <3> QED
            BY <1>1, <2>1, <3>2, <3>3
    <2>2. CASE k \notin added
        <3>1. k \in kept
            BY <1>1, <2>2
        <3>2. PICK v \in Validator \ U : k = K(v)
            BY <1>5, <3>1
        <3>3. k[2] = v /\ stake'[v] = stake[v]
            BY <1>2, <3>2
        <3> QED
            BY <1>1, <1>4, <2>2, <3>1, <3>3
    <2> QED
        BY <2>1, <2>2
<1>10. \A v \in Validator : sorted_key'[v] = ToSortedKey(v, registered'[v], stake'[v])
    BY <1>1, <1>2 DEF ToSortedKey, NowListed, L
<1> QED
    BY <1>8, <1>9, <1>10 DEF IndexIsExact, NowListed, L

-----------------------------------------------------------------------------
(***************************************************************************)
(* Each call of a user or an owner preserves the invariant.                *)
(***************************************************************************)

\* What the parts of the invariant depend on.
LEMMA Same ==
    /\ UNCHANGED manager => /\ SetTyped => SetTyped'
                            /\ RoundsAreAccounted => RoundsAreAccounted'
                            /\ RewardsBacked => RewardsBacked'
    /\ UNCHANGED <<pending_xrd, claims>> /\ ClaimsBacked => ClaimsBacked'
    /\ UNCHANGED <<pending_units, already_unlocked, withdrawals>> /\ UnlocksBacked => UnlocksBacked'
    /\ UNCHANGED <<units, unit_supply, locked_units, pending_units>> /\ UnitsBacked => UnitsBacked'
    /\ UNCHANGED <<claims, withdrawals>> /\ PromisesTyped => PromisesTyped'
    /\ UNCHANGED fees /\ FeesTyped => FeesTyped'
    /\ UNCHANGED <<registered, key>> /\ ListingTyped => ListingTyped'
    /\ UNCHANGED <<listing, stake>> /\ IndexIsExact => IndexIsExact'
<1>1. ASSUME UNCHANGED manager
      PROVE  /\ SetTyped => SetTyped'
             /\ RoundsAreAccounted => RoundsAreAccounted'
             /\ RewardsBacked => RewardsBacked'
    <2>1. UNCHANGED <<network, round, validator_set, statistics, proposer_rewards, rewards_vault>>
        BY <1>1 DEF manager, clock, rewards
    <2>2. SetTyped => SetTyped'
        BY <2>1 DEF SetTyped, Members
    <2>3. RoundsAreAccounted => RoundsAreAccounted'
        BY <2>1 DEF RoundsAreAccounted, Members
    <2>4. RewardsBacked => RewardsBacked'
        BY <2>1 DEF RewardsBacked
    <2> QED
        BY <2>2, <2>3, <2>4
<1>2. UNCHANGED <<pending_xrd, claims>> /\ ClaimsBacked => ClaimsBacked'
    BY DEF ClaimsBacked, ClaimAmount
<1>3. UNCHANGED <<pending_units, already_unlocked, withdrawals>> /\ UnlocksBacked => UnlocksBacked'
    BY DEF UnlocksBacked
<1>4. UNCHANGED <<units, unit_supply, locked_units, pending_units>> /\ UnitsBacked => UnitsBacked'
    BY DEF UnitsBacked
<1>5. UNCHANGED <<claims, withdrawals>> /\ PromisesTyped => PromisesTyped'
    BY DEF PromisesTyped
<1>6. UNCHANGED fees /\ FeesTyped => FeesTyped'
    BY DEF FeesTyped, fees
<1>7. UNCHANGED <<registered, key>> /\ ListingTyped => ListingTyped'
    BY DEF ListingTyped
<1>8. UNCHANGED <<listing, stake>> /\ IndexIsExact => IndexIsExact'
    BY DEF IndexIsExact, listing
<1> QED
    BY <1>1, <1>2, <1>3, <1>4, <1>5, <1>6, <1>7, <1>8

\* Units are not minted at more than the value of the pool.
LEMMA StakeUnits ==
    ASSUME NEW a \in Nat, NEW b \in Nat, NEW c \in Nat
    PROVE  StakeUnitAmount(a, b, c) \in Nat /\ StakeUnitAmount(a, b, c) * b <= a * c
<1>1. CASE b = 0
    BY <1>1, SMT DEF StakeUnitAmount
<1>2. CASE b # 0
    BY <1>2, ShareFacts DEF StakeUnitAmount
<1> QED
    BY <1>1, <1>2

\* Staking.
LEMMA StakeInv ==
    ASSUME IInv, NEW v \in Validator, NEW xrd \in Nat, Stake(v, xrd), UNCHANGED manager
    PROVE  IInv'
<1> DEFINE minted == StakeUnitAmount(xrd, stake[v], unit_supply[v])
<1>1. /\ xrd <= wallet /\ wallet' = wallet - xrd
      /\ stake' = [stake EXCEPT ![v] = @ + xrd]
      /\ unit_supply' = [unit_supply EXCEPT ![v] = @ + minted]
      /\ units' = [units EXCEPT ![v] = @ + minted]
      /\ IndexUpdate({v}, registered, stake')
      /\ UNCHANGED <<epoch, pending_xrd, claims, owners, fees, registered, key>>
    BY DEF Stake
<1>2. UNCHANGED <<locked_units, pending_units, withdrawals, already_unlocked, rewards_vault>>
    BY <1>1 DEF owners, manager, rewards
<1>3. minted \in Nat
    BY StakeUnits DEF IInv, AmountsTyped
<1> HIDE DEF minted
<1>4. AmountsTyped'
    BY <1>1, <1>2, <1>3, SMT DEF IInv, AmountsTyped
<1>5. UnitsBacked'
    BY <1>1, <1>2, <1>3, SMT DEF IInv, AmountsTyped, UnitsBacked
<1>6. IndexIsExact'
    <2>1. \A u \in Validator \ {v} : stake'[u] = stake[u] /\ registered'[u] = registered[u]
        BY <1>1 DEF IInv, AmountsTyped
    <2>2. /\ stake \in [Validator -> Nat] /\ stake' \in [Validator -> Nat]
          /\ registered \in [Validator -> BOOLEAN] /\ registered' \in [Validator -> BOOLEAN]
        BY <1>1, <1>4 DEF IInv, AmountsTyped, ListingTyped
    <2>3. IndexUpdate({v}, registered', stake') /\ key' = key /\ {v} \in SUBSET Validator
        BY <1>1
    <2> QED
        BY <2>1, <2>2, <2>3, IndexStep DEF IInv
<1> QED
    BY <1>1, <1>2, <1>4, <1>5, <1>6, Same DEF IInv

\* The id of a new claim is not in use.
LEMMA NewClaimFresh ==
    ASSUME NEW v \in Validator, IsFiniteSet(DOMAIN claims[v])
    PROVE  NewClaim(v) \notin DOMAIN claims[v]
<1> DEFINE D == DOMAIN claims[v]
           n == Cardinality(D)
<1>1. n \in Nat
    BY FS_CardinalityType
<1>2. \E id \in 0 .. n : id \notin D
    <2>1. SUFFICES ASSUME 0 .. n \in SUBSET D PROVE FALSE
        OBVIOUS
    <2> HIDE DEF n
    <2>2. Cardinality(0 .. n) = n + 1
        BY <1>1, FS_Interval, SMT
    <2> HIDE DEF D
    <2>3. Cardinality(0 .. n) <= Cardinality(D)
        BY <2>1, FS_Subset DEF D
    <2> QED
        BY <1>1, <2>2, <2>3, SMT DEF n
<1> QED
    BY <1>2 DEF NewClaim

\* The value of stake units is a decimal.
LEMMA RedemptionFacts ==
    ASSUME AmountsTyped, NEW v \in Validator, NEW amount \in Nat
    PROVE  /\ RedemptionValue(v, amount) \in Nat
           /\ RedemptionValue(v, amount) * unit_supply[v] <= amount * stake[v]
<1>1. stake[v] \in Nat /\ unit_supply[v] \in Nat
    BY DEF AmountsTyped
<1>2. CASE unit_supply[v] = 0
    BY <1>1, <1>2, SMT DEF RedemptionValue
<1>3. CASE unit_supply[v] # 0
    BY <1>1, <1>3, ShareFacts DEF RedemptionValue
<1> QED
    BY <1>2, <1>3

\* Unstaking.
LEMMA UnstakeInv ==
    ASSUME IInv, NEW v \in Validator, NEW amount \in Nat, Unstake(v, amount), UNCHANGED manager
    PROVE  IInv'
<1> DEFINE xrd == RedemptionValue(v, amount)
           m == NewClaim(v)
           D == DOMAIN claims[v]
           f == [id \in D |-> claims[v][id][2]]
           g == [id \in D \cup {m} |-> claims'[v][id][2]]
<1>1. /\ amount <= units[v] /\ xrd <= stake[v]
      /\ units' = [units EXCEPT ![v] = @ - amount]
      /\ unit_supply' = [unit_supply EXCEPT ![v] = @ - amount]
      /\ stake' = [stake EXCEPT ![v] = @ - xrd]
      /\ pending_xrd' = [pending_xrd EXCEPT ![v] = @ + xrd]
      /\ claims' = [claims EXCEPT ![v] =
           [id \in D \cup {m} |->
              IF id = m THEN <<epoch + num_unstake_epochs, xrd>> ELSE claims[v][id]]]
      /\ IndexUpdate({v}, registered, stake')
      /\ UNCHANGED <<epoch, wallet, owners, fees, registered, key>>
    BY DEF Unstake
<1>2. UNCHANGED <<locked_units, pending_units, withdrawals, already_unlocked, rewards_vault>>
    BY <1>1 DEF owners, manager, rewards
<1>3. xrd \in Nat
    BY RedemptionFacts DEF IInv
<1>4. IsFiniteSet(D) /\ m \notin D
    BY NewClaimFresh DEF IInv, PromisesTyped
<1> HIDE DEF xrd, m
<1>5. AmountsTyped'
    <2>1. /\ units[v] \in Nat /\ stake[v] \in Nat /\ unit_supply[v] \in Nat
          /\ unit_supply[v] = units[v] + locked_units[v] + pending_units[v]
          /\ locked_units[v] \in Nat /\ pending_units[v] \in Nat
        BY DEF IInv, AmountsTyped, UnitsBacked
    <2>2. units[v] - amount \in Nat /\ unit_supply[v] - amount \in Nat /\ stake[v] - xrd \in Nat
        BY <1>1, <1>3, <2>1, SMT
    <2> QED
        BY <1>1, <1>2, <1>3, <2>2, SMT DEF IInv, AmountsTyped
<1>6. UnitsBacked'
    BY <1>1, <1>2, <1>3, SMT DEF IInv, AmountsTyped, UnitsBacked
<1>7. IndexIsExact'
    <2>1. \A u \in Validator \ {v} : stake'[u] = stake[u] /\ registered'[u] = registered[u]
        BY <1>1 DEF IInv, AmountsTyped
    <2>2. /\ stake \in [Validator -> Nat] /\ stake' \in [Validator -> Nat]
          /\ registered \in [Validator -> BOOLEAN] /\ registered' \in [Validator -> BOOLEAN]
        BY <1>1, <1>5 DEF IInv, AmountsTyped, ListingTyped
    <2>3. IndexUpdate({v}, registered', stake') /\ key' = key /\ {v} \in SUBSET Validator
        BY <1>1
    <2> QED
        BY <2>1, <2>2, <2>3, IndexStep DEF IInv
<1>8. /\ DOMAIN claims' = Validator /\ \A u \in Validator \ {v} : claims'[u] = claims[u]
      /\ DOMAIN claims'[v] = D \cup {m} /\ claims'[v][m] = <<epoch + num_unstake_epochs, xrd>>
      /\ \A id \in D : claims'[v][id] = claims[v][id]
    BY <1>1, <1>4 DEF IInv, PromisesTyped
<1>9. epoch + num_unstake_epochs \in Nat
    BY ValidatorsAssumption, SMT DEF IInv, AmountsTyped
<1>10. PromisesTyped'
    <2>1. IsFiniteSet(D \cup {m})
        BY <1>4, FS_AddElement
    <2>2. claims'[v][m][1] \in Nat /\ claims'[v][m][2] \in Nat
        BY <1>3, <1>8, <1>9, SMT
    <2>3. ASSUME NEW u \in Validator
          PROVE  /\ IsFiniteSet(DOMAIN claims'[u])
                 /\ \A id \in DOMAIN claims'[u] : claims'[u][id][1] \in Nat /\ claims'[u][id][2] \in Nat
        <3>1. CASE u = v
            BY <1>8, <2>1, <2>2, <3>1 DEF IInv, PromisesTyped
        <3>2. CASE u # v
            BY <1>8, <3>2 DEF IInv, PromisesTyped
        <3> QED
            BY <3>1, <3>2
    <2> QED
        BY <1>2, <1>8, <2>3 DEF IInv, PromisesTyped
<1>11. ClaimsBacked'
    <2>1. \A id \in D : f[id] \in Nat /\ g[id] = f[id]
        BY <1>8 DEF IInv, PromisesTyped
    <2>2. g[m] = xrd
        BY <1>8, SMT
    <2>3. SumFunctionOnSet(f, D) = pending_xrd[v]
        BY DEF IInv, ClaimsBacked, ClaimAmount
    <2>4. (ClaimAmount(v, DOMAIN claims[v]))' = SumFunctionOnSet(g, D \cup {m})
        BY <1>8 DEF ClaimAmount
    <2> HIDE DEF f, g, D
    <2>5. IsFiniteSet(D \cup {m}) /\ D \in SUBSET (D \cup {m}) /\ m \in (D \cup {m}) \ D
        BY <1>4, FS_AddElement
    <2>6. IntValued(g, D \cup {m})
        BY <1>3, <2>1, <2>2, SMT DEF IntValued
    <2>7. SumFunctionOnSet(g, D \cup {m}) = g[m] + SumFunctionOnSet(g, D)
        BY <2>5, <2>6, SumAddElement, SMT
    <2>8. SumFunctionOnSet(g, D) = SumFunctionOnSet(f, D)
        BY <1>4, <2>1, SumSame
    <2>9. pending_xrd'[v] = (ClaimAmount(v, DOMAIN claims[v]))'
        <3>1. pending_xrd[v] \in Nat /\ pending_xrd'[v] = pending_xrd[v] + xrd
            BY <1>1 DEF IInv, AmountsTyped
        <3> QED
            BY <1>3, <2>2, <2>3, <2>4, <2>7, <2>8, <3>1, SMT
    <2>10. ASSUME NEW u \in Validator \ {v} PROVE pending_xrd'[u] = (ClaimAmount(u, DOMAIN claims[u]))'
        <3>1. pending_xrd'[u] = pending_xrd[u] /\ claims'[u] = claims[u]
            BY <1>1, <1>8 DEF IInv, AmountsTyped
        <3>2. (ClaimAmount(u, DOMAIN claims[u]))' = ClaimAmount(u, DOMAIN claims[u])
            BY <3>1 DEF ClaimAmount
        <3> QED
            BY <3>1, <3>2 DEF IInv, ClaimsBacked
    <2> QED
        BY <2>9, <2>10 DEF ClaimsBacked
<1> QED
    BY <1>1, <1>2, <1>5, <1>6, <1>7, <1>10, <1>11, Same DEF IInv

\* Claiming.
LEMMA ClaimInv ==
    ASSUME IInv, NEW v \in Validator, NEW nfts, ClaimXrd(v, nfts), UNCHANGED manager
    PROVE  IInv'
<1> DEFINE D == DOMAIN claims[v]
           f == [id \in D |-> claims[v][id][2]]
           taken == ClaimAmount(v, nfts)
<1>1. /\ nfts \in SUBSET D /\ taken <= pending_xrd[v]
      /\ claims' = [claims EXCEPT ![v] = [id \in D \ nfts |-> claims[v][id]]]
      /\ pending_xrd' = [pending_xrd EXCEPT ![v] = @ - taken]
      /\ wallet' = wallet + taken
      /\ UNCHANGED <<epoch, stake, unit_supply, units, owners, fees, listing>>
    BY DEF ClaimXrd
<1>2. UNCHANGED <<locked_units, pending_units, withdrawals, already_unlocked, rewards_vault,
                  registered, key>>
    BY <1>1 DEF owners, manager, rewards, listing
<1>3. IsFiniteSet(D) /\ \A id \in D : f[id] \in Nat
    BY DEF IInv, PromisesTyped
<1>4. IsFiniteSet(nfts) /\ IsFiniteSet(D \ nfts)
    <2> HIDE DEF D
    <2> QED
        BY <1>1, <1>3, FS_Subset
<1>5. taken = SumFunctionOnSet(f, nfts)
    <2> DEFINE h == [id \in nfts |-> claims[v][id][2]]
    <2>1. \A id \in nfts : h[id] = f[id]
        BY <1>1
    <2>2. taken = SumFunctionOnSet(h, nfts)
        BY DEF ClaimAmount
    <2> HIDE DEF f, h, taken
    <2> QED
        BY <1>4, <2>1, <2>2, SumSame
<1>6. taken \in Nat
    <2> HIDE DEF f, taken
    <2>1. \A id \in nfts : f[id] \in Nat
        BY <1>1, <1>3
    <2> QED
        BY <1>4, <1>5, <2>1, SumNat
<1>7. /\ DOMAIN claims' = Validator /\ \A u \in Validator \ {v} : claims'[u] = claims[u]
      /\ DOMAIN claims'[v] = D \ nfts /\ \A id \in D \ nfts : claims'[v][id] = claims[v][id]
    BY <1>1 DEF IInv, PromisesTyped
<1>8. (ClaimAmount(v, DOMAIN claims[v]))' = SumFunctionOnSet(f, D \ nfts)
    <2> DEFINE h == [id \in D \ nfts |-> claims'[v][id][2]]
    <2>1. \A id \in D \ nfts : h[id] = f[id]
        BY <1>7
    <2>2. (ClaimAmount(v, DOMAIN claims[v]))' = SumFunctionOnSet(h, D \ nfts)
        BY <1>7 DEF ClaimAmount
    <2>3. SumFunctionOnSet(h, D \ nfts) = SumFunctionOnSet(f, D \ nfts)
        <3> HIDE DEF f, h, D
        <3> QED
            BY <1>4, <2>1, SumSame
    <2> QED
        BY <2>2, <2>3
<1>9. pending_xrd[v] = SumFunctionOnSet(f, D)
    BY DEF IInv, ClaimsBacked, ClaimAmount
<1> HIDE DEF taken
<1>10. AmountsTyped'
    <2>1. pending_xrd[v] - taken \in Nat
        BY <1>1, <1>6, SMT DEF IInv, AmountsTyped
    <2> QED
        BY <1>1, <1>2, <1>6, <2>1, SMT DEF IInv, AmountsTyped
<1>11. ClaimsBacked'
    <2>1. SumFunctionOnSet(f, D) = SumFunctionOnSet(f, nfts) + SumFunctionOnSet(f, D \ nfts)
        <3> HIDE DEF f, D
        <3>1. \A id \in D : f[id] \in Int
            BY <1>3, SMT
        <3> QED
            BY <1>1, <1>3, <3>1, SumUnion
    <2>2. SumFunctionOnSet(f, D \ nfts) \in Nat
        <3> HIDE DEF f, D
        <3>1. \A id \in D \ nfts : f[id] \in Nat
            BY <1>3
        <3> QED
            BY <1>4, <3>1, SumNat
    <2> HIDE DEF f, D
    <2>3. pending_xrd'[v] = (ClaimAmount(v, DOMAIN claims[v]))'
        <3>1. pending_xrd'[v] = pending_xrd[v] - taken
            BY <1>1 DEF IInv, AmountsTyped
        <3> QED
            BY <1>5, <1>6, <1>8, <1>9, <2>1, <2>2, <3>1, SMT
    <2>4. ASSUME NEW u \in Validator \ {v} PROVE pending_xrd'[u] = (ClaimAmount(u, DOMAIN claims[u]))'
        <3>1. pending_xrd'[u] = pending_xrd[u] /\ claims'[u] = claims[u]
            BY <1>1, <1>7 DEF IInv, AmountsTyped
        <3>2. (ClaimAmount(u, DOMAIN claims[u]))' = ClaimAmount(u, DOMAIN claims[u])
            BY <3>1 DEF ClaimAmount
        <3> QED
            BY <3>1, <3>2 DEF IInv, ClaimsBacked
    <2> QED
        BY <2>3, <2>4 DEF ClaimsBacked
<1>12. PromisesTyped'
    BY <1>2, <1>4, <1>7 DEF IInv, PromisesTyped
<1> QED
    BY <1>1, <1>2, <1>10, <1>11, <1>12, Same DEF IInv

\* Registering and unregistering.
LEMMA RegisterInv ==
    ASSUME IInv, NEW v \in Validator, NEW new \in BOOLEAN, RegisterUpdate(v, new), UNCHANGED manager
    PROVE  IInv'
<1>1. /\ registered' = [registered EXCEPT ![v] = new]
      /\ IndexUpdate({v}, registered', stake)
      /\ UNCHANGED <<epoch, staking, owners, fees, key>>
    BY DEF RegisterUpdate
<1>2. UNCHANGED <<wallet, stake, unit_supply, units, pending_xrd, claims, locked_units,
                  pending_units, withdrawals, already_unlocked, rewards_vault>>
    BY <1>1 DEF owners, manager, rewards, staking
<1>3. AmountsTyped'
    BY <1>1, <1>2 DEF IInv, AmountsTyped
<1>4. ListingTyped'
    BY <1>1 DEF IInv, ListingTyped
<1>5. IndexIsExact'
    <2>1. \A u \in Validator \ {v} : stake'[u] = stake[u] /\ registered'[u] = registered[u]
        BY <1>1, <1>2 DEF IInv, ListingTyped
    <2>2. /\ stake \in [Validator -> Nat] /\ stake' \in [Validator -> Nat]
          /\ registered \in [Validator -> BOOLEAN] /\ registered' \in [Validator -> BOOLEAN]
        BY <1>3, <1>4 DEF IInv, AmountsTyped, ListingTyped
    <2>3. IndexUpdate({v}, registered', stake') /\ key' = key /\ {v} \in SUBSET Validator
        BY <1>1, <1>2
    <2> QED
        BY <2>1, <2>2, <2>3, IndexStep DEF IInv
<1> QED
    BY <1>1, <1>2, <1>3, <1>4, <1>5, Same DEF IInv

\* Changing the public key.
LEMMA KeyInv ==
    ASSUME IInv, NEW v \in Validator, NEW k \in Key, UpdateKey(v, k), UNCHANGED manager
    PROVE  IInv'
<1>1. /\ key' = [key EXCEPT ![v] = k]
      /\ index' = [i \in DOMAIN index |->
                     IF i = sorted_key[v] THEN [key |-> k, stake |-> index[i].stake] ELSE index[i]]
      /\ UNCHANGED <<epoch, staking, owners, fees, registered, sorted_key>>
    BY DEF UpdateKey
<1>2. UNCHANGED <<wallet, stake, unit_supply, units, pending_xrd, claims, locked_units,
                  pending_units, withdrawals, already_unlocked, rewards_vault>>
    BY <1>1 DEF owners, manager, rewards, staking
<1>3. AmountsTyped'
    BY <1>1, <1>2 DEF IInv, AmountsTyped
<1>4. ListingTyped'
    BY <1>1 DEF IInv, ListingTyped
<1>5. ASSUME NEW i \in DOMAIN index
      PROVE  index'[i] = [key |-> key'[i[2]], stake |-> stake[i[2]]]
    <2>1. index[i] = [key |-> key[i[2]], stake |-> stake[i[2]]]
        BY DEF IInv, IndexIsExact
    <2>2. PICK u \in Validator : registered[u] /\ stake[u] > 0 /\ i = <<SortPrefix(stake[u]), u>>
        BY DEF IInv, IndexIsExact
    <2>3. i[2] = u /\ sorted_key[u] = i
        BY <2>2, KeyFacts DEF IInv, IndexIsExact, ToSortedKey
    <2>4. CASE i = sorted_key[v]
        <3>1. sorted_key[v] = <<SortPrefix(stake[v]), v>>
            BY <2>2, <2>4, KeyFacts DEF IInv, IndexIsExact, ToSortedKey
        <3>2. i[2] = v
            BY <2>4, <3>1, KeyFacts
        <3>3. key'[v] = k
            BY <1>1 DEF IInv, ListingTyped
        <3>4. index[i].stake = stake[i[2]]
            BY <2>1, SMT
        <3> QED
            BY <1>1, <2>4, <3>2, <3>3, <3>4
    <2>5. CASE i # sorted_key[v]
        <3>1. u # v
            BY <2>3, <2>5
        <3>2. key'[u] = key[u]
            BY <1>1, <3>1 DEF IInv, ListingTyped
        <3> QED
            BY <1>1, <2>1, <2>3, <2>5, <3>2
    <2> QED
        BY <2>4, <2>5
<1>6. IndexIsExact'
    <2>1. DOMAIN index' = DOMAIN index
        BY <1>1
    <2>2. DOMAIN index' = {<<SortPrefix(stake'[u]), u>> :
                              u \in {u \in Validator : registered'[u] /\ stake'[u] > 0}}
        BY <1>1, <1>2, <2>1 DEF IInv, IndexIsExact
    <2>3. \A i \in DOMAIN index' : index'[i] = [key |-> key'[i[2]], stake |-> stake'[i[2]]]
        BY <1>2, <1>5, <2>1
    <2>4. \A u \in Validator : sorted_key'[u] = ToSortedKey(u, registered'[u], stake'[u])
        BY <1>1, <1>2 DEF IInv, IndexIsExact
    <2> QED
        BY <2>2, <2>3, <2>4 DEF IndexIsExact
<1> QED
    BY <1>1, <1>2, <1>3, <1>4, <1>6, Same DEF IInv

\* A fee is a fraction.
LEMMA FeeFraction ==
    ASSUME FeesTyped, NEW v \in Validator, NEW e
    PROVE  EffectiveFee(v, e) \in 0 .. SCALE
    BY DEF FeesTyped, EffectiveFee

\* Asking for another fee.
LEMMA FeeInv ==
    ASSUME IInv, NEW v \in Validator, NEW factor \in FeeFactors, UpdateFee(v, factor),
           UNCHANGED manager
    PROVE  IInv'
<1> DEFINE current == EffectiveFee(v, epoch)
           from == IF factor > current THEN epoch + num_fee_increase_delay_epochs ELSE epoch + 1
<1>1. /\ fee_factor' = [fee_factor EXCEPT ![v] = current]
      /\ fee_request' = [fee_request EXCEPT ![v] = <<from, factor>>]
      /\ UNCHANGED <<epoch, staking, owners, listing>>
    BY DEF UpdateFee
<1>2. UNCHANGED <<wallet, stake, unit_supply, units, pending_xrd, claims, locked_units,
                  pending_units, withdrawals, already_unlocked, rewards_vault, registered, key>>
    BY <1>1 DEF owners, manager, rewards, staking, listing
<1>3. AmountsTyped'
    BY <1>1, <1>2 DEF IInv, AmountsTyped
<1>4. from \in Nat /\ factor \in 0 .. SCALE /\ current \in 0 .. SCALE
    <2>1. current \in 0 .. SCALE
        BY FeeFraction DEF IInv
    <2>2. epoch \in Nat /\ num_fee_increase_delay_epochs \in Nat /\ factor \in 0 .. SCALE
        BY ValidatorsAssumption DEF IInv, AmountsTyped
    <2> HIDE DEF current
    <2> QED
        BY <2>1, <2>2, SMT
<1>5. FeesTyped'
    <2> HIDE DEF from, current
    <2>1. <<from, factor>>[1] = from /\ <<from, factor>>[2] = factor
        BY SMT
    <2> QED
        BY <1>1, <1>4, <2>1 DEF IInv, FeesTyped
<1> QED
    BY <1>1, <1>2, <1>3, <1>5, Same DEF IInv

\* Locking the owner's units.
LEMMA LockInv ==
    ASSUME IInv, NEW v \in Validator, NEW amount \in Nat, LockOwnerStakeUnits(v, amount),
           UNCHANGED manager
    PROVE  IInv'
<1>1. /\ amount <= units[v]
      /\ units' = [units EXCEPT ![v] = @ - amount]
      /\ locked_units' = [locked_units EXCEPT ![v] = @ + amount]
      /\ UNCHANGED <<epoch, wallet, stake, unit_supply, pending_xrd, claims, fees, listing,
                     pending_units, withdrawals, already_unlocked>>
    BY DEF LockOwnerStakeUnits
<1>2. UNCHANGED <<rewards_vault, registered, key>>
    BY <1>1 DEF manager, rewards, listing
<1>3. AmountsTyped'
    <2>1. units[v] - amount \in Nat
        BY <1>1, SMT DEF IInv, AmountsTyped
    <2> QED
        BY <1>1, <1>2, <2>1, SMT DEF IInv, AmountsTyped
<1>4. UnitsBacked'
    BY <1>1, SMT DEF IInv, AmountsTyped, UnitsBacked
<1> QED
    BY <1>1, <1>2, <1>3, <1>4, Same DEF IInv

\* The withdrawals of a validator: those that are due, and the rest.
LEMMA WithdrawalFacts ==
    ASSUME IInv, NEW v \in Validator
    PROVE  LET later == DOMAIN withdrawals[v] \ Available(v)
           IN /\ IsFiniteSet(later) /\ \A e \in later : e \in Nat /\ withdrawals[v][e] \in Nat
              /\ SumFunctionOnSet(withdrawals[v], later) \in Nat
              /\ Unlocked(v) \in Nat
              /\ pending_units[v] = Unlocked(v) + SumFunctionOnSet(withdrawals[v], later)
<1> DEFINE D == DOMAIN withdrawals[v]
           A == Available(v)
           w == withdrawals[v]
<1>1. IsFiniteSet(D) /\ \A e \in D : e \in Nat /\ w[e] \in Nat
    BY DEF IInv, PromisesTyped
<1>2. A \in SUBSET D
    BY DEF Available
<1>3. pending_units[v] = already_unlocked[v] + SumFunctionOnSet(w, D) /\ already_unlocked[v] \in Nat
    BY DEF IInv, UnlocksBacked, AmountsTyped
<1>4. Unlocked(v) = already_unlocked[v] + SumFunctionOnSet(w, A)
    BY DEF Unlocked
<1> HIDE DEF D, A, w
<1>5. IsFiniteSet(A) /\ IsFiniteSet(D \ A)
    BY <1>1, <1>2, FS_Subset
<1>6. SumFunctionOnSet(w, A) \in Nat
    <2>1. \A e \in A : w[e] \in Nat
        BY <1>1, <1>2
    <2> QED
        BY <1>5, <2>1, SumNat
<1>7. SumFunctionOnSet(w, D \ A) \in Nat
    <2>1. \A e \in D \ A : w[e] \in Nat
        BY <1>1
    <2> QED
        BY <1>5, <2>1, SumNat
<1>8. SumFunctionOnSet(w, D) = SumFunctionOnSet(w, A) + SumFunctionOnSet(w, D \ A)
    <2>1. \A e \in D : w[e] \in Int
        BY <1>1, SMT
    <2> QED
        BY <1>1, <1>2, <2>1, SumUnion
<1>9. pending_units[v] = Unlocked(v) + SumFunctionOnSet(w, D \ A) /\ Unlocked(v) \in Nat
    BY <1>3, <1>4, <1>6, <1>7, <1>8, SMT
<1> QED
    BY <1>1, <1>5, <1>7, <1>9 DEF D, A, w

\* Starting to unlock the owner's units.
LEMMA StartUnlockInv ==
    ASSUME IInv, NEW v \in Validator, NEW amount \in Nat, StartUnlock(v, amount), UNCHANGED manager
    PROVE  IInv'
<1> DEFINE later == DOMAIN withdrawals[v] \ Available(v)
           e == epoch + num_owner_stake_units_unlock_epochs
           pending == IF e \in later THEN withdrawals[v][e] ELSE 0
           w == withdrawals[v]
           w2 == [x \in later \cup {e} |-> IF x = e THEN pending + amount ELSE withdrawals[v][x]]
<1>1. /\ amount <= locked_units[v]
      /\ already_unlocked' = [already_unlocked EXCEPT ![v] = Unlocked(v)]
      /\ withdrawals' = [withdrawals EXCEPT ![v] = w2]
      /\ locked_units' = [locked_units EXCEPT ![v] = @ - amount]
      /\ pending_units' = [pending_units EXCEPT ![v] = @ + amount]
      /\ UNCHANGED <<epoch, staking, fees, listing>>
    BY DEF StartUnlock
<1>2. UNCHANGED <<wallet, stake, unit_supply, units, pending_xrd, claims, rewards_vault, registered,
                  key>>
    BY <1>1 DEF manager, rewards, staking, listing
<1>3. /\ IsFiniteSet(later) /\ \A x \in later : x \in Nat /\ w[x] \in Nat
      /\ SumFunctionOnSet(w, later) \in Nat
      /\ Unlocked(v) \in Nat
      /\ pending_units[v] = Unlocked(v) + SumFunctionOnSet(w, later)
    BY WithdrawalFacts
<1>4. e \in Nat /\ pending \in Nat
    <2>1. e \in Nat
        BY ValidatorsAssumption, SMT DEF IInv, AmountsTyped
    <2> HIDE DEF e, later
    <2> QED
        BY <1>3, <2>1
<1>5. /\ DOMAIN w2 = later \cup {e} /\ w2[e] = pending + amount
      /\ \A x \in later \ {e} : w2[x] = w[x]
    OBVIOUS
<1> HIDE DEF later, e, w2
<1>6. pending = IF e \in later THEN w[e] ELSE 0
    OBVIOUS
<1> HIDE DEF pending
<1>7. AmountsTyped'
    <2>1. locked_units[v] - amount \in Nat
        BY <1>1, SMT DEF IInv, AmountsTyped
    <2> QED
        BY <1>1, <1>2, <1>3, <2>1, SMT DEF IInv, AmountsTyped
<1>8. UnitsBacked'
    BY <1>1, <1>2, SMT DEF IInv, AmountsTyped, UnitsBacked
<1>9. /\ DOMAIN withdrawals' = Validator /\ withdrawals'[v] = w2
      /\ \A u \in Validator \ {v} : withdrawals'[u] = withdrawals[u]
    BY <1>1 DEF IInv, PromisesTyped
<1>10. IsFiniteSet(later \cup {e}) /\ \A x \in later \cup {e} : x \in Nat /\ w2[x] \in Nat
    <2>1. IsFiniteSet(later \cup {e})
        BY <1>3, FS_AddElement
    <2>2. pending + amount \in Nat
        BY <1>4, SMT
    <2> HIDE DEF w
    <2> QED
        BY <1>3, <1>4, <1>5, <2>1, <2>2
<1>11. PromisesTyped'
    BY <1>2, <1>5, <1>9, <1>10 DEF IInv, PromisesTyped
<1>12. SumFunctionOnSet(w2, later \cup {e}) = SumFunctionOnSet(w, later) + amount
    <2> DEFINE rest == later \ {e}
    <2> HIDE DEF w
    <2>1. /\ IsFiniteSet(rest) /\ rest \in SUBSET (later \cup {e})
          /\ e \in (later \cup {e}) \ rest /\ rest \cup {e} = later \cup {e}
        BY <1>3, FS_RemoveElement
    <2>2. IntValued(w2, later \cup {e}) /\ IntValued(w, later)
        BY <1>3, <1>10, SMT DEF IntValued
    <2>3. SumFunctionOnSet(w2, later \cup {e}) = w2[e] + SumFunctionOnSet(w2, rest)
        <3> HIDE DEF rest
        <3>1. SumFunctionOnSet(w2, rest \cup {e}) = w2[e] + SumFunctionOnSet(w2, rest)
            BY <1>10, <2>1, <2>2, SumAddElement, SMT
        <3> QED
            BY <2>1, <3>1
    <2>4. SumFunctionOnSet(w2, rest) = SumFunctionOnSet(w, rest)
        <3>1. \A x \in rest : w2[x] = w[x]
            BY <1>5
        <3> HIDE DEF rest
        <3> QED
            BY <2>1, <3>1, SumSame
    <2>5. SumFunctionOnSet(w, rest) \in Nat
        <3>1. \A x \in rest : w[x] \in Nat
            BY <1>3
        <3> HIDE DEF rest
        <3> QED
            BY <2>1, <3>1, SumNat
    <2>6. SumFunctionOnSet(w, later) = pending + SumFunctionOnSet(w, rest)
        <3>1. CASE e \in later
            <4>1. SumFunctionOnSet(w, later) = w[e] + SumFunctionOnSet(w, later \ {e})
                BY <1>3, <2>2, <3>1, SumSplit DEF IntValued
            <4> QED
                BY <1>6, <3>1, <4>1
        <3>2. CASE e \notin later
            <4>1. rest = later /\ pending = 0
                BY <1>6, <3>2
            <4> HIDE DEF rest
            <4> QED
                BY <2>5, <4>1, SMT
        <3> QED
            BY <3>1, <3>2
    <2> HIDE DEF rest
    <2> QED
        BY <1>4, <1>5, <2>3, <2>4, <2>5, <2>6, SMT
<1>13. UnlocksBacked'
    <2>1. pending_units'[v] = already_unlocked'[v] + SumFunctionOnSet(withdrawals'[v], DOMAIN withdrawals'[v])
        <3>1. /\ pending_units'[v] = pending_units[v] + amount /\ already_unlocked'[v] = Unlocked(v)
              /\ SumFunctionOnSet(withdrawals'[v], DOMAIN withdrawals'[v])
                   = SumFunctionOnSet(w2, later \cup {e})
            BY <1>1, <1>5, <1>9 DEF IInv, AmountsTyped
        <3> HIDE DEF w
        <3> QED
            BY <1>3, <1>12, <3>1, SMT
    <2>2. ASSUME NEW u \in Validator \ {v}
          PROVE  pending_units'[u] = already_unlocked'[u]
                                       + SumFunctionOnSet(withdrawals'[u], DOMAIN withdrawals'[u])
        <3>1. /\ pending_units'[u] = pending_units[u] /\ already_unlocked'[u] = already_unlocked[u]
              /\ withdrawals'[u] = withdrawals[u]
            BY <1>1, <1>9 DEF IInv, AmountsTyped
        <3> QED
            BY <3>1 DEF IInv, UnlocksBacked
    <2> QED
        BY <2>1, <2>2 DEF UnlocksBacked
<1> QED
    BY <1>1, <1>2, <1>7, <1>8, <1>11, <1>13, Same DEF IInv

\* Taking the units that are unlocked.
LEMMA FinishUnlockInv ==
    ASSUME IInv, NEW v \in Validator, FinishUnlock(v), UNCHANGED manager
    PROVE  IInv'
<1> DEFINE later == DOMAIN withdrawals[v] \ Available(v)
           w == withdrawals[v]
           w2 == [x \in later |-> withdrawals[v][x]]
<1>1. /\ Unlocked(v) <= pending_units[v]
      /\ already_unlocked' = [already_unlocked EXCEPT ![v] = 0]
      /\ withdrawals' = [withdrawals EXCEPT ![v] = w2]
      /\ pending_units' = [pending_units EXCEPT ![v] = @ - Unlocked(v)]
      /\ units' = [units EXCEPT ![v] = @ + Unlocked(v)]
      /\ UNCHANGED <<epoch, wallet, stake, unit_supply, pending_xrd, claims, fees, listing,
                     locked_units>>
    BY DEF FinishUnlock
<1>2. UNCHANGED <<rewards_vault, registered, key>>
    BY <1>1 DEF manager, rewards, listing
<1>3. /\ IsFiniteSet(later) /\ \A x \in later : x \in Nat /\ w[x] \in Nat
      /\ SumFunctionOnSet(w, later) \in Nat
      /\ Unlocked(v) \in Nat
      /\ pending_units[v] = Unlocked(v) + SumFunctionOnSet(w, later)
    BY WithdrawalFacts
<1>4. DOMAIN w2 = later /\ \A x \in later : w2[x] = w[x]
    OBVIOUS
<1> HIDE DEF later, w2
<1>5. AmountsTyped'
    <2>1. pending_units[v] - Unlocked(v) \in Nat
        <3> HIDE DEF w
        <3> QED
            BY <1>3, SMT
    <2> QED
        BY <1>1, <1>2, <1>3, <2>1, SMT DEF IInv, AmountsTyped
<1>6. UnitsBacked'
    BY <1>1, <1>3, SMT DEF IInv, AmountsTyped, UnitsBacked
<1>7. /\ DOMAIN withdrawals' = Validator /\ withdrawals'[v] = w2
      /\ \A u \in Validator \ {v} : withdrawals'[u] = withdrawals[u]
    BY <1>1 DEF IInv, PromisesTyped
<1>8. PromisesTyped'
    BY <1>1, <1>3, <1>4, <1>7 DEF IInv, PromisesTyped
<1>9. UnlocksBacked'
    <2>1. pending_units'[v] = already_unlocked'[v] + SumFunctionOnSet(withdrawals'[v], DOMAIN withdrawals'[v])
        <3>1. /\ pending_units'[v] = pending_units[v] - Unlocked(v) /\ already_unlocked'[v] = 0
              /\ SumFunctionOnSet(withdrawals'[v], DOMAIN withdrawals'[v]) = SumFunctionOnSet(w2, later)
            BY <1>1, <1>4, <1>7 DEF IInv, AmountsTyped
        <3> HIDE DEF w
        <3>2. SumFunctionOnSet(w2, later) = SumFunctionOnSet(w, later)
            BY <1>3, <1>4, SumSame
        <3> QED
            BY <1>3, <3>1, <3>2, SMT
    <2>2. ASSUME NEW u \in Validator \ {v}
          PROVE  pending_units'[u] = already_unlocked'[u]
                                       + SumFunctionOnSet(withdrawals'[u], DOMAIN withdrawals'[u])
        <3>1. /\ pending_units'[u] = pending_units[u] /\ already_unlocked'[u] = already_unlocked[u]
              /\ withdrawals'[u] = withdrawals[u]
            BY <1>1, <1>7 DEF IInv, AmountsTyped
        <3> QED
            BY <3>1 DEF IInv, UnlocksBacked
    <2> QED
        BY <2>1, <2>2 DEF UnlocksBacked
<1> QED
    BY <1>1, <1>2, <1>5, <1>6, <1>8, <1>9, Same DEF IInv

\* The indices of the set are finite.
LEMMA IndicesFinite == IsFiniteSet(Indices) /\ IsFiniteSet(Validator) /\ Cardinality(Validator) \in Nat
<1>1. IsFiniteSet(Validator) /\ Cardinality(Validator) \in Nat
    BY ConsensusManagerAssumption, FS_CardinalityType
<1> QED
    BY <1>1, FS_Interval, SMT DEF Indices

\* Fees of a transaction.
LEMMA FinalizeInv ==
    ASSUME IInv, NEW p \in Nat, NEW s \in Nat, FinalizeFees(p, s)
    PROVE  IInv'
<1> DEFINE l == current_leader[1]
<1>1. /\ p + s \in 1 .. wallet
      /\ wallet' = wallet - p - s
      /\ proposer_rewards' = IF current_leader = <<>> THEN proposer_rewards
                             ELSE [proposer_rewards EXCEPT ![l] = @ + p]
      /\ rewards_vault' = rewards_vault + p + s
      /\ UNCHANGED <<epoch, stake, unit_supply, units, pending_xrd, claims, owners, fees, listing,
                     network, started, clock, validator_set, statistics>>
    BY DEF FinalizeFees
<1>2. UNCHANGED <<locked_units, pending_units, withdrawals, already_unlocked, registered, key, round>>
    BY <1>1 DEF owners, listing, clock
<1>3. AmountsTyped'
    <2>1. wallet - p - s \in Nat /\ rewards_vault + p + s \in Nat
        BY <1>1, SMT DEF IInv, AmountsTyped
    <2> QED
        BY <1>1, <1>2, <2>1 DEF IInv, AmountsTyped
<1> HIDE DEF l
<1>4. proposer_rewards \in [Indices -> Nat]
    BY DEF IInv, SetTyped
<1>5. /\ proposer_rewards' \in [Indices -> Nat]
      /\ SumFunctionOnSet(proposer_rewards', Indices) <= SumFunctionOnSet(proposer_rewards, Indices) + p
    <2> DEFINE f == proposer_rewards
               g == proposer_rewards'
    <2>1. SumFunctionOnSet(f, Indices) \in Nat
        BY <1>4, IndicesFinite, SumNat
    <2>2. CASE current_leader # <<>> /\ l \in Indices
        <3>1. g \in [Indices -> Nat] /\ g[l] = f[l] + p /\ f[l] \in Nat
            BY <1>1, <1>4, <2>2, SMT
        <3>2. \A i \in Indices : f[i] \in Int /\ g[i] \in Int
            BY <1>4, <3>1, SMT
        <3>3. \A i \in Indices \ {l} : g[i] = f[i]
            BY <1>1, <1>4, <2>2
        <3> HIDE DEF f, g
        <3>4. SumFunctionOnSet(g, Indices) = SumFunctionOnSet(f, Indices) + (g[l] - f[l])
            <4>1. l \in Indices /\ IsFiniteSet(Indices)
                BY <2>2, IndicesFinite
            <4> QED
                BY <3>2, <3>3, <4>1, SumUpdate, SMT
        <3>5. SumFunctionOnSet(g, Indices) <= SumFunctionOnSet(f, Indices) + p
            BY <2>1, <3>1, <3>4, SMT
        <3> QED
            BY <3>1, <3>5 DEF f, g
    <2>3. CASE ~(current_leader # <<>> /\ l \in Indices)
        <3>1. g = f
            BY <1>1, <1>4, <2>3
        <3> HIDE DEF f, g
        <3>2. SumFunctionOnSet(g, Indices) <= SumFunctionOnSet(f, Indices) + p
            BY <2>1, <3>1, SMT
        <3> QED
            BY <1>4, <3>1, <3>2 DEF f, g
    <2> QED
        BY <2>2, <2>3
<1>6. RewardsBacked'
    <2>1. SumFunctionOnSet(proposer_rewards, Indices) <= rewards_vault /\ rewards_vault \in Nat
        BY DEF IInv, RewardsBacked, AmountsTyped
    <2>2. SumFunctionOnSet(proposer_rewards, Indices) \in Nat
        BY <1>4, IndicesFinite, SumNat
    <2>3. SumFunctionOnSet(proposer_rewards', Indices) \in Nat
        BY <1>5, IndicesFinite, SumNat
    <2>4. SumFunctionOnSet(proposer_rewards', Indices) <= rewards_vault'
        BY <1>1, <1>5, <2>1, <2>2, <2>3, SMT
    <2> QED
        BY <2>4 DEF RewardsBacked
<1>7. SetTyped'
    BY <1>1, <1>2, <1>5 DEF IInv, SetTyped, Members
<1>8. RoundsAreAccounted'
    BY <1>1, <1>2 DEF IInv, RoundsAreAccounted, Members
<1> QED
    BY <1>1, <1>2, <1>3, <1>6, <1>7, <1>8, Same DEF IInv

-----------------------------------------------------------------------------
(***************************************************************************)
(* The end of an epoch: what the members of the set are paid.              *)
(***************************************************************************)
PoolType == [stake : Nat, unit_supply : Nat, locked : Nat]

\* q is the pool p with more stake, and units minted to the owner for no more than that
Grown(p, q, gain) ==
    /\ q \in PoolType /\ q.stake = p.stake + gain
    /\ q.unit_supply - p.unit_supply \in Nat
    /\ q.unit_supply - p.unit_supply = q.locked - p.locked
    /\ p.stake * q.unit_supply <= q.stake * p.unit_supply

\* Adding stake, part of it for units, grows a pool.
LEMMA GrowOne ==
    ASSUME NEW p \in PoolType, NEW net \in Nat, NEW xrd \in Nat
    PROVE  Grown(p, WithStakeFor(p, net, xrd), net + xrd)
<1> DEFINE s == p.stake
           u == p.unit_supply
           m == StakeUnitAmount(xrd, s + net, u)
           q == WithStakeFor(p, net, xrd)
<1>1. s \in Nat /\ u \in Nat /\ p.locked \in Nat /\ s + net \in Nat
    BY SMT DEF PoolType
<1>2. m \in Nat /\ m * (s + net) <= xrd * u
    <2> HIDE DEF s, u
    <2> QED
        BY <1>1, StakeUnits
<1>3. q = [stake |-> s + net + xrd, unit_supply |-> u + m, locked |-> p.locked + m]
    BY DEF WithStakeFor
<1> HIDE DEF m, q
<1>4. q.stake = s + net + xrd /\ q.unit_supply = u + m /\ q.locked = p.locked + m /\ q \in PoolType
    BY <1>1, <1>2, <1>3, SMT DEF PoolType
<1>5. s * (u + m) <= (s + net + xrd) * u
    <2> HIDE DEF s, u
    <2>1. s * (u + m) = s * u + s * m /\ m * (s + net) = s * m + m * net
        BY <1>1, <1>2, SMT
    <2>2. (s + net + xrd) * u = s * u + net * u + xrd * u
        BY <1>1, SMT
    <2>3. s * u \in Nat /\ s * m \in Nat /\ m * net \in Nat /\ net * u \in Nat /\ xrd * u \in Nat
        BY <1>1, <1>2, SMT
    <2> QED
        BY <1>2, <2>1, <2>2, <2>3, SMT
<1>6. q.stake = p.stake + (net + xrd)
    BY <1>1, <1>4, SMT
<1>7. q.unit_supply - p.unit_supply = m /\ q.locked - p.locked = m
    BY <1>1, <1>2, <1>4, SMT
<1>8. p.stake * q.unit_supply <= q.stake * p.unit_supply
    BY <1>4, <1>5
<1> QED
    BY <1>2, <1>4, <1>6, <1>7, <1>8 DEF Grown, q

\* Comparing the value of units is transitive when stake and units only grow.
LEMMA ValueTransitive ==
    ASSUME NEW s0 \in Nat, NEW u0 \in Nat, NEW s1 \in Nat, NEW u1 \in Nat, NEW s2 \in Nat, NEW u2 \in Nat,
           s0 <= s1, u0 <= u1, s0 * u1 <= s1 * u0, s1 * u2 <= s2 * u1
    PROVE  s0 * u2 <= s2 * u0
<1>1. CASE u1 = 0
    <2>1. s1 * u2 <= 0
        BY <1>1, SMT
    <2>2. s0 * u2 <= s1 * u2
        BY MulMono
    <2>3. s0 * u2 \in Nat /\ s1 * u2 \in Nat /\ s2 * u0 \in Nat
        BY SMT
    <2> QED
        BY <2>1, <2>2, <2>3, SMT
<1>2. CASE u1 # 0
    <2>1. s0 * u1 \in Nat /\ s1 * u0 \in Nat /\ s1 * u2 \in Nat /\ s2 * u1 \in Nat
        BY SMT
    <2>2. (s0 * u1) * u2 <= (s1 * u0) * u2
        BY <2>1, MulMono
    <2>3. (s1 * u2) * u0 <= (s2 * u1) * u0
        BY <2>1, MulMono
    <2>4. /\ (s0 * u1) * u2 = (s0 * u2) * u1 /\ (s1 * u0) * u2 = (s1 * u2) * u0
          /\ (s2 * u1) * u0 = (s2 * u0) * u1
        BY SMT
    <2>5. /\ (s0 * u2) * u1 \in Int /\ (s1 * u2) * u0 \in Int /\ (s2 * u0) * u1 \in Int
          /\ s0 * u2 \in Nat /\ s2 * u0 \in Nat
        BY SMT
    <2>6. (s0 * u2) * u1 <= (s2 * u0) * u1
        BY <2>2, <2>3, <2>4, <2>5, SMT
    <2> QED
        BY <1>2, <2>5, <2>6, MulCancel
<1> QED
    BY <1>1, <1>2

\* A pool that grows twice has grown by both.
LEMMA GrowTwo ==
    ASSUME NEW p \in PoolType, NEW q, NEW r, NEW a \in Nat, NEW b \in Nat,
           Grown(p, q, a), Grown(q, r, b)
    PROVE  Grown(p, r, a + b)
<1>1. /\ p.stake \in Nat /\ p.unit_supply \in Nat /\ p.locked \in Nat
      /\ q.stake \in Nat /\ q.unit_supply \in Nat /\ q.locked \in Nat
      /\ r.stake \in Nat /\ r.unit_supply \in Nat /\ r.locked \in Nat
    BY SMT DEF Grown, PoolType
<1>2. /\ r \in PoolType
      /\ q.stake = p.stake + a /\ r.stake = q.stake + b
      /\ q.unit_supply - p.unit_supply \in Nat /\ r.unit_supply - q.unit_supply \in Nat
      /\ q.unit_supply - p.unit_supply = q.locked - p.locked
      /\ r.unit_supply - q.unit_supply = r.locked - q.locked
    BY DEF Grown
<1>3. p.stake <= q.stake /\ p.unit_supply <= q.unit_supply
    BY <1>1, <1>2, SMT
<1>4. p.stake * r.unit_supply <= r.stake * p.unit_supply
    <2>1. /\ p.stake * q.unit_supply <= q.stake * p.unit_supply
          /\ q.stake * r.unit_supply <= r.stake * q.unit_supply
        BY DEF Grown
    <2> QED
        BY <1>1, <1>3, <2>1, ValueTransitive
<1>5. /\ r.stake = p.stake + (a + b)
      /\ r.unit_supply - p.unit_supply \in Nat
      /\ r.unit_supply - p.unit_supply = r.locked - p.locked
    BY <1>1, <1>2, SMT
<1> QED
    BY <1>2, <1>4, <1>5 DEF Grown

\* The pool of a member after its emission and its reward.
LEMMA PoolGrown ==
    ASSUME AmountsTyped, FeesTyped, SetTyped, NEW i \in Members, NEW emission \in Nat, NEW reward \in Nat
    PROVE  Grown(Pool(validator_set[i].address), PoolAfter(i, emission, reward), emission + reward)
<1> DEFINE v == validator_set[i].address
           fee == Mul(EffectiveFee(v, epoch), emission)
           p == Pool(v)
           q == ApplyEmission(p, emission, EffectiveFee(v, epoch))
<1>1. v \in Validator
    BY DEF SetTyped
<1>2. p \in PoolType
    BY <1>1 DEF AmountsTyped, PoolType, Pool
<1>3. EffectiveFee(v, epoch) \in Nat /\ EffectiveFee(v, epoch) <= SCALE
    <2>1. EffectiveFee(v, epoch) \in 0 .. SCALE
        BY <1>1, FeeFraction
    <2> QED
        BY <2>1, ValidatorsAssumption, SMT
<1>4. fee \in Nat /\ emission - fee \in Nat /\ (emission - fee) + fee = emission
    <2>1. fee \in Nat /\ fee <= emission
        BY <1>3, MulFacts
    <2> HIDE DEF fee
    <2> QED
        BY <2>1, SMT
<1>5. q = WithStakeFor(p, emission - fee, fee)
    BY DEF ApplyEmission
<1>6. PoolAfter(i, emission, reward) = IF reward = 0 THEN q ELSE WithStakeFor(q, 0, reward)
    BY DEF PoolAfter, ApplyReward
<1> HIDE DEF p, q, fee
<1>7. Grown(p, q, emission)
    BY <1>2, <1>4, <1>5, GrowOne
<1>8. q \in PoolType
    BY <1>7 DEF Grown
<1>9. CASE reward = 0
    <2>1. emission + reward = emission
        BY <1>9, SMT
    <2> QED
        BY <1>6, <1>7, <1>9, <2>1 DEF p
<1>10. CASE reward # 0
    <2>1. Grown(q, WithStakeFor(q, 0, reward), 0 + reward) /\ 0 + reward = reward
        BY <1>8, GrowOne, SMT
    <2>2. Grown(p, WithStakeFor(q, 0, reward), emission + reward)
        BY <1>2, <1>7, <2>1, GrowTwo
    <2> QED
        BY <1>6, <1>10, <2>2 DEF p
<1> QED
    BY <1>9, <1>10

\* what an end of epoch with the statistics stats computes
Eff(stats) == [i \in Members |-> EffectiveStake(stats[i], i)]
Shared(stats) == RewardPerEffectiveStake(SumFunctionOnSet(Eff(stats), Members))
Emission(stats) == [i \in Members |-> Mul(Eff(stats)[i], EmissionPerStaked)]
Reward(stats) == [i \in Members |-> proposer_rewards[i] + Mul(Eff(stats)[i], Shared(stats))]
Paid == {validator_set[i].address : i \in Members}

\* statistics that count for the current set
StatsTyped(stats) == \A i \in Members : stats[i][1] \in Nat /\ stats[i][2] \in Nat

\* The reliability of a member is a fraction.
LEMMA ReliabilityFraction ==
    ASSUME NEW s, s[1] \in Nat, s[2] \in Nat
    PROVE  ReliabilityFactor(SuccessRatio(s)) \in Nat /\ ReliabilityFactor(SuccessRatio(s)) <= SCALE
<1> DEFINE r == SuccessRatio(s)
           reserve == r - min_validator_reliability
           allowed == SCALE - min_validator_reliability
<1> SUFFICES ReliabilityFactor(r) \in Nat /\ ReliabilityFactor(r) <= SCALE
    OBVIOUS
<1>1. /\ SCALE \in Nat \ {0} /\ min_validator_reliability \in Nat /\ min_validator_reliability <= SCALE
      /\ allowed \in Nat
    BY ValidatorsAssumption, ConsensusManagerAssumption, SMT
<1>2. r \in Nat /\ r <= SCALE
    <2>1. CASE s[1] + s[2] = 0
        BY <1>1, <2>1, SMT DEF SuccessRatio
    <2>2. CASE s[1] + s[2] # 0
        <3> DEFINE n == s[1] + s[2]
        <3>1. n \in Nat \ {0} /\ s[1] <= n
            BY <2>2, SMT
        <3> HIDE DEF n
        <3>2. Div(s[1], n) \in Nat /\ Div(s[1], n) <= SCALE
            BY <3>1, DivFacts
        <3> QED
            BY <2>2, <3>2 DEF SuccessRatio, n
    <2> QED
        BY <2>1, <2>2
<1> HIDE DEF r
<1>3. ReliabilityFactor(r) = IF reserve < 0 THEN 0
                             ELSE IF allowed = 0 THEN (IF r = SCALE THEN SCALE ELSE 0)
                             ELSE Div(reserve, allowed)
    BY DEF ReliabilityFactor
<1>4. CASE reserve < 0
    BY <1>1, <1>3, <1>4, SMT
<1>5. CASE ~(reserve < 0) /\ allowed = 0
    BY <1>1, <1>3, <1>5, SMT
<1>6. CASE ~(reserve < 0) /\ allowed # 0
    <2>1. reserve \in Nat /\ allowed \in Nat \ {0} /\ reserve <= allowed
        BY <1>1, <1>2, <1>6, SMT
    <2> HIDE DEF reserve, allowed
    <2>2. Div(reserve, allowed) \in Nat /\ Div(reserve, allowed) <= SCALE
        BY <2>1, DivFacts
    <2> QED
        BY <1>3, <1>6, <2>2
<1> QED
    BY <1>4, <1>5, <1>6

\* Effective stakes do not exceed the stakes.
LEMMA EffFacts ==
    ASSUME SetTyped, NEW stats, StatsTyped(stats)
    PROVE  /\ IsFiniteSet(Members)
           /\ \A i \in Members : Eff(stats)[i] \in Nat /\ Eff(stats)[i] <= validator_set[i].stake
           /\ SumFunctionOnSet(Eff(stats), Members) \in Nat
<1>1. Members \in SUBSET Indices
    BY DEF SetTyped
<1>2. IsFiniteSet(Members)
    BY <1>1, IndicesFinite, FS_Subset
<1>3. ASSUME NEW i \in Members
      PROVE  Eff(stats)[i] \in Nat /\ Eff(stats)[i] <= validator_set[i].stake
    <2> DEFINE f == ReliabilityFactor(SuccessRatio(stats[i]))
    <2>1. f \in Nat /\ f <= SCALE
        BY ReliabilityFraction DEF StatsTyped
    <2>2. validator_set[i].stake \in Nat
        BY SMT DEF SetTyped
    <2>3. Eff(stats)[i] = Mul(validator_set[i].stake, f)
        BY DEF Eff, EffectiveStake
    <2> HIDE DEF f
    <2>4. Mul(validator_set[i].stake, f) \in Nat /\ Mul(validator_set[i].stake, f) <= validator_set[i].stake
        BY <2>1, <2>2, MulFacts
    <2> QED
        BY <2>3, <2>4
<1>4. SumFunctionOnSet(Eff(stats), Members) \in Nat
    BY <1>2, <1>3, SumNat
<1> QED
    BY <1>2, <1>3, <1>4

\* All that is emitted is at most the emission of an epoch.
LEMMA EmissionFacts ==
    ASSUME SetTyped, NEW stats, StatsTyped(stats)
    PROVE  /\ \A i \in Members : Emission(stats)[i] \in Nat
           /\ SumFunctionOnSet(Emission(stats), Members) \in Nat
           /\ SumFunctionOnSet(Emission(stats), Members) <= total_emission_xrd_per_epoch
<1> DEFINE M == Members
           T == total_emission_xrd_per_epoch
           g == [i \in M |-> validator_set[i].stake]
           e == Emission(stats)
           per == EmissionPerStaked
<1>1. /\ IsFiniteSet(M) /\ \A i \in M : Eff(stats)[i] \in Nat /\ Eff(stats)[i] <= g[i]
      /\ T \in Nat /\ SCALE \in Nat \ {0}
    BY EffFacts, ConsensusManagerAssumption, ValidatorsAssumption
<1>2. \A i \in M : g[i] \in Nat \ {0}
    BY DEF SetTyped
<1>3. per = IF M = {} THEN 0 ELSE Div(T, SumFunctionOnSet(g, M))
    BY DEF EmissionPerStaked
<1>4. \A i \in M : e[i] = Mul(Eff(stats)[i], per)
    BY DEF Emission
<1> HIDE DEF M, g, e, per
<1>5. CASE M = {}
    <2>1. SumFunctionOnSet(e, M) = 0
        BY <1>5, SumEmpty
    <2>2. SumFunctionOnSet(e, M) \in Nat /\ SumFunctionOnSet(e, M) <= T
        BY <1>1, <2>1, SMT
    <2> QED
        BY <1>5, <2>2 DEF M, e
<1>6. CASE M # {}
    <2> DEFINE total == SumFunctionOnSet(g, M)
    <2>1. total \in Nat /\ \A i \in M : g[i] <= total
        <3>1. \A i \in M : g[i] \in Nat
            BY <1>2, SMT
        <3> QED
            BY <1>1, <3>1, SumNat
    <2>2. PICK j \in M : TRUE
        BY <1>6
    <2>3. g[j] \in Nat \ {0} /\ g[j] <= total
        BY <1>2, <2>1, <2>2
    <2> HIDE DEF total
    <2>4. total \in Nat \ {0}
        BY <2>1, <2>3, SMT
    <2>5. per \in Nat /\ per * total <= T * SCALE
        BY <1>1, <1>3, <1>6, <2>4, DivFacts DEF total
    <2>6. ASSUME NEW i \in M
          PROVE  e[i] \in Nat /\ g[i] \in Nat /\ e[i] * SCALE <= g[i] * per
        <3>1. e[i] \in Nat /\ e[i] * SCALE <= Eff(stats)[i] * per
            <4>1. Eff(stats)[i] \in Nat /\ per \in Nat /\ e[i] = Mul(Eff(stats)[i], per)
                BY <1>1, <1>4, <2>5
            <4> QED
                BY <4>1, MulFacts
        <3>2. Eff(stats)[i] * per <= g[i] * per /\ g[i] \in Nat
            BY <1>1, <1>2, <2>5, MulMono, SMT
        <3>3. e[i] * SCALE \in Nat /\ Eff(stats)[i] * per \in Nat /\ g[i] * per \in Nat
            BY <1>1, <2>5, <3>1, <3>2, SMT
        <3> QED
            BY <3>1, <3>2, <3>3, SMT
    <2>7. IsScaled(e, SCALE, g, per, M)
        BY <2>6 DEF IsScaled
    <2>8. SumFunctionOnSet(e, M) * SCALE <= total * per
        BY <1>1, <2>5, <2>7, SumScale DEF total
    <2>9. SumFunctionOnSet(e, M) \in Nat
        BY <1>1, <2>6, SumNat
    <2>10. SumFunctionOnSet(e, M) * SCALE <= T * SCALE
        <3> DEFINE x == SumFunctionOnSet(e, M) * SCALE
                   y == T * SCALE
                   z == per * total
        <3>1. x \in Int /\ y \in Int /\ z \in Int /\ total * per = z
            BY <1>1, <2>1, <2>5, <2>9, SMT
        <3>2. x <= z /\ z <= y
            BY <2>5, <2>8, <3>1
        <3> HIDE DEF x, y, z
        <3>3. x <= y
            BY <3>1, <3>2, SMT
        <3> QED
            BY <3>3 DEF x, y
    <2>11. SumFunctionOnSet(e, M) <= T
        BY <1>1, <2>9, <2>10, MulCancel
    <2> QED
        BY <2>6, <2>9, <2>11 DEF M, e
<1> QED
    BY <1>5, <1>6

\* All that is paid as rewards is in the vault.
LEMMA RewardFacts ==
    ASSUME SetTyped, RewardsBacked, rewards_vault \in Nat, NEW stats, StatsTyped(stats)
    PROVE  /\ \A i \in Members : Reward(stats)[i] \in Nat
           /\ SumFunctionOnSet(Reward(stats), Members) \in Nat
           /\ SumFunctionOnSet(Reward(stats), Members) <= rewards_vault
<1> DEFINE M == Members
           f == proposer_rewards
           e == Eff(stats)
           E == SumFunctionOnSet(e, M)
           per == Shared(stats)
           h == [i \in M |-> Mul(e[i], per)]
           w == Reward(stats)
           P == SumFunctionOnSet(f, M)
<1>1. IsFiniteSet(M) /\ (\A i \in M : e[i] \in Nat) /\ E \in Nat
    BY EffFacts
<1>2. f \in [Indices -> Nat] /\ M \in SUBSET Indices
    BY DEF SetTyped
<1>3. SCALE \in Nat \ {0}
    BY ValidatorsAssumption
<1>4. per = IF E = 0 THEN 0 ELSE Div(rewards_vault - P, E)
    BY DEF Shared, RewardPerEffectiveStake
<1>5. \A i \in M : w[i] = f[i] + h[i] /\ h[i] = Mul(e[i], per)
    BY DEF Reward
<1>6. SumFunctionOnSet(f, Indices) <= rewards_vault
    BY DEF RewardsBacked
<1> HIDE DEF M, f, e, per, h, w, E, P
<1>7. P \in Nat /\ P <= rewards_vault
    <2>1. IsFiniteSet(Indices) /\ IsFiniteSet(Indices \ M)
        BY IndicesFinite, FS_Difference
    <2>2. /\ SumFunctionOnSet(f, Indices) \in Nat /\ SumFunctionOnSet(f, Indices \ M) \in Nat
          /\ P \in Nat
        BY <1>1, <1>2, <2>1, SumNat DEF P
    <2>3. \A i \in Indices : f[i] \in Int
        BY <1>2, SMT
    <2>4. SumFunctionOnSet(f, Indices) = P + SumFunctionOnSet(f, Indices \ M)
        BY <1>2, <2>1, <2>3, SumUnion DEF P
    <2> QED
        BY <1>6, <2>2, <2>4, SMT
<1>8. per \in Nat /\ E * per <= (rewards_vault - P) * SCALE
    <2> DEFINE rest == rewards_vault - P
    <2>1. rest \in Nat
        BY <1>7, SMT
    <2> HIDE DEF rest
    <2>2. CASE E = 0
        <3>1. per = 0
            BY <1>4, <2>2
        <3>2. per \in Nat /\ E * per <= rest * SCALE
            BY <1>3, <2>1, <2>2, <3>1, SMT
        <3> QED
            BY <3>2 DEF rest
    <2>3. CASE E # 0
        <3>1. per = Div(rest, E) /\ E \in Nat \ {0}
            BY <1>1, <1>4, <2>3 DEF rest
        <3>2. per \in Nat /\ per * E <= rest * SCALE
            BY <2>1, <3>1, DivFacts
        <3>3. per * E = E * per
            BY <1>1, <3>2, SMT
        <3> QED
            BY <3>2, <3>3 DEF rest
    <2> QED
        BY <2>2, <2>3
<1>9. \A i \in M : h[i] \in Nat /\ h[i] * SCALE <= e[i] * per
    <2> SUFFICES ASSUME NEW i \in M
                 PROVE  h[i] \in Nat /\ h[i] * SCALE <= e[i] * per
        OBVIOUS
    <2>1. e[i] \in Nat /\ per \in Nat /\ h[i] = Mul(e[i], per)
        BY <1>1, <1>5, <1>8
    <2> QED
        BY <2>1, MulFacts
<1>10. SumFunctionOnSet(h, M) \in Nat
    BY <1>1, <1>9, SumNat
<1>11. SumFunctionOnSet(h, M) <= rewards_vault - P
    <2>1. IsScaled(h, SCALE, e, per, M)
        BY <1>1, <1>9 DEF IsScaled
    <2>2. SumFunctionOnSet(h, M) * SCALE <= E * per
        <3>1. SCALE \in Nat
            BY <1>3
        <3> QED
            BY <1>1, <1>8, <2>1, <3>1, SumScale DEF E
    <2> DEFINE rest == rewards_vault - P
               x == SumFunctionOnSet(h, M) * SCALE
               y == rest * SCALE
               z == E * per
    <2>3. rest \in Nat
        BY <1>7, SMT
    <2>4. x <= z /\ z <= y
        BY <1>8, <2>2
    <2>5. x \in Int /\ y \in Int /\ z \in Int
        BY <1>1, <1>3, <1>8, <1>10, <2>3, SMT
    <2> HIDE DEF rest, x, y, z
    <2>6. x <= y
        BY <2>4, <2>5, SMT
    <2>7. SumFunctionOnSet(h, M) <= rest
        BY <1>3, <1>10, <2>3, <2>6, MulCancel DEF x, y
    <2> QED
        BY <2>7 DEF rest
<1>12. \A i \in M : f[i] \in Nat
    BY <1>2
<1>13. SumFunctionOnSet(w, M) = P + SumFunctionOnSet(h, M)
    <2>1. \A i \in M : f[i] \in Int /\ h[i] \in Int
        BY <1>9, <1>12, SMT
    <2>2. IsSum(w, f, h, M)
        BY <1>5, <2>1 DEF IsSum
    <2> QED
        BY <1>1, <2>2, SumPlus DEF P
<1>14. \A i \in M : w[i] \in Nat
    BY <1>5, <1>9, <1>12, SMT
<1>15. SumFunctionOnSet(w, M) \in Nat /\ SumFunctionOnSet(w, M) <= rewards_vault
    BY <1>7, <1>10, <1>11, <1>13, SMT
<1> QED
    BY <1>14, <1>15 DEF M, w

\* the pool of validator v after a step
NewPool(v) == [stake |-> stake'[v], unit_supply |-> unit_supply'[v], locked |-> locked_units'[v]]

\* What an end of epoch does to the pools.
PoolsGrow(stats) ==
    /\ \A v \in Validator \ Paid : /\ stake'[v] = stake[v] /\ unit_supply'[v] = unit_supply[v]
                                   /\ locked_units'[v] = locked_units[v]
    /\ \A i \in Members :
         Grown(Pool(validator_set[i].address), NewPool(validator_set[i].address),
               Emission(stats)[i] + Reward(stats)[i])

\* An end of epoch grows the pools of the members by what it emits and rewards.
LEMMA EpochGrows ==
    ASSUME IInv, NEW stats, StatsTyped(stats), EpochChange(stats)
    PROVE  /\ PoolsGrow(stats)
           /\ stake' = [v \in Validator |-> stake'[v]]
           /\ unit_supply' = [v \in Validator |-> unit_supply'[v]]
           /\ locked_units' = [v \in Validator |-> locked_units'[v]]
<1> DEFINE A(i) == validator_set[i].address
           Q(i) == PoolAfter(i, Emission(stats)[i], Reward(stats)[i])
           after == [v \in Paid |-> Q(CHOOSE m \in Members : A(m) = v)]
<1>1. /\ stake' = [v \in Validator |-> IF v \in Paid THEN after[v].stake ELSE stake[v]]
      /\ unit_supply' =
           [v \in Validator |-> IF v \in Paid THEN after[v].unit_supply ELSE unit_supply[v]]
      /\ locked_units' =
           [v \in Validator |-> IF v \in Paid THEN after[v].locked ELSE locked_units[v]]
    <2> DEFINE C(v) == CHOOSE m \in Members : A(m) = v
               R(i) == PoolAfter(i, Mul(Eff(stats)[i], EmissionPerStaked), Reward(stats)[i])
               raw == [v \in Paid |-> R(C(v))]
    <2>1. /\ stake' = [v \in Validator |-> IF v \in Paid THEN raw[v].stake ELSE stake[v]]
          /\ unit_supply' =
               [v \in Validator |-> IF v \in Paid THEN raw[v].unit_supply ELSE unit_supply[v]]
          /\ locked_units' =
               [v \in Validator |-> IF v \in Paid THEN raw[v].locked ELSE locked_units[v]]
        BY DEF EpochChange, Eff, Reward, Shared, Paid
    <2>2. ASSUME NEW v \in Paid
          PROVE  R(C(v)) = Q(C(v))
        <3>1. C(v) \in Members
            BY DEF Paid
        <3> HIDE DEF C
        <3>2. Emission(stats)[C(v)] = Mul(Eff(stats)[C(v)], EmissionPerStaked)
            BY <3>1 DEF Emission
        <3> QED
            BY <3>2
    <2>3. after = raw
        <3> HIDE DEF Q, R
        <3> QED
            BY <2>2
    <2> HIDE DEF after, raw
    <2> QED
        BY <2>1, <2>3
<1>2. ASSUME NEW i \in Members
      PROVE  Grown(Pool(A(i)), NewPool(A(i)), Emission(stats)[i] + Reward(stats)[i])
    <2>1. A(i) \in Paid /\ A(i) \in Validator
        BY DEF IInv, SetTyped, Paid
    <2>2. (CHOOSE m \in Members : A(m) = A(i)) = i
        BY DEF IInv, SetTyped
    <2>3. after[A(i)] = Q(i)
        BY <2>1, <2>2
    <2>4. Emission(stats)[i] \in Nat /\ Reward(stats)[i] \in Nat
        BY EmissionFacts, RewardFacts DEF IInv, AmountsTyped
    <2> DEFINE q == Q(i)
               g == Emission(stats)[i] + Reward(stats)[i]
               p == Pool(A(i))
    <2>5. Grown(p, q, g)
        BY <2>4, PoolGrown DEF IInv
    <2>6. stake'[A(i)] = q.stake /\ unit_supply'[A(i)] = q.unit_supply /\ locked_units'[A(i)] = q.locked
        <3> HIDE DEF after
        <3> QED
            BY <1>1, <2>1, <2>3
    <2>7. NewPool(A(i)) = [stake |-> q.stake, unit_supply |-> q.unit_supply, locked |-> q.locked]
        BY <2>6 DEF NewPool
    <2> HIDE DEF q, g, p, A
    <2>8. q \in PoolType
        BY <2>5 DEF Grown
    <2>9. q = [stake |-> q.stake, unit_supply |-> q.unit_supply, locked |-> q.locked]
        BY <2>8, SMT DEF PoolType
    <2>10. Grown(p, NewPool(A(i)), g)
        BY <2>5, <2>7, <2>9
    <2> QED
        BY <2>10 DEF p, g
<1>3. ASSUME NEW v \in Validator \ Paid
      PROVE  stake'[v] = stake[v] /\ unit_supply'[v] = unit_supply[v] /\ locked_units'[v] = locked_units[v]
    <2> HIDE DEF after
    <2> QED
        BY <1>1
<1>4. /\ stake' = [v \in Validator |-> stake'[v]]
      /\ unit_supply' = [v \in Validator |-> unit_supply'[v]]
      /\ locked_units' = [v \in Validator |-> locked_units'[v]]
    <2> HIDE DEF after
    <2> QED
        BY <1>1
<1> QED
    BY <1>2, <1>3, <1>4 DEF PoolsGrow

\* The members of the next set are different validators with stake.
LEMMA NextSetTyped ==
    ASSUME NEW ix, WellIndexed(ix), network \in Networks
    PROVE  LET set == NextValidatorSet(ix)
           IN /\ DOMAIN set \subseteq Indices
              /\ \A i \in DOMAIN set : set[i].address \in Validator /\ set[i].stake \in Nat \ {0}
              /\ \A i, j \in DOMAIN set : set[i].address = set[j].address => i = j
<1> DEFINE set == NextValidatorSet(ix)
           S == Scanned(ix)
           D == 1 .. SetSize(ix)
           n == Cardinality(S)
<1>1. DOMAIN set = D
    BY NextSet
<1>2. D \subseteq Indices
    <2> DEFINE m == SetSize(ix)
               c == Cardinality(Validator)
    <2>1. m \in Nat /\ m <= n /\ n \in Nat /\ n <= c /\ c \in Nat
        BY NextSet, ScannedFinite
    <2> HIDE DEF m, n, c
    <2>2. 1 .. m \subseteq 1 .. c
        BY <2>1, SMT
    <2> QED
        BY <2>2 DEF Indices, m, c
<1>3. ASSUME NEW i \in D
      PROVE  \E k \in DOMAIN ix : /\ Place(ix, k) = i /\ set[i].address = k[2]
                                  /\ set[i].stake = ix[k].stake
    <2>1. S \subseteq DOMAIN ix
        BY ScannedFinite
    <2>2. \E k \in S : Place(ix, k) = i /\ Describes(ix, k, set[i])
        BY NextMember
    <2> HIDE DEF set, D, S
    <2> QED
        BY <2>1, <2>2 DEF Describes
<1>4. \A k \in DOMAIN ix : k[2] \in Validator /\ ix[k].stake \in Nat \ {0}
    BY SMT DEF WellIndexed
<1>5. \A k, l \in DOMAIN ix : k[2] = l[2] => k = l
    BY DEF WellIndexed
<1> HIDE DEF set
<1>6. \A i \in D : set[i].address \in Validator /\ set[i].stake \in Nat \ {0}
    BY <1>3, <1>4
<1>7. ASSUME NEW i \in D, NEW j \in D, set[i].address = set[j].address
      PROVE  i = j
    <2>1. PICK k \in DOMAIN ix : Place(ix, k) = i /\ set[i].address = k[2]
        BY <1>3
    <2>2. PICK l \in DOMAIN ix : Place(ix, l) = j /\ set[j].address = l[2]
        BY <1>3
    <2>3. k = l
        BY <1>5, <1>7, <2>1, <2>2
    <2> QED
        BY <2>1, <2>2, <2>3
<1> QED
    BY <1>1, <1>2, <1>6, <1>7 DEF set

\* The end of an epoch.
LEMMA EpochInv ==
    ASSUME IInv, NEW stats, StatsTyped(stats), EpochChange(stats), network' = network
    PROVE  IInv'
<1>1. /\ epoch' = epoch + 1 /\ round' = 0
      /\ rewards_vault' = rewards_vault - SumFunctionOnSet(Reward(stats), Members)
      /\ proposer_rewards' = [i \in Indices |-> IF Paid = {} THEN proposer_rewards[i] ELSE 0]
      /\ IndexUpdate(Paid, registered, stake')
      /\ validator_set' = NextValidatorSet(index')
      /\ statistics' = [i \in DOMAIN validator_set' |-> <<0, 0>>]
    BY DEF EpochChange, Eff, Reward, Shared, Paid
<1>2. UNCHANGED <<wallet, units, pending_xrd, claims, pending_units, withdrawals,
                  already_unlocked, fees, registered, key>>
    BY DEF EpochChange
<1>3. PoolsGrow(stats)
    BY EpochGrows
<1>4. ASSUME NEW v \in Validator
      PROVE  /\ stake'[v] \in Nat /\ unit_supply'[v] \in Nat /\ locked_units'[v] \in Nat
             /\ unit_supply'[v] - locked_units'[v] = unit_supply[v] - locked_units[v]
    <2>1. stake[v] \in Nat /\ unit_supply[v] \in Nat /\ locked_units[v] \in Nat
        BY DEF IInv, AmountsTyped
    <2>2. CASE v \notin Paid
        BY <1>3, <2>1, <2>2 DEF PoolsGrow
    <2>3. CASE v \in Paid
        <3>1. PICK i \in Members : v = validator_set[i].address
            BY <2>3 DEF Paid
        <3> DEFINE q == NewPool(v)
                   p == Pool(v)
        <3>2. /\ q \in PoolType
              /\ q.unit_supply - p.unit_supply = q.locked - p.locked
            BY <1>3, <3>1 DEF PoolsGrow, Grown
        <3>3. /\ q.stake = stake'[v] /\ q.unit_supply = unit_supply'[v] /\ q.locked = locked_units'[v]
              /\ p.unit_supply = unit_supply[v] /\ p.locked = locked_units[v]
            BY SMT DEF NewPool, Pool
        <3> HIDE DEF q, p
        <3>4. q.stake \in Nat /\ q.unit_supply \in Nat /\ q.locked \in Nat
            BY <3>2, SMT DEF PoolType
        <3> QED
            BY <2>1, <3>2, <3>3, <3>4, SMT
    <2> QED
        BY <2>2, <2>3
<1>5. AmountsTyped'
    <2>1. epoch + 1 \in Nat
        BY SMT DEF IInv, AmountsTyped
    <2>2. rewards_vault - SumFunctionOnSet(Reward(stats), Members) \in Nat
        <3>1. /\ SumFunctionOnSet(Reward(stats), Members) \in Nat
              /\ SumFunctionOnSet(Reward(stats), Members) <= rewards_vault
              /\ rewards_vault \in Nat
            BY RewardFacts DEF IInv, AmountsTyped
        <3> QED
            BY <3>1, SMT
    <2>3. /\ stake' \in [Validator -> Nat] /\ unit_supply' \in [Validator -> Nat]
          /\ locked_units' \in [Validator -> Nat]
        BY <1>4, EpochGrows
    <2> QED
        BY <1>1, <1>2, <2>1, <2>2, <2>3 DEF IInv, AmountsTyped
<1>6. UnitsBacked'
    <2> SUFFICES ASSUME NEW v \in Validator
                 PROVE  unit_supply'[v] = units'[v] + locked_units'[v] + pending_units'[v]
        BY DEF UnitsBacked
    <2>1. /\ unit_supply[v] = units[v] + locked_units[v] + pending_units[v]
          /\ unit_supply[v] \in Nat /\ units[v] \in Nat /\ locked_units[v] \in Nat
          /\ pending_units[v] \in Nat
        BY DEF IInv, AmountsTyped, UnitsBacked
    <2>2. units'[v] = units[v] /\ pending_units'[v] = pending_units[v]
        BY <1>2
    <2>3. /\ unit_supply'[v] \in Nat /\ locked_units'[v] \in Nat
          /\ unit_supply'[v] - locked_units'[v] = unit_supply[v] - locked_units[v]
        BY <1>4
    <2> QED
        BY <2>1, <2>2, <2>3, SMT
<1>7. IndexIsExact'
    <2>1. \A u \in Validator \ Paid : stake'[u] = stake[u] /\ registered'[u] = registered[u]
        BY <1>2, <1>3 DEF PoolsGrow
    <2>2. /\ stake \in [Validator -> Nat] /\ stake' \in [Validator -> Nat]
          /\ registered \in [Validator -> BOOLEAN] /\ registered' \in [Validator -> BOOLEAN]
        BY <1>2, <1>5 DEF IInv, AmountsTyped, ListingTyped
    <2>3. IndexUpdate(Paid, registered', stake') /\ key' = key /\ Paid \in SUBSET Validator
        BY <1>1, <1>2 DEF Paid, IInv, SetTyped
    <2> QED
        BY <2>1, <2>2, <2>3, IndexStep DEF IInv
<1>8. WellIndexed(index')
    <2>1. (stake \in [Validator -> Nat] /\ IndexIsExact => WellIndexed(index))'
        BY ExactIsWellIndexed, PTL
    <2> QED
        BY <1>5, <1>7, <2>1 DEF AmountsTyped
<1>9. SetTyped'
    <2> DEFINE set == NextValidatorSet(index')
    <2>1. network \in Networks /\ proposer_rewards \in [Indices -> Nat]
        BY DEF IInv, SetTyped
    <2>2. /\ DOMAIN set \subseteq Indices
          /\ \A i \in DOMAIN set : set[i].address \in Validator /\ set[i].stake \in Nat \ {0}
          /\ \A i, j \in DOMAIN set : set[i].address = set[j].address => i = j
        BY <1>8, <2>1, NextSetTyped
    <2> HIDE DEF set
    <2>3. validator_set' = set
        BY <1>1 DEF set
    <2>4. \A i \in DOMAIN set : statistics'[i][1] \in Nat /\ statistics'[i][2] \in Nat
        BY <1>1, <2>3, SMT
    <2>5. proposer_rewards' \in [Indices -> Nat]
        BY <1>1, <2>1, SMT
    <2>6. round' \in Nat
        BY <1>1, SMT
    <2> QED
        BY <2>1, <2>2, <2>3, <2>4, <2>5, <2>6 DEF SetTyped, Members
<1>10. RoundsAreAccounted'
    <2> DEFINE M == DOMAIN validator_set'
               f == [i \in M |-> statistics'[i][1] + statistics'[i][2]]
    <2>1. \A i \in M : f[i] = 0
        BY <1>1, SMT
    <2>2. IsFiniteSet(M)
        <3>1. M \in SUBSET Indices
            BY <1>9 DEF SetTyped, Members
        <3> QED
            BY <3>1, IndicesFinite, FS_Subset
    <2>3. SumFunctionOnSet(f, M) = 0
        <3> HIDE DEF f, M
        <3> QED
            BY <2>1, <2>2, SumZero
    <2>4. DOMAIN statistics' = M
        BY <1>1
    <2> QED
        BY <1>1, <2>3, <2>4 DEF RoundsAreAccounted, Members
<1>11. RewardsBacked'
    <2> DEFINE g == proposer_rewards'
    <2>1. rewards_vault' \in Nat
        BY <1>5 DEF AmountsTyped
    <2>2. CASE Paid = {}
        <3>1. Members = {}
            BY <2>2 DEF Paid
        <3>2. SumFunctionOnSet(Reward(stats), Members) = 0
            BY <3>1, SumEmpty
        <3>3. rewards_vault' = rewards_vault
            BY <1>1, <3>2, SMT DEF IInv, AmountsTyped
        <3>4. g = proposer_rewards
            BY <1>1, <2>2 DEF IInv, SetTyped
        <3> QED
            BY <3>3, <3>4 DEF IInv, RewardsBacked, g
    <2>3. CASE Paid # {}
        <3>1. \A i \in Indices : g[i] = 0
            BY <1>1, <2>3
        <3> HIDE DEF g
        <3>2. SumFunctionOnSet(g, Indices) = 0
            BY <3>1, IndicesFinite, SumZero
        <3>3. SumFunctionOnSet(g, Indices) <= rewards_vault'
            BY <2>1, <3>2, SMT
        <3> QED
            BY <3>3 DEF RewardsBacked, g
    <2> QED
        BY <2>2, <2>3
<1>12. ListingTyped' /\ PromisesTyped' /\ FeesTyped'
    BY <1>2 DEF IInv, ListingTyped, PromisesTyped, FeesTyped, fees
<1>13. ClaimsBacked' /\ UnlocksBacked'
    BY <1>2, Same DEF IInv
<1> QED
    BY <1>5, <1>6, <1>7, <1>9, <1>10, <1>11, <1>12, <1>13 DEF IInv

\* the leaders of the rounds that were skipped are members
GapsTyped(gaps) == IsFiniteSet(DOMAIN gaps) /\ \A g \in DOMAIN gaps : gaps[g] \in Members

\* the rounds on the record of the members
Recorded(stats) == SumFunctionOnSet([i \in Members |-> stats[i][1] + stats[i][2]], Members)

\* Statistics that a round leaves count for the members, and one round more for each
\* round that it ends.
LEMMA StatisticsFacts ==
    ASSUME IInv, NEW gaps, GapsTyped(gaps), NEW leader \in Members, NEW is_fallback \in BOOLEAN,
           NEW stats, stats = UpdatedStatistics(gaps, leader, is_fallback)
    PROVE  /\ DOMAIN stats = Members /\ StatsTyped(stats)
           /\ Recorded(stats) = round + Cardinality(DOMAIN gaps) + 1
<1> DEFINE M == Members
           D == DOMAIN gaps
           missed == [i \in M |-> Cardinality({g \in D : gaps[g] = i})]
           one == [i \in M |-> IF i = leader THEN 1 ELSE 0]
           old == [i \in M |-> statistics[i][1] + statistics[i][2]]
           new == [i \in M |-> stats[i][1] + stats[i][2]]
           led == [i \in M |-> old[i] + one[i]]
<1>1. IsFiniteSet(M)
    <2>1. M \in SUBSET Indices
        BY DEF IInv, SetTyped
    <2> QED
        BY <2>1, IndicesFinite, FS_Subset
<1>2. DOMAIN statistics = M /\ SumFunctionOnSet(old, M) = round
    BY DEF IInv, RoundsAreAccounted, Members
<1> USE DEF GapsTyped
<1>3. \A i \in M : missed[i] \in Nat
    <2> SUFFICES ASSUME NEW i \in M PROVE Cardinality({g \in D : gaps[g] = i}) \in Nat
        OBVIOUS
    <2>1. {g \in D : gaps[g] = i} \in SUBSET D
        OBVIOUS
    <2> QED
        BY <2>1, FS_Subset, FS_CardinalityType
<1>4. \A i \in M : statistics[i][1] \in Nat /\ statistics[i][2] \in Nat
    BY DEF IInv, SetTyped
<1>5. ASSUME NEW i \in M
      PROVE  /\ stats[i][1] \in Nat /\ stats[i][2] \in Nat
             /\ stats[i][1] + stats[i][2] = old[i] + one[i] + missed[i]
             /\ old[i] \in Int /\ one[i] \in Int
    <2> DEFINE fell == IF i = leader /\ is_fallback THEN 1 ELSE 0
               made == IF i = leader /\ ~is_fallback THEN 1 ELSE 0
    <2>1. stats[i] = <<statistics[i][1] + made, statistics[i][2] + missed[i] + fell>>
        BY <1>2 DEF UpdatedStatistics
    <2>2. made \in Nat /\ fell \in Nat /\ made + fell = one[i] /\ one[i] \in Int
        BY SMT
    <2>3. old[i] = statistics[i][1] + statistics[i][2]
        OBVIOUS
    <2>4. missed[i] \in Nat /\ statistics[i][1] \in Nat /\ statistics[i][2] \in Nat
        BY <1>3, <1>4
    <2> HIDE DEF fell, made, one, missed, old
    <2> QED
        BY <2>1, <2>2, <2>3, <2>4, SMT
<1>6. SumFunctionOnSet(missed, M) = Cardinality(D)
    BY <1>1, SumCount
<1>7. SumFunctionOnSet(one, M) = 1
    <2> DEFINE zero == [i \in M |-> 0]
    <2>1. \A i \in M : zero[i] = 0
        OBVIOUS
    <2>2. \A i \in M : zero[i] \in Int /\ one[i] \in Int
        BY SMT
    <2>3. \A i \in M \ {leader} : one[i] = zero[i]
        OBVIOUS
    <2>4. one[leader] = 1 /\ zero[leader] = 0 /\ leader \in M
        OBVIOUS
    <2> HIDE DEF zero, one, M
    <2>5. SumFunctionOnSet(zero, M) = 0
        BY <1>1, <2>1, SumZero
    <2>6. SumFunctionOnSet(one, M) = SumFunctionOnSet(zero, M) + (one[leader] - zero[leader])
        <3>1. leader \in M /\ IsFiniteSet(M)
            BY <1>1, <2>4
        <3> QED
            BY <2>2, <2>3, <3>1, SumUpdate, SMT
    <2> QED
        BY <2>4, <2>5, <2>6, SMT
<1>8. IsSum(led, old, one, M)
    BY <1>5 DEF IsSum
<1>9. IsSum(new, led, missed, M)
    <2> SUFFICES ASSUME NEW i \in M
                 PROVE  led[i] \in Int /\ missed[i] \in Int /\ new[i] = led[i] + missed[i]
        BY DEF IsSum
    <2>1. led[i] = old[i] + one[i] /\ new[i] = stats[i][1] + stats[i][2]
        OBVIOUS
    <2>2. missed[i] \in Nat
        BY <1>3
    <2> HIDE DEF led, new, old, one, missed
    <2> QED
        BY <1>5, <2>1, <2>2, SMT
<1>10. DOMAIN stats = M
    BY <1>2 DEF UpdatedStatistics
<1>11. StatsTyped(stats)
    BY <1>5 DEF StatsTyped
<1> HIDE DEF led, new, old, one, missed, M
<1>12. SumFunctionOnSet(new, M) = (round + 1) + Cardinality(D)
    <2>1. SumFunctionOnSet(led, M) = SumFunctionOnSet(old, M) + SumFunctionOnSet(one, M)
        BY <1>1, <1>8, SumPlus
    <2>2. SumFunctionOnSet(new, M) = SumFunctionOnSet(led, M) + SumFunctionOnSet(missed, M)
        BY <1>1, <1>9, SumPlus
    <2> QED
        BY <1>2, <1>6, <1>7, <2>1, <2>2
<1>13. SumFunctionOnSet(new, M) = round + Cardinality(D) + 1
    <2>1. round \in Nat /\ Cardinality(D) \in Nat
        BY FS_CardinalityType DEF IInv, SetTyped
    <2> QED
        BY <1>12, <2>1, SMT
<1> QED
    BY <1>10, <1>11, <1>13 DEF new, M, Recorded

\* the end of a round
RoundCall ==
    \E r \in Nat, is_fallback \in BOOLEAN : \E t, leader, gaps :
        /\ gaps \in [1 .. r - round - 1 -> Members]
        /\ NextRound(r, t, gaps, leader, is_fallback)

\* a round ends and leaves stats, and the epoch goes on
RoundGoesOn(stats) ==
    /\ round' \in Nat /\ statistics' = stats
    /\ DOMAIN stats = Members /\ Recorded(stats) = round'
    /\ UNCHANGED <<epoch, staking, owners, fees, listing, validator_set, rewards>>

\* A round ends in the middle of an epoch or at its end, with statistics that count it.
LEMMA RoundEnds ==
    ASSUME IInv, RoundCall
    PROVE  /\ UNCHANGED network
           /\ \E stats : StatsTyped(stats) /\ (RoundGoesOn(stats) \/ EpochChange(stats))
<1>1. PICK r \in Nat, is_fallback \in BOOLEAN : \E t, leader, gaps :
          /\ gaps \in [1 .. r - round - 1 -> Members]
          /\ NextRound(r, t, gaps, leader, is_fallback)
    BY DEF RoundCall
<1>2. PICK t, leader, gaps :
          /\ gaps \in [1 .. r - round - 1 -> Members]
          /\ NextRound(r, t, gaps, leader, is_fallback)
    BY <1>1
<1> DEFINE stats == UpdatedStatistics(gaps, leader, is_fallback)
           n == r - round - 1
<1>3. r > round /\ leader \in DOMAIN statistics /\ UNCHANGED network
    BY <1>2 DEF NextRound
<1>4. DOMAIN statistics = Members
    BY DEF IInv, RoundsAreAccounted, Members
<1>5. n \in Nat /\ round \in Nat
    BY <1>3, SMT DEF IInv, SetTyped
<1>6. DOMAIN gaps = 1 .. n /\ \A g \in DOMAIN gaps : gaps[g] \in Members
    BY <1>2
<1> HIDE DEF n
<1>7. IsFiniteSet(1 .. n) /\ Cardinality(1 .. n) = n
    BY <1>5, FS_Interval, SMT
<1>8. /\ DOMAIN stats = Members /\ StatsTyped(stats)
      /\ Recorded(stats) = round + Cardinality(DOMAIN gaps) + 1
    <2>1. leader \in Members /\ GapsTyped(gaps)
        BY <1>3, <1>4, <1>6, <1>7 DEF GapsTyped
    <2> QED
        BY <2>1, StatisticsFacts
<1>9. round + Cardinality(DOMAIN gaps) + 1 = r
    BY <1>5, <1>6, <1>7, SMT DEF n
<1>10. \/ EpochChange(stats)
       \/ /\ round' = r /\ statistics' = stats
          /\ UNCHANGED <<epoch, staking, owners, fees, listing, effective_epoch_start_milli,
                         validator_set, rewards, calls>>
    BY <1>2 DEF NextRound
<1> HIDE DEF stats
<1>11. RoundGoesOn(stats) \/ EpochChange(stats)
    BY <1>8, <1>9, <1>10 DEF RoundGoesOn
<1> QED
    BY <1>3, <1>8, <1>11

\* The end of a round.
LEMMA RoundInv ==
    ASSUME IInv, RoundCall
    PROVE  IInv'
<1>1. PICK stats : StatsTyped(stats) /\ (RoundGoesOn(stats) \/ EpochChange(stats))
    BY RoundEnds
<1>2. UNCHANGED network
    BY RoundEnds
<1>3. CASE EpochChange(stats)
    BY <1>1, <1>2, <1>3, EpochInv
<1>4. CASE RoundGoesOn(stats)
    <2>1. UNCHANGED <<epoch, wallet, stake, unit_supply, units, pending_xrd, claims, locked_units,
                      pending_units, withdrawals, already_unlocked, registered, key, sorted_key,
                      index, proposer_rewards, rewards_vault, validator_set>>
        BY <1>4 DEF RoundGoesOn, staking, owners, listing, rewards
    <2>2. UNCHANGED <<fees, listing>>
        BY <1>4 DEF RoundGoesOn
    <2>3. SetTyped'
        BY <1>1, <1>2, <1>4, <2>1 DEF IInv, SetTyped, Members, StatsTyped, RoundGoesOn
    <2>4. RoundsAreAccounted'
        BY <1>4, <2>1 DEF RoundsAreAccounted, Members, Recorded, RoundGoesOn
    <2>5. AmountsTyped' /\ RewardsBacked'
        BY <2>1 DEF IInv, AmountsTyped, RewardsBacked
    <2> QED
        BY <2>1, <2>2, <2>3, <2>4, <2>5, Same DEF IInv
<1> QED
    BY <1>1, <1>3, <1>4

-----------------------------------------------------------------------------
(***************************************************************************)
(* Genesis, the steps together, and the theorems about the invariants.     *)
(***************************************************************************)

\* The invariant holds at genesis.
LEMMA InitInv == Init => IInv
<1> SUFFICES ASSUME Init PROVE IInv
    OBVIOUS
<1>1. /\ network \in Networks /\ epoch = 0 /\ round = 0
      /\ validator_set = <<>> /\ statistics = <<>>
      /\ proposer_rewards = [i \in Indices |-> 0] /\ rewards_vault = 0
      /\ wallet = InitialWallet
      /\ registered = [v \in Validator |-> GenesisStake[v] > 0]
      /\ key = FirstKey
      /\ stake = GenesisStake /\ unit_supply = GenesisStake /\ units = GenesisStake
      /\ pending_xrd = [v \in Validator |-> 0] /\ claims = [v \in Validator |-> <<>>]
    BY DEF Init
<1>2. /\ locked_units = [v \in Validator |-> 0] /\ pending_units = [v \in Validator |-> 0]
      /\ withdrawals = [v \in Validator |-> <<>>] /\ already_unlocked = [v \in Validator |-> 0]
      /\ fee_factor = [v \in Validator |-> FirstFee] /\ fee_request = [v \in Validator |-> <<>>]
      /\ sorted_key = [v \in Validator |-> ToSortedKey(v, GenesisStake[v] > 0, GenesisStake[v])]
      /\ index = [k \in {sorted_key[v] : v \in {u \in Validator : GenesisStake[u] > 0}} |->
                    [key |-> FirstKey[k[2]], stake |-> GenesisStake[k[2]]]]
    BY DEF Init
<1>3. /\ GenesisStake \in [Validator -> Nat] /\ FirstKey \in [Validator -> Key]
      /\ FirstFee \in 0 .. SCALE /\ InitialWallet \in Nat
    BY ConsensusManagerAssumption
<1>4. DOMAIN <<>> = {} /\ IsFiniteSet({})
    <2>1. DOMAIN <<>> = {}
        BY SMT
    <2> QED
        BY <2>1, FS_EmptySet
<1>5. AmountsTyped
    BY <1>1, <1>2, <1>3, SMT DEF AmountsTyped
<1>6. ListingTyped
    <2>1. \A v \in Validator : (GenesisStake[v] > 0) \in BOOLEAN
        BY <1>3, SMT
    <2> QED
        BY <1>1, <1>3, <2>1 DEF ListingTyped
<1>7. PromisesTyped
    BY <1>1, <1>2, <1>4 DEF PromisesTyped
<1>8. FeesTyped
    BY <1>2, <1>3 DEF FeesTyped
<1>9. SetTyped
    <2>1. Members = {}
        BY <1>1, <1>4 DEF Members
    <2>2. round \in Nat /\ proposer_rewards \in [Indices -> Nat]
        BY <1>1, SMT
    <2> QED
        BY <1>1, <2>1, <2>2 DEF SetTyped
<1>10. RoundsAreAccounted
    <2>1. Members = {} /\ DOMAIN statistics = DOMAIN validator_set
        BY <1>1, <1>4 DEF Members
    <2>2. \A f : SumFunctionOnSet(f, Members) = 0
        BY <2>1, SumEmpty
    <2> QED
        BY <1>1, <2>1, <2>2 DEF RoundsAreAccounted
<1>11. ClaimsBacked
    <2> SUFFICES ASSUME NEW v \in Validator
                 PROVE  pending_xrd[v] = ClaimAmount(v, DOMAIN claims[v])
        BY DEF ClaimsBacked
    <2>1. DOMAIN claims[v] = {} /\ pending_xrd[v] = 0
        BY <1>1, <1>4
    <2> QED
        BY <2>1, SumEmpty DEF ClaimAmount
<1>12. UnlocksBacked
    <2> SUFFICES ASSUME NEW v \in Validator
                 PROVE  pending_units[v] =
                            already_unlocked[v] + SumFunctionOnSet(withdrawals[v], DOMAIN withdrawals[v])
        BY DEF UnlocksBacked
    <2>1. DOMAIN withdrawals[v] = {} /\ pending_units[v] = 0 /\ already_unlocked[v] = 0
        BY <1>2, <1>4
    <2>2. SumFunctionOnSet(withdrawals[v], DOMAIN withdrawals[v]) = 0
        BY <2>1, SumEmpty
    <2> QED
        BY <2>1, <2>2, SMT
<1>13. UnitsBacked
    BY <1>1, <1>2, <1>3, SMT DEF UnitsBacked
<1>14. RewardsBacked
    <2>1. \A i \in Indices : proposer_rewards[i] = 0
        BY <1>1
    <2>2. SumFunctionOnSet(proposer_rewards, Indices) = 0
        BY <2>1, IndicesFinite, SumZero
    <2> QED
        BY <1>1, <2>2, SMT DEF RewardsBacked
<1>15. IndexIsExact
    <2> DEFINE listed == {v \in Validator : registered[v] /\ stake[v] > 0}
    <2>1. listed = {u \in Validator : GenesisStake[u] > 0}
        BY <1>1
    <2>2. \A v \in listed : sorted_key[v] = <<SortPrefix(stake[v]), v>>
        BY <1>1, <1>2 DEF ToSortedKey
    <2>3. DOMAIN index = {sorted_key[v] : v \in listed}
        BY <1>2, <2>1
    <2>4. DOMAIN index = {<<SortPrefix(stake[v]), v>> : v \in listed}
        <3> HIDE DEF listed
        <3> QED
            BY <2>2, <2>3
    <2>5. \A k \in DOMAIN index : index[k] = [key |-> key[k[2]], stake |-> stake[k[2]]]
        BY <1>1, <1>2
    <2>6. \A v \in Validator : sorted_key[v] = ToSortedKey(v, registered[v], stake[v])
        BY <1>1, <1>2
    <2> QED
        BY <2>4, <2>5, <2>6 DEF IndexIsExact
<1> QED
    BY <1>5, <1>6, <1>7, <1>8, <1>9, <1>10, <1>11, <1>12, <1>13, <1>14, <1>15 DEF IInv

\* the calls of users and owners on the validators
ValidatorCall ==
    \/ \E v \in Staking :
         \/ \E x \in Some(wallet) : Stake(v, x)
         \/ \E u \in Some(units[v]) : Unstake(v, u)
         \/ \E nfts \in SUBSET DOMAIN claims[v] \ {{}} : ClaimXrd(v, nfts)
    \/ \E v \in Locking :
         \/ \E u \in Some(units[v]) : LockOwnerStakeUnits(v, u)
         \/ \E u \in Some(locked_units[v]) : StartUnlock(v, u)
         \/ FinishUnlock(v)
    \/ \E v \in Switching :
         \/ \E new \in BOOLEAN : RegisterUpdate(v, new)
         \/ \E k \in Key : UpdateKey(v, k)
    \/ \E v \in Charging, f \in FeeFactors : UpdateFee(v, f)

\* The kinds of steps there are.
LEMMA Steps ==
    ASSUME IInv, Next
    PROVE  \/ Start \/ RoundCall
           \/ \E p \in Nat, s \in Nat : FinalizeFees(p, s)
           \/ UNCHANGED manager /\ ValidatorCall
<1>1. ASSUME NEW progress \in 1 .. network.max_gap + 1,
             NEW t \in epoch_milli .. network.max_time, NEW leader \in Members, NEW is_fallback \in BOOLEAN,
             NEW gaps \in [1 .. progress - 1 -> Members],
             NextRound(round + progress, t, gaps, leader, is_fallback)
      PROVE  RoundCall
    <2> DEFINE r == round + progress
    <2>1. r \in Nat /\ r - round - 1 = progress - 1
        BY SMT DEF IInv, SetTyped
    <2> HIDE DEF r
    <2>2. gaps \in [1 .. r - round - 1 -> Members]
        BY <2>1
    <2>3. NextRound(r, t, gaps, leader, is_fallback)
        BY <1>1 DEF r
    <2> QED
        BY <2>1, <2>2, <2>3 DEF RoundCall
<1>2. \A n : n \in 0 .. MaxFee => n \in Nat
    BY SMT
<1> QED
    BY <1>1, <1>2 DEF Next, ValidatorCall

\* The first epoch begins.
LEMMA StartInv ==
    ASSUME IInv, Start
    PROVE  IInv'
<1>1. EpochChange(statistics) /\ network' = network
    BY DEF Start
<1>2. StatsTyped(statistics)
    BY DEF IInv, SetTyped, StatsTyped
<1> QED
    BY <1>1, <1>2, EpochInv

\* The calls of users and owners.
LEMMA CallInv ==
    ASSUME IInv, ValidatorCall, UNCHANGED manager
    PROVE  IInv'
<1>1. \A n, x : x \in Some(n) => x \in Nat
    BY SMT DEF Some
<1>2. /\ Staking \subseteq Validator /\ Locking \subseteq Validator
      /\ Charging \subseteq Validator /\ Switching \subseteq Validator
    BY ConsensusManagerAssumption
<1>3. ASSUME NEW v \in Validator, NEW x \in Nat, Stake(v, x) PROVE IInv'
    BY <1>3, StakeInv
<1>4. ASSUME NEW v \in Validator, NEW u \in Nat, Unstake(v, u) PROVE IInv'
    BY <1>4, UnstakeInv
<1>5. ASSUME NEW v \in Validator, NEW nfts, ClaimXrd(v, nfts) PROVE IInv'
    BY <1>5, ClaimInv
<1>6. ASSUME NEW v \in Validator, NEW u \in Nat, LockOwnerStakeUnits(v, u) PROVE IInv'
    BY <1>6, LockInv
<1>7. ASSUME NEW v \in Validator, NEW u \in Nat, StartUnlock(v, u) PROVE IInv'
    BY <1>7, StartUnlockInv
<1>8. ASSUME NEW v \in Validator, FinishUnlock(v) PROVE IInv'
    BY <1>8, FinishUnlockInv
<1>9. ASSUME NEW v \in Validator, NEW new \in BOOLEAN, RegisterUpdate(v, new) PROVE IInv'
    BY <1>9, RegisterInv
<1>10. ASSUME NEW v \in Validator, NEW k \in Key, UpdateKey(v, k) PROVE IInv'
    BY <1>10, KeyInv
<1>11. ASSUME NEW v \in Validator, NEW f \in FeeFactors, UpdateFee(v, f) PROVE IInv'
    BY <1>11, FeeInv
<1> QED
    BY <1>1, <1>2, <1>3, <1>4, <1>5, <1>6, <1>7, <1>8, <1>9, <1>10, <1>11 DEF ValidatorCall

\* The invariant is preserved by every step.
LEMMA NextInv == IInv /\ [Next]_vars => IInv'
<1>1. ASSUME IInv, Next PROVE IInv'
    <2>1. CASE Start
        BY <1>1, <2>1, StartInv
    <2>2. CASE RoundCall
        BY <1>1, <2>2, RoundInv
    <2>3. CASE \E p \in Nat, s \in Nat : FinalizeFees(p, s)
        BY <1>1, <2>3, FinalizeInv
    <2>4. CASE UNCHANGED manager /\ ValidatorCall
        BY <1>1, <2>4, CallInv
    <2> QED
        BY <1>1, <2>1, <2>2, <2>3, <2>4, Steps
<1>2. ASSUME IInv, UNCHANGED vars PROVE IInv'
    <2>1. /\ UNCHANGED <<epoch, staking, owners, fees, listing, manager>>
        BY <1>2 DEF vars
    <2>2. UNCHANGED <<wallet, stake, unit_supply, units, pending_xrd, claims, locked_units,
                      pending_units, withdrawals, already_unlocked, registered, key, rewards_vault>>
        BY <2>1 DEF staking, owners, listing, manager, rewards
    <2>3. AmountsTyped'
        BY <1>2, <2>1, <2>2 DEF IInv, AmountsTyped
    <2> QED
        BY <1>2, <2>1, <2>2, <2>3, Same DEF IInv
<1> QED
    BY <1>1, <1>2

\* The inductive invariant holds in every reachable state.
LEMMA SpecIInv == Spec => []IInv
    BY InitInv, NextInv, PTL DEF Spec

\* In every reachable state the index of validators by stake (update_validator,
\* index_update) lists exactly the registered validators that have stake, each under the
\* key of its current stake.
THEOREM IndexExact == Spec => []IndexIsExact
<1>1. IInv => IndexIsExact
    BY DEF IInv
<1> QED
    BY <1>1, SpecIInv, PTL

\* In every reachable state the vaults hold what was promised from them: claim NFTs
\* (claim_xrd), unlocks of owner units (finish_unlock_owner_stake_units) and leader
\* rewards (apply_validator_emissions_and_rewards).
THEOREM PromisesBacked == Spec => []PromisesAreBacked
<1>1. IInv => PromisesAreBacked
    BY DEF IInv, PromisesAreBacked, ClaimsBacked, UnlocksBacked, UnitsBacked, RewardsBacked
<1> QED
    BY <1>1, SpecIInv, PTL

\* In every reachable state each round of the epoch is on the record of exactly one
\* member (update_proposal_statistics), whatever rounds were skipped.
THEOREM RoundsAccounted == Spec => []RoundsAreAccounted
<1>1. IInv => RoundsAreAccounted
    BY DEF IInv
<1> QED
    BY <1>1, SpecIInv, PTL

-----------------------------------------------------------------------------
(***************************************************************************)
(* What a step may not do: raise a fee without notice.                     *)
(***************************************************************************)

\* The epoch and the fees change in three ways only.
LEMMA FeeSteps ==
    ASSUME IInv, [Next]_vars
    PROVE  \/ UNCHANGED <<epoch, fees>>
           \/ epoch' = epoch + 1 /\ UNCHANGED fees
           \/ \E v \in Validator, f \in FeeFactors : UpdateFee(v, f)
<1>1. CASE Start
    BY <1>1 DEF Start, EpochChange
<1>2. CASE RoundCall
    <2>1. \E stats : RoundGoesOn(stats) \/ EpochChange(stats)
        BY <1>2, RoundEnds
    <2> QED
        BY <2>1 DEF RoundGoesOn, EpochChange
<1>3. CASE \E p \in Nat, s \in Nat : FinalizeFees(p, s)
    BY <1>3 DEF FinalizeFees
<1>4. CASE ValidatorCall
    <2>1. Charging \subseteq Validator
        BY ConsensusManagerAssumption
    <2> QED
        BY <1>4, <2>1 DEF ValidatorCall, Stake, Unstake, ClaimXrd, LockOwnerStakeUnits, StartUnlock,
                          FinishUnlock, RegisterUpdate, UpdateKey
<1>5. CASE UNCHANGED vars
    BY <1>5 DEF vars
<1> QED
    BY <1>1, <1>2, <1>3, <1>4, <1>5, Steps

\* A delegator who looks at the fee now and at the one requested is not charged more
\* within the notice period, whatever the owner requests (update_fee) and however
\* requests and ends of epochs follow each other.
THEOREM FeesAnnounced == Spec => FeeIncreasesAnnounced
<1> DEFINE Announced ==
        \A v \in Validator : \A e \in epoch' .. epoch + num_fee_increase_delay_epochs - 1 :
            HighestFee(v, e)' <= HighestFee(v, e)
<1>1. ASSUME IInv, [Next]_vars PROVE Announced
    <2> SUFFICES ASSUME NEW v \in Validator,
                        NEW e \in epoch' .. epoch + num_fee_increase_delay_epochs - 1
                 PROVE  HighestFee(v, e)' <= HighestFee(v, e)
        OBVIOUS
    <2>1. /\ epoch \in Nat /\ num_fee_increase_delay_epochs \in Nat \ {0} /\ SCALE \in Nat
          /\ \A x : EffectiveFee(v, x) \in 0 .. SCALE
        BY <1>1, ValidatorsAssumption, FeeFraction DEF IInv, AmountsTyped
    <2>2. \A x : EffectiveFee(v, x) \in Int
        BY <2>1, SMT
    <2>3. CASE UNCHANGED <<epoch, fees>>
        <3>1. HighestFee(v, e)' = HighestFee(v, e)
            BY <2>3 DEF HighestFee, EffectiveFee, fees
        <3>2. HighestFee(v, e) \in Int
            BY <2>2 DEF HighestFee
        <3> QED
            BY <3>1, <3>2, SMT
    <2>4. CASE epoch' = epoch + 1 /\ UNCHANGED fees
        <3>1. EffectiveFee(v, e)' = EffectiveFee(v, e) /\ EffectiveFee(v, epoch)' = EffectiveFee(v, epoch + 1)
            BY <2>4 DEF EffectiveFee, fees
        <3>2. \/ EffectiveFee(v, epoch + 1) = EffectiveFee(v, e)
              \/ EffectiveFee(v, epoch + 1) = EffectiveFee(v, epoch)
            BY <1>1, <2>1, <2>4, SMT DEF EffectiveFee, IInv, FeesTyped
        <3>3. HighestFee(v, e)' = IF EffectiveFee(v, e) > EffectiveFee(v, epoch + 1)
                                  THEN EffectiveFee(v, e) ELSE EffectiveFee(v, epoch + 1)
            BY <3>1 DEF HighestFee
        <3> QED
            BY <2>2, <3>2, <3>3, SMT DEF HighestFee
    <2>5. CASE \E u \in Validator, f \in FeeFactors : UpdateFee(u, f)
        <3>1. PICK u \in Validator, f \in FeeFactors : UpdateFee(u, f)
            BY <2>5
        <3> DEFINE current == EffectiveFee(u, epoch)
                   from == IF f > current THEN epoch + num_fee_increase_delay_epochs ELSE epoch + 1
        <3>2. /\ fee_factor' = [fee_factor EXCEPT ![u] = current]
              /\ fee_request' = [fee_request EXCEPT ![u] = <<from, f>>]
              /\ epoch' = epoch
            BY <3>1 DEF UpdateFee
        <3>3. /\ fee_factor \in [Validator -> 0 .. SCALE] /\ DOMAIN fee_request = Validator
              /\ f \in Int
            BY <1>1, ValidatorsAssumption, SMT DEF IInv, FeesTyped
        <3>4. CASE v # u
            <4>1. fee_factor'[v] = fee_factor[v] /\ fee_request'[v] = fee_request[v]
                BY <3>2, <3>3, <3>4
            <4>2. HighestFee(v, e)' = HighestFee(v, e)
                <5>1. EffectiveFee(v, e)' = EffectiveFee(v, e)
                    BY <4>1 DEF EffectiveFee
                <5>2. EffectiveFee(v, epoch)' = EffectiveFee(v, epoch)
                    BY <3>2, <4>1, SMT DEF EffectiveFee
                <5> QED
                    BY <5>1, <5>2 DEF HighestFee
            <4>3. HighestFee(v, e) \in Int
                BY <2>2 DEF HighestFee
            <4> QED
                BY <4>2, <4>3, SMT
        <3>5. CASE v = u
            <4>1. fee_factor'[v] = current /\ fee_request'[v] = <<from, f>>
                BY <3>2, <3>3, <3>5
            <4>2. <<from, f>> # <<>> /\ <<from, f>>[1] = from /\ <<from, f>>[2] = f
                BY SMT
            <4>3. /\ EffectiveFee(v, e)' = IF from <= e THEN f ELSE current
                  /\ EffectiveFee(v, epoch)' = IF from <= epoch THEN f ELSE current
                <5> HIDE DEF from, current
                <5> QED
                    BY <3>2, <4>1, <4>2 DEF EffectiveFee
            <4>4. current \in Int
                BY <2>2, <3>5
            <4> HIDE DEF current
            <4>5. EffectiveFee(v, e)' \in Int /\ EffectiveFee(v, e)' <= current
                BY <2>1, <3>2, <3>3, <4>3, <4>4, SMT
            <4>6. EffectiveFee(v, epoch)' \in Int /\ EffectiveFee(v, epoch)' <= current
                BY <2>1, <3>2, <3>3, <4>3, <4>4, SMT
            <4>7. HighestFee(v, e)' <= current
                BY <4>5, <4>6 DEF HighestFee
            <4>8. HighestFee(v, e)' \in Int /\ HighestFee(v, e) \in Int /\ current <= HighestFee(v, e)
                <5>1. HighestFee(v, e)' \in Int
                    BY <4>5, <4>6 DEF HighestFee
                <5>2. current = EffectiveFee(v, epoch)
                    BY <3>5 DEF current
                <5> QED
                    BY <2>2, <5>1, <5>2, SMT DEF HighestFee
            <4> QED
                BY <4>4, <4>7, <4>8, SMT
        <3> QED
            BY <3>4, <3>5
    <2> QED
        BY <1>1, <2>3, <2>4, <2>5, FeeSteps
<1>2. IInv /\ [Next]_vars => [Announced]_vars
    BY <1>1
<1> QED
    BY <1>2, SpecIInv, PTL DEF Spec, FeeIncreasesAnnounced

-----------------------------------------------------------------------------
(***************************************************************************)
(* What a step may not do: create or lose RORK, or take value from a unit. *)
(***************************************************************************)

\* what a step must keep, as ValueIsPreserved says
RorkKept == Rork' - Rork \in 0 .. (IF epoch' = epoch THEN 0 ELSE total_emission_xrd_per_epoch)
UnitValueKept(v) == stake'[v] * unit_supply[v] >= stake[v] * unit_supply'[v]
ValueKept == RorkKept /\ \A v \in Validator : UnitValueKept(v)

\* what the vaults of the validators hold, before and after a step
Held == [v \in Validator |-> stake[v] + pending_xrd[v]]
NewHeld == [v \in Validator |-> stake'[v] + pending_xrd'[v]]

\* Amounts that add up, and what RORK there is in terms of them.
LEMMA RorkFacts ==
    ASSUME AmountsTyped, AmountsTyped'
    PROVE  /\ \A v \in Validator : Held[v] \in Int /\ NewHeld[v] \in Int
           /\ SumFunctionOnSet(Held, Validator) \in Int /\ SumFunctionOnSet(NewHeld, Validator) \in Int
           /\ Rork = wallet + rewards_vault + SumFunctionOnSet(Held, Validator)
           /\ Rork' = wallet' + rewards_vault' + SumFunctionOnSet(NewHeld, Validator)
<1>1. \A v \in Validator : Held[v] \in Nat /\ NewHeld[v] \in Nat
    <2> SUFFICES ASSUME NEW v \in Validator
                 PROVE  stake[v] + pending_xrd[v] \in Nat /\ stake'[v] + pending_xrd'[v] \in Nat
        BY DEF Held, NewHeld
    <2>1. stake[v] \in Nat /\ pending_xrd[v] \in Nat /\ stake'[v] \in Nat /\ pending_xrd'[v] \in Nat
        BY DEF AmountsTyped
    <2> QED
        BY <2>1, SMT
<1>2. SumFunctionOnSet(Held, Validator) \in Nat /\ SumFunctionOnSet(NewHeld, Validator) \in Nat
    BY <1>1, IndicesFinite, SumNat
<1>3. \A n \in Nat : n \in Int
    BY SMT
<1>4. /\ Rork = wallet + rewards_vault + SumFunctionOnSet(Held, Validator)
      /\ Rork' = wallet' + rewards_vault' + SumFunctionOnSet(NewHeld, Validator)
    BY DEF Rork, Held, NewHeld
<1> QED
    BY <1>1, <1>2, <1>3, <1>4

\* A step that leaves validator v the only one changed.
OnlyAt(v) ==
    \A u \in Validator \ {v} : /\ stake'[u] = stake[u] /\ unit_supply'[u] = unit_supply[u]
                               /\ pending_xrd'[u] = pending_xrd[u]

\* A step that changes one validator keeps all value when it does so there.
LEMMA ValueAt ==
    ASSUME AmountsTyped, AmountsTyped', epoch' = epoch, NEW v \in Validator, OnlyAt(v),
           wallet' + rewards_vault' + stake'[v] + pending_xrd'[v]
             = wallet + rewards_vault + stake[v] + pending_xrd[v],
           UnitValueKept(v)
    PROVE  ValueKept
<1>1. SumFunctionOnSet(NewHeld, Validator) = SumFunctionOnSet(Held, Validator) + (NewHeld[v] - Held[v])
    <2>1. \A u \in Validator : Held[u] \in Int /\ NewHeld[u] \in Int
        BY RorkFacts
    <2>2. \A u \in Validator \ {v} : NewHeld[u] = Held[u]
        BY DEF OnlyAt, Held, NewHeld
    <2>3. IsFiniteSet(Validator)
        BY IndicesFinite
    <2> DEFINE f == Held
               g == NewHeld
               V == Validator
    <2>4. \A u \in V : f[u] \in Int /\ g[u] \in Int
        BY <2>1
    <2>5. \A u \in V \ {v} : g[u] = f[u]
        BY <2>2
    <2>6. v \in V /\ IsFiniteSet(V)
        BY <2>3
    <2> HIDE DEF f, g, V
    <2>7. SumFunctionOnSet(g, V) = SumFunctionOnSet(f, V) + (g[v] - f[v])
        BY <2>4, <2>5, <2>6, SumUpdate, SMT
    <2> QED
        BY <2>7 DEF f, g, V
<1>2. /\ Held[v] = stake[v] + pending_xrd[v] /\ NewHeld[v] = stake'[v] + pending_xrd'[v]
      /\ stake[v] \in Nat /\ pending_xrd[v] \in Nat /\ stake'[v] \in Nat /\ pending_xrd'[v] \in Nat
      /\ wallet \in Nat /\ wallet' \in Nat /\ rewards_vault \in Nat /\ rewards_vault' \in Nat
    BY DEF Held, NewHeld, AmountsTyped
<1>3. RorkKept
    <2>1. /\ Rork = wallet + rewards_vault + SumFunctionOnSet(Held, Validator)
          /\ Rork' = wallet' + rewards_vault' + SumFunctionOnSet(NewHeld, Validator)
          /\ SumFunctionOnSet(Held, Validator) \in Int /\ SumFunctionOnSet(NewHeld, Validator) \in Int
        BY RorkFacts
    <2>2. Rork' - Rork = 0
        BY <1>1, <1>2, <2>1, SMT
    <2>3. 0 \in 0 .. 0
        BY SMT
    <2> QED
        BY <2>2, <2>3 DEF RorkKept
<1>4. ASSUME NEW u \in Validator \ {v} PROVE UnitValueKept(u)
    <2>1. stake[u] \in Nat /\ unit_supply[u] \in Nat /\ stake'[u] = stake[u] /\ unit_supply'[u] = unit_supply[u]
        BY DEF OnlyAt, AmountsTyped
    <2> QED
        BY <2>1, SMT DEF UnitValueKept
<1> QED
    BY <1>3, <1>4 DEF ValueKept

\* A step that moves RORK only between users and the rewards keeps all value.
LEMMA ValueElsewhere ==
    ASSUME AmountsTyped, AmountsTyped', UNCHANGED <<epoch, stake, unit_supply, pending_xrd>>,
           wallet' + rewards_vault' = wallet + rewards_vault
    PROVE  ValueKept
<1>1. RorkKept
    <2>1. Rork = wallet + rewards_vault + SumFunctionOnSet(Held, Validator)
        BY RorkFacts
    <2>2. Rork' = wallet + rewards_vault + SumFunctionOnSet(Held, Validator)
        BY DEF Rork, Held
    <2>3. Rork \in Int
        BY <2>1, RorkFacts, SMT DEF AmountsTyped
    <2>4. Rork' - Rork = 0
        BY <2>1, <2>2, <2>3, SMT
    <2>5. 0 \in 0 .. 0
        BY SMT
    <2> QED
        BY <2>4, <2>5 DEF RorkKept
<1>2. ASSUME NEW u \in Validator PROVE UnitValueKept(u)
    <2>1. stake[u] \in Nat /\ unit_supply[u] \in Nat /\ stake'[u] = stake[u] /\ unit_supply'[u] = unit_supply[u]
        BY DEF AmountsTyped
    <2> QED
        BY <2>1, SMT DEF UnitValueKept
<1> QED
    BY <1>1, <1>2 DEF ValueKept

\* Staking buys no more units than the stake is worth.
LEMMA StakeValue ==
    ASSUME IInv, AmountsTyped', NEW v \in Validator, NEW xrd \in Nat, Stake(v, xrd), UNCHANGED manager
    PROVE  ValueKept
<1> DEFINE minted == StakeUnitAmount(xrd, stake[v], unit_supply[v])
<1>1. /\ xrd <= wallet /\ wallet' = wallet - xrd
      /\ stake' = [stake EXCEPT ![v] = @ + xrd]
      /\ unit_supply' = [unit_supply EXCEPT ![v] = @ + minted]
      /\ epoch' = epoch /\ pending_xrd' = pending_xrd /\ rewards_vault' = rewards_vault
    BY DEF Stake, manager, rewards
<1>2. /\ stake \in [Validator -> Nat] /\ unit_supply \in [Validator -> Nat]
      /\ pending_xrd \in [Validator -> Nat] /\ wallet \in Nat /\ rewards_vault \in Nat
    BY DEF IInv, AmountsTyped
<1>3. OnlyAt(v) /\ stake'[v] = stake[v] + xrd /\ unit_supply'[v] = unit_supply[v] + minted
    BY <1>1, <1>2 DEF OnlyAt
<1>4. minted \in Nat /\ minted * stake[v] <= xrd * unit_supply[v] /\ stake[v] \in Nat /\ unit_supply[v] \in Nat
    BY <1>2, StakeUnits
<1> HIDE DEF minted
<1>5. UnitValueKept(v)
    <2> DEFINE s == stake[v]
               u == unit_supply[v]
    <2>1. s \in Nat /\ u \in Nat /\ minted * s <= xrd * u
        BY <1>4
    <2> HIDE DEF s, u
    <2>2. (s + xrd) * u >= s * (u + minted)
        BY <1>4, <2>1, SMT
    <2> QED
        BY <1>3, <2>2 DEF UnitValueKept, s, u
<1>6. wallet' + rewards_vault' + stake'[v] + pending_xrd'[v]
        = wallet + rewards_vault + stake[v] + pending_xrd[v]
    BY <1>1, <1>2, <1>3, SMT
<1> QED
    BY <1>1, <1>3, <1>5, <1>6, ValueAt DEF IInv

\* Unstaking takes no more stake than the units are worth.
LEMMA UnstakeValue ==
    ASSUME IInv, AmountsTyped', NEW v \in Validator, NEW amount \in Nat, Unstake(v, amount),
           UNCHANGED manager
    PROVE  ValueKept
<1> DEFINE xrd == RedemptionValue(v, amount)
<1>1. /\ xrd <= stake[v] /\ wallet' = wallet
      /\ stake' = [stake EXCEPT ![v] = @ - xrd]
      /\ unit_supply' = [unit_supply EXCEPT ![v] = @ - amount]
      /\ pending_xrd' = [pending_xrd EXCEPT ![v] = @ + xrd]
      /\ epoch' = epoch /\ rewards_vault' = rewards_vault
    BY DEF Unstake, manager, rewards
<1>2. /\ stake \in [Validator -> Nat] /\ unit_supply \in [Validator -> Nat]
      /\ pending_xrd \in [Validator -> Nat] /\ wallet \in Nat /\ rewards_vault \in Nat
    BY DEF IInv, AmountsTyped
<1>3. /\ OnlyAt(v) /\ stake'[v] = stake[v] - xrd /\ unit_supply'[v] = unit_supply[v] - amount
      /\ pending_xrd'[v] = pending_xrd[v] + xrd
    BY <1>1, <1>2 DEF OnlyAt
<1>4. xrd \in Nat /\ xrd * unit_supply[v] <= amount * stake[v] /\ stake[v] \in Nat /\ unit_supply[v] \in Nat
    BY <1>2, RedemptionFacts DEF IInv
<1> HIDE DEF xrd
<1>5. UnitValueKept(v)
    <2> DEFINE s == stake[v]
               u == unit_supply[v]
    <2>1. s \in Nat /\ u \in Nat /\ xrd * u <= amount * s
        BY <1>4
    <2> HIDE DEF s, u
    <2>2. (s - xrd) * u >= s * (u - amount)
        BY <1>4, <2>1, SMT
    <2> QED
        BY <1>3, <2>2 DEF UnitValueKept, s, u
<1>6. wallet' + rewards_vault' + stake'[v] + pending_xrd'[v]
        = wallet + rewards_vault + stake[v] + pending_xrd[v]
    BY <1>1, <1>2, <1>3, <1>4, SMT
<1> QED
    BY <1>1, <1>3, <1>5, <1>6, ValueAt DEF IInv

\* A claim pays what was set apart for it.
LEMMA ClaimValue ==
    ASSUME IInv, AmountsTyped', NEW v \in Validator, NEW nfts, ClaimXrd(v, nfts), UNCHANGED manager
    PROVE  ValueKept
<1> DEFINE t == ClaimAmount(v, nfts)
<1>1. /\ t <= pending_xrd[v] /\ wallet' = wallet + t
      /\ pending_xrd' = [pending_xrd EXCEPT ![v] = @ - t]
      /\ stake' = stake /\ unit_supply' = unit_supply /\ epoch' = epoch /\ rewards_vault' = rewards_vault
    BY DEF ClaimXrd, manager, rewards
<1>2. /\ stake \in [Validator -> Nat] /\ unit_supply \in [Validator -> Nat]
      /\ pending_xrd \in [Validator -> Nat] /\ wallet \in Nat /\ rewards_vault \in Nat
    BY DEF IInv, AmountsTyped
<1>3. OnlyAt(v) /\ pending_xrd'[v] = pending_xrd[v] - t
    BY <1>1, <1>2 DEF OnlyAt
<1>4. t \in Int
    <2> DEFINE f == [id \in nfts |-> claims[v][id][2]]
    <2>1. nfts \in SUBSET DOMAIN claims[v]
        BY DEF ClaimXrd
    <2>2. IsFiniteSet(nfts) /\ \A id \in nfts : f[id] \in Nat
        BY <2>1, FS_Subset DEF IInv, PromisesTyped
    <2> HIDE DEF f
    <2>3. SumFunctionOnSet(f, nfts) \in Nat
        BY <2>2, SumNat
    <2>4. t \in Nat
        BY <2>3 DEF f, ClaimAmount
    <2> QED
        BY <2>4, SMT
<1> HIDE DEF t
<1>5. UnitValueKept(v)
    <2>1. stake[v] \in Nat /\ unit_supply[v] \in Nat /\ stake'[v] = stake[v] /\ unit_supply'[v] = unit_supply[v]
        BY <1>1, <1>2
    <2> QED
        BY <2>1, SMT DEF UnitValueKept
<1>6. wallet' + rewards_vault' + stake'[v] + pending_xrd'[v]
        = wallet + rewards_vault + stake[v] + pending_xrd[v]
    BY <1>1, <1>2, <1>3, <1>4, SMT
<1> QED
    BY <1>1, <1>3, <1>5, <1>6, ValueAt DEF IInv

\* An end of epoch adds to the pools what it takes from the rewards and the emission.
LEMMA EpochValue ==
    ASSUME IInv, AmountsTyped', NEW stats, StatsTyped(stats), EpochChange(stats)
    PROVE  ValueKept
<1> DEFINE V == Validator
           M == Members
           a == [i \in M |-> validator_set[i].address]
           em == Emission(stats)
           re == Reward(stats)
           gain == [i \in M |-> em[i] + re[i]]
           more == [v \in V |-> stake'[v] - stake[v]]
           old == Held
           new == NewHeld
<1>1. /\ epoch' = epoch + 1 /\ wallet' = wallet /\ pending_xrd' = pending_xrd
      /\ rewards_vault' = rewards_vault - SumFunctionOnSet(re, M)
    BY DEF EpochChange, Eff, Reward, Shared, Paid
<1>2. PoolsGrow(stats)
    BY EpochGrows
<1>3. /\ \A i \in M : em[i] \in Nat
      /\ SumFunctionOnSet(em, M) \in Nat /\ SumFunctionOnSet(em, M) <= total_emission_xrd_per_epoch
    BY EmissionFacts DEF IInv
<1>4. /\ \A i \in M : re[i] \in Nat
      /\ SumFunctionOnSet(re, M) \in Nat
    BY RewardFacts DEF IInv, AmountsTyped
<1>5. IsFiniteSet(M) /\ IsFiniteSet(V)
    BY EffFacts, IndicesFinite DEF IInv
<1>6. \A v \in V : stake[v] \in Nat /\ stake'[v] \in Nat /\ unit_supply[v] \in Nat /\ unit_supply'[v] \in Nat
    BY DEF IInv, AmountsTyped
<1>7. ASSUME NEW i \in M
      PROVE  a[i] \in V /\ gain[i] \in Int /\ more[a[i]] = gain[i] /\ UnitValueKept(a[i])
    <2> DEFINE v == validator_set[i].address
               p == Pool(v)
               q == NewPool(v)
               g == em[i] + re[i]
    <2>1. v \in V
        BY DEF IInv, SetTyped
    <2>2. q.stake = p.stake + g /\ p.stake * q.unit_supply <= q.stake * p.unit_supply
        BY <1>2 DEF PoolsGrow, Grown
    <2>3. /\ q.stake = stake'[v] /\ q.unit_supply = unit_supply'[v]
          /\ p.stake = stake[v] /\ p.unit_supply = unit_supply[v]
        BY SMT DEF NewPool, Pool
    <2>4. em[i] \in Nat /\ re[i] \in Nat
        BY <1>3, <1>4
    <2>5. a[i] = v /\ gain[i] = g /\ more[v] = stake'[v] - stake[v]
        BY <2>1
    <2> HIDE DEF p, q, v, em, re, gain, more, a
    <2>6. g \in Int
        BY <2>4, SMT
    <2> HIDE DEF g
    <2>7. stake'[v] = stake[v] + g
        BY <2>2, <2>3
    <2>8. more[v] = g
        BY <1>6, <2>1, <2>5, <2>6, <2>7, SMT
    <2>9. stake[v] * unit_supply'[v] <= stake'[v] * unit_supply[v]
        BY <2>2, <2>3
    <2>10. UnitValueKept(v)
        BY <1>6, <2>1, <2>9, SMT DEF UnitValueKept
    <2> QED
        BY <2>1, <2>5, <2>6, <2>8, <2>10
<1>8. ASSUME NEW v \in V, \A i \in M : a[i] # v
      PROVE  more[v] = 0 /\ UnitValueKept(v)
    <2>1. v \notin Paid
        BY <1>8 DEF Paid
    <2>2. stake'[v] = stake[v] /\ unit_supply'[v] = unit_supply[v]
        BY <1>2, <2>1 DEF PoolsGrow
    <2>3. stake[v] \in Nat /\ unit_supply[v] \in Nat
        BY <1>6
    <2>4. more[v] = stake[v] - stake[v]
        BY <2>2
    <2>5. stake[v] - stake[v] = 0
        BY <2>3, SMT
    <2>6. UnitValueKept(v)
        BY <2>2, <2>3, SMT DEF UnitValueKept
    <2> QED
        BY <2>4, <2>5, <2>6
<1>9. \A v \in V : UnitValueKept(v)
    <2> HIDE DEF a, more, gain
    <2> QED
        BY <1>7, <1>8
<1>10. \A v \in V : more[v] \in Int
    <2> SUFFICES ASSUME NEW v \in V PROVE stake'[v] - stake[v] \in Int
        OBVIOUS
    <2> QED
        BY <1>6, SMT
<1>11. Reindexes(gain, M, more, V, a)
    <2>1. \A i, j \in M : a[i] = a[j] => i = j
        BY DEF IInv, SetTyped
    <2> HIDE DEF a, more, gain
    <2> QED
        BY <1>7, <1>8, <1>10, <2>1 DEF Reindexes
<1>12. IsSum(gain, em, re, M)
    <2>1. \A i \in M : em[i] \in Int /\ re[i] \in Int
        BY <1>3, <1>4, SMT
    <2> HIDE DEF em, re
    <2> QED
        BY <2>1 DEF IsSum, gain
<1>13. IsSum(new, old, more, V)
    <2> SUFFICES ASSUME NEW v \in V
                 PROVE  old[v] \in Int /\ more[v] \in Int /\ new[v] = old[v] + more[v]
        BY DEF IsSum
    <2>1. old[v] = stake[v] + pending_xrd[v] /\ new[v] = stake'[v] + pending_xrd[v]
        BY <1>1 DEF Held, NewHeld
    <2>2. more[v] = stake'[v] - stake[v]
        OBVIOUS
    <2>3. pending_xrd[v] \in Nat /\ stake[v] \in Nat /\ stake'[v] \in Nat
        BY <1>6 DEF IInv, AmountsTyped
    <2> HIDE DEF old, new, more
    <2> QED
        BY <2>1, <2>2, <2>3, SMT
<1>14. /\ SumFunctionOnSet(old, V) \in Int /\ SumFunctionOnSet(new, V) \in Int
       /\ Rork = wallet + rewards_vault + SumFunctionOnSet(old, V)
       /\ Rork' = wallet' + rewards_vault' + SumFunctionOnSet(new, V)
    BY RorkFacts DEF IInv
<1> HIDE DEF em, re, gain, more, old, new, a, M, V
<1>15. SumFunctionOnSet(gain, M) = SumFunctionOnSet(more, V)
    BY <1>5, <1>11, SumReindex, SMT
<1>16. SumFunctionOnSet(gain, M) = SumFunctionOnSet(em, M) + SumFunctionOnSet(re, M)
    BY <1>5, <1>12, SumPlus
<1>17. SumFunctionOnSet(new, V) = SumFunctionOnSet(old, V) + SumFunctionOnSet(more, V)
    BY <1>5, <1>13, SumPlus
<1>18. wallet \in Nat /\ rewards_vault \in Nat /\ epoch \in Nat /\ total_emission_xrd_per_epoch \in Nat
    BY ConsensusManagerAssumption DEF IInv, AmountsTyped
<1>19. Rork' - Rork = SumFunctionOnSet(em, M)
    <2> DEFINE E == SumFunctionOnSet(em, M)
               R == SumFunctionOnSet(re, M)
               O == SumFunctionOnSet(old, V)
               N == SumFunctionOnSet(new, V)
    <2>1. N = O + (E + R)
        BY <1>15, <1>16, <1>17
    <2>2. E \in Nat /\ R \in Nat /\ O \in Int /\ N \in Int
        BY <1>3, <1>4, <1>14
    <2>3. Rork = wallet + rewards_vault + O /\ Rork' = wallet + (rewards_vault - R) + N
        BY <1>1, <1>14
    <2> HIDE DEF E, R, O, N
    <2>4. Rork' - Rork = E
        BY <1>18, <2>1, <2>2, <2>3, SMT
    <2> QED
        BY <2>4 DEF E
<1>20. SumFunctionOnSet(em, M) \in 0 .. total_emission_xrd_per_epoch /\ epoch' # epoch
    BY <1>1, <1>3, <1>18, SMT
<1> QED
    BY <1>9, <1>19, <1>20 DEF ValueKept, RorkKept, V

\* The calls of users and owners keep all value.
LEMMA CallValue ==
    ASSUME IInv, AmountsTyped', ValidatorCall, UNCHANGED manager
    PROVE  ValueKept
<1>1. \A n, x : x \in Some(n) => x \in Nat
    BY SMT DEF Some
<1>2. Staking \subseteq Validator
    BY ConsensusManagerAssumption
<1>3. ASSUME NEW v \in Validator, NEW x \in Nat, Stake(v, x) PROVE ValueKept
    BY <1>3, StakeValue
<1>4. ASSUME NEW v \in Validator, NEW u \in Nat, Unstake(v, u) PROVE ValueKept
    BY <1>4, UnstakeValue
<1>5. ASSUME NEW v \in Validator, NEW nfts, ClaimXrd(v, nfts) PROVE ValueKept
    BY <1>5, ClaimValue
<1>6. ASSUME UNCHANGED <<epoch, wallet, stake, unit_supply, pending_xrd>> PROVE ValueKept
    <2>1. wallet' + rewards_vault' = wallet + rewards_vault
        BY <1>6 DEF manager, rewards
    <2> QED
        BY <1>6, <2>1, ValueElsewhere DEF IInv
<1>7. ASSUME NEW v,
             \/ \E u : LockOwnerStakeUnits(v, u) \/ StartUnlock(v, u)
             \/ FinishUnlock(v)
             \/ \E new : RegisterUpdate(v, new)
             \/ \E k : UpdateKey(v, k)
             \/ \E f : UpdateFee(v, f)
      PROVE  UNCHANGED <<epoch, wallet, stake, unit_supply, pending_xrd>>
    BY <1>7 DEF LockOwnerStakeUnits, StartUnlock, FinishUnlock, RegisterUpdate, UpdateKey, UpdateFee,
                staking
<1> QED
    BY <1>1, <1>2, <1>3, <1>4, <1>5, <1>6, <1>7 DEF ValidatorCall

\* Only the end of an epoch creates RORK (apply_validator_emissions_and_rewards), no more
\* than the configured emission, and no step makes a stake unit of any validator worth
\* less: staking, unstaking, fees and rewards all round in favour of the pool.
THEOREM ValuePreserved == Spec => ValueIsPreserved
<1>1. ASSUME IInv, IInv', [Next]_vars PROVE ValueKept
    <2>1. AmountsTyped /\ AmountsTyped'
        BY <1>1 DEF IInv
    <2>2. CASE Start
        <3>1. EpochChange(statistics) /\ StatsTyped(statistics)
            BY <1>1, <2>2 DEF Start, IInv, SetTyped, StatsTyped
        <3> QED
            BY <1>1, <2>1, <3>1, EpochValue
    <2>3. CASE RoundCall
        <3>1. PICK stats : StatsTyped(stats) /\ (RoundGoesOn(stats) \/ EpochChange(stats))
            BY <1>1, <2>3, RoundEnds
        <3>2. CASE EpochChange(stats)
            BY <1>1, <2>1, <3>1, <3>2, EpochValue
        <3>3. CASE RoundGoesOn(stats)
            <4>1. UNCHANGED <<epoch, wallet, rewards_vault, stake, unit_supply, pending_xrd>>
                BY <3>3 DEF RoundGoesOn, staking, rewards
            <4> QED
                BY <2>1, <4>1, ValueElsewhere
        <3> QED
            BY <3>1, <3>2, <3>3
    <2>4. CASE \E p \in Nat, s \in Nat : FinalizeFees(p, s)
        <3>1. PICK p \in Nat, s \in Nat : FinalizeFees(p, s)
            BY <2>4
        <3>2. /\ wallet' = wallet - p - s /\ rewards_vault' = rewards_vault + p + s
              /\ UNCHANGED <<epoch, stake, unit_supply, pending_xrd>>
            BY <3>1 DEF FinalizeFees
        <3>3. wallet' + rewards_vault' = wallet + rewards_vault
            BY <2>1, <3>2, SMT DEF AmountsTyped
        <3> QED
            BY <2>1, <3>2, <3>3, ValueElsewhere
    <2>5. CASE UNCHANGED manager /\ ValidatorCall
        BY <1>1, <2>1, <2>5, CallValue
    <2>6. CASE UNCHANGED vars
        <3>1. UNCHANGED <<epoch, wallet, rewards_vault, stake, unit_supply, pending_xrd>>
            BY <2>6 DEF vars, staking, manager, rewards
        <3> QED
            BY <2>1, <3>1, ValueElsewhere
    <2> QED
        BY <1>1, <2>2, <2>3, <2>4, <2>5, <2>6, Steps
<1>2. IInv /\ IInv' /\ [Next]_vars => [ValueKept]_vars
    BY <1>1
<1> QED
    BY <1>2, SpecIInv, PTL DEF Spec, ValueIsPreserved, ValueKept, RorkKept, UnitValueKept

-----------------------------------------------------------------------------
(***************************************************************************)
(* What a step may not do: choose a set that is not the best by stake.     *)
(***************************************************************************)

\* The members of the next set are in the order of their stake, and no entry that was
\* read and left out has more stake than one of them.
LEMMA BestOfRead ==
    ASSUME NEW ix, WellIndexed(ix), network \in Networks, NEW set, set = NextValidatorSet(ix)
    PROVE  /\ \A i, j \in DOMAIN set : i < j => set[i].stake >= set[j].stake
           /\ \A k \in Scanned(ix) : (\A i \in DOMAIN set : set[i].address # k[2]) =>
                /\ SetSize(ix) = network.max_validators
                /\ \A i \in DOMAIN set : ix[k].stake <= set[i].stake
<1> DEFINE S == Scanned(ix)
           D == 1 .. SetSize(ix)
<1>1. DOMAIN set = D /\ SetSize(ix) \in Nat
    BY NextSet
<1>2. \A i \in D : \E k \in S : Place(ix, k) = i /\ Describes(ix, k, set[i])
    BY NextMember
<1>3. \A k \in S : ix[k].stake \in Nat
    BY ScannedFinite, SMT DEF WellIndexed
<1>4. \A k \in S : Place(ix, k) \in 1 .. Cardinality(S)
    BY Places
<1>5. \A k, l \in S : k # l => \/ StakeBefore(ix, k, l) /\ Place(ix, k) < Place(ix, l)
                               \/ StakeBefore(ix, l, k) /\ Place(ix, l) < Place(ix, k)
    BY Places
<1>6. Cardinality(S) \in Nat
    BY ScannedFinite
<1> HIDE DEF S, D
<1>7. ASSUME NEW k \in S, NEW l \in S, Place(ix, k) < Place(ix, l)
      PROVE  ix[k].stake >= ix[l].stake
    <2>1. Place(ix, k) \in Int /\ Place(ix, l) \in Int /\ k # l
        BY <1>4, <1>6, <1>7, SMT
    <2>2. ~(Place(ix, l) < Place(ix, k))
        BY <1>7, <2>1, SMT
    <2>3. StakeBefore(ix, k, l)
        BY <1>5, <2>1, <2>2
    <2>4. ix[k].stake > ix[l].stake \/ ix[k].stake = ix[l].stake
        BY <2>3 DEF StakeBefore
    <2> QED
        BY <1>3, <2>4, SMT
<1>8. ASSUME NEW i \in D, NEW j \in D, i < j
      PROVE  set[i].stake >= set[j].stake
    <2>1. PICK k \in S : Place(ix, k) = i /\ Describes(ix, k, set[i])
        BY <1>2
    <2>2. PICK l \in S : Place(ix, l) = j /\ Describes(ix, l, set[j])
        BY <1>2
    <2>3. ix[k].stake >= ix[l].stake
        BY <1>7, <1>8, <2>1, <2>2
    <2> QED
        BY <2>1, <2>2, <2>3 DEF Describes
<1>9. ASSUME NEW k \in S, \A i \in D : set[i].address # k[2]
      PROVE  /\ SetSize(ix) = network.max_validators
             /\ \A i \in D : ix[k].stake <= set[i].stake
    <2> DEFINE p == Place(ix, k)
    <2>1. p \in 1 .. Cardinality(S)
        BY <1>4
    <2>2. p \notin D
        <3> SUFFICES ASSUME p \in D PROVE FALSE
            OBVIOUS
        <3>1. PICK l \in S : Place(ix, l) = p /\ Describes(ix, l, set[p])
            BY <1>2
        <3>2. k # l
            BY <1>9, <3>1 DEF Describes
        <3>3. Place(ix, k) < Place(ix, l) \/ Place(ix, l) < Place(ix, k)
            BY <1>5, <3>2
        <3> QED
            BY <1>6, <2>1, <3>1, <3>3, SMT
    <2> HIDE DEF p
    <2>3. p > SetSize(ix) /\ p \in Nat
        BY <1>1, <1>6, <2>1, <2>2, SMT DEF D
    <2>4. SetSize(ix) # Cardinality(S)
        BY <1>6, <2>1, <2>3, SMT
    <2>5. SetSize(ix) = network.max_validators
        BY <2>4, NextSet DEF S
    <2>6. ASSUME NEW i \in D PROVE ix[k].stake <= set[i].stake
        <3>1. PICK l \in S : Place(ix, l) = i /\ Describes(ix, l, set[i])
            BY <1>2
        <3>2. i < p
            BY <1>1, <2>3, SMT DEF D
        <3>3. ix[l].stake >= ix[k].stake
            BY <1>7, <3>1, <3>2 DEF p
        <3>4. set[i].stake = ix[l].stake
            BY <3>1 DEF Describes
        <3> QED
            BY <1>3, <3>1, <3>3, <3>4, SMT
    <2> QED
        BY <2>5, <2>6
<1> QED
    BY <1>1, <1>8, <1>9 DEF S

\* the entries before k in the index
Earlier(ix, k) == {l \in DOMAIN ix : KeyBefore(l, k)}

\* The order of the index is strict and total.
LEMMA IndexOrdered ==
    ASSUME NEW ix, WellIndexed(ix)
    PROVE  StrictOrder({p \in (DOMAIN ix) \X (DOMAIN ix) : KeyBefore(p[1], p[2])}, DOMAIN ix)
<1> DEFINE S == DOMAIN ix
           R == {p \in S \X S : KeyBefore(p[1], p[2])}
<1>1. \A k \in S : k[1] \in Int /\ k[2] \in Validator
    BY SMT DEF WellIndexed
<1>2. \A k, l \in S : k[2] = l[2] => k = l
    BY DEF WellIndexed
<1>3. \A k, l \in S : <<k, l>> \in R <=> KeyBefore(k, l)
    BY SMT
<1> HIDE DEF S, R
<1>4. ASSUME NEW k \in S PROVE ~KeyBefore(k, k)
    BY <1>1, AddressesOrdered, SMT DEF KeyBefore
<1>5. ASSUME NEW k \in S, NEW l \in S, k # l PROVE KeyBefore(k, l) \/ KeyBefore(l, k)
    <2>1. k[2] # l[2]
        BY <1>2, <1>5
    <2>2. AddressBefore(k[2], l[2]) \/ AddressBefore(l[2], k[2])
        BY <1>1, <2>1, AddressesOrdered
    <2> QED
        BY <1>1, <2>2, SMT DEF KeyBefore
<1>6. ASSUME NEW k \in S, NEW l \in S, NEW m \in S, KeyBefore(k, l), KeyBefore(l, m)
      PROVE  KeyBefore(k, m)
    <2>1. AddressBefore(k[2], l[2]) /\ AddressBefore(l[2], m[2]) => AddressBefore(k[2], m[2])
        BY <1>1, AddressesOrdered, SMT
    <2> QED
        BY <1>1, <1>6, <2>1, SMT DEF KeyBefore
<1>7. StrictOrder(R, S)
    BY <1>3, <1>4, <1>5, <1>6 DEF StrictOrder
<1> QED
    BY <1>7 DEF R, S

\* The numbers of entries before each entry: fewer than there are entries, each number
\* is met, and more come before a later entry.
LEMMA EarlierCounts ==
    ASSUME NEW ix, WellIndexed(ix)
    PROVE  LET n == Cardinality(DOMAIN ix)
           IN /\ n \in Nat
              /\ \A k \in DOMAIN ix : Cardinality(Earlier(ix, k)) \in 0 .. n - 1
              /\ \A k, l \in DOMAIN ix :
                   k = l \/ KeyBefore(k, l) \/ Cardinality(Earlier(ix, l)) < Cardinality(Earlier(ix, k))
              /\ \A i \in 0 .. n - 1 : \E k \in DOMAIN ix : Cardinality(Earlier(ix, k)) = i
<1> DEFINE S == DOMAIN ix
           R == {p \in S \X S : KeyBefore(p[1], p[2])}
           n == Cardinality(S)
           C(k) == Cardinality(Earlier(ix, k))
<1>1. StrictOrder(R, S) /\ IsFiniteSet(S) /\ n \in Nat
    BY IndexOrdered, ScannedFinite, FS_CardinalityType
<1>2. \A k, l \in S : <<k, l>> \in R <=> KeyBefore(k, l)
    BY SMT
<1> HIDE DEF R
<1>3. \A k \in S : Rank(R, S, k) = 1 + C(k)
    <2> SUFFICES ASSUME NEW k \in S PROVE Rank(R, S, k) = 1 + C(k)
        OBVIOUS
    <2>1. Earlier(ix, k) = {l \in S : <<l, k>> \in R}
        BY <1>2 DEF Earlier
    <2> QED
        BY <2>1 DEF Rank
<1>4. \A k \in S : IsFiniteSet(Earlier(ix, k)) /\ C(k) \in Nat
    <2>1. \A k \in S : Earlier(ix, k) \in SUBSET S
        BY DEF Earlier
    <2> QED
        BY <1>1, <2>1, FS_Subset, FS_CardinalityType
<1> HIDE DEF S, n, C
<1>5. /\ \A k \in S : Rank(R, S, k) \in 1 .. n
      /\ \A k, l \in S : <<k, l>> \in R => Rank(R, S, k) < Rank(R, S, l)
      /\ \A i \in 1 .. n : \E k \in S : Rank(R, S, k) = i
    BY <1>1, RankOnto, SMT DEF n
<1>6. \A k \in S : C(k) \in 0 .. n - 1
    BY <1>1, <1>3, <1>4, <1>5, SMT
<1>7. ASSUME NEW k \in S, NEW l \in S
      PROVE  k = l \/ KeyBefore(k, l) \/ C(l) < C(k)
    <2>1. k = l \/ KeyBefore(k, l) \/ <<l, k>> \in R
        BY <1>1, <1>2 DEF StrictOrder
    <2>2. <<l, k>> \in R => 1 + C(l) < 1 + C(k)
        BY <1>3, <1>5
    <2> QED
        BY <1>4, <2>1, <2>2, SMT
<1>8. ASSUME NEW i \in 0 .. n - 1 PROVE \E k \in S : C(k) = i
    <2>1. i + 1 \in 1 .. n
        BY <1>1, SMT
    <2>2. PICK k \in S : Rank(R, S, k) = i + 1
        BY <1>5, <2>1
    <2>3. C(k) = i
        BY <1>1, <1>3, <1>4, <2>2, SMT
    <2> QED
        BY <2>3
<1> QED
    BY <1>1, <1>6, <1>7, <1>8 DEF S, n, C

\* An entry that is not read comes after all that are, and those fill the set.
LEMMA Unread ==
    ASSUME NEW ix, WellIndexed(ix), network \in Networks, NEW k \in DOMAIN ix, k \notin Scanned(ix)
    PROVE  /\ SetSize(ix) = network.max_validators
           /\ NumberToRead < Cardinality(Validator)
           /\ \A l \in Scanned(ix) : KeyBefore(l, k)
<1> DEFINE S == Scanned(ix)
           N == NumberToRead
           n == Cardinality(DOMAIN ix)
           max == network.max_validators
           C(l) == Cardinality(Earlier(ix, l))
<1>1. N \in Nat /\ max \in Nat \ {0} /\ max <= N
    BY ConsensusManagerAssumption, SMT DEF NumberToRead
<1>2. S = {l \in DOMAIN ix : C(l) < N}
    BY DEF Scanned, Earlier
<1>3. n \in Nat /\ \A l \in DOMAIN ix : C(l) \in 0 .. n - 1
    BY EarlierCounts
<1>4. \A l \in DOMAIN ix : l = k \/ KeyBefore(l, k) \/ C(k) < C(l)
    BY EarlierCounts
<1>5. \A i \in 0 .. n - 1 : \E l \in DOMAIN ix : C(l) = i
    BY EarlierCounts
<1>6. n <= Cardinality(Validator) /\ Cardinality(Validator) \in Nat /\ IsFiniteSet(S) /\ Cardinality(S) \in Nat
    BY ScannedFinite
<1>7. SetSize(ix) = IF Cardinality(S) < max THEN Cardinality(S) ELSE max
    BY DEF SetSize
<1> HIDE DEF N, n, C, max
<1>8. C(k) \in 0 .. n - 1 /\ ~(C(k) < N)
    BY <1>2, <1>3
<1> HIDE DEF S
<1>9. N <= C(k) /\ N <= n - 1
    BY <1>1, <1>3, <1>8, SMT
<1>10. ASSUME NEW l \in S PROVE KeyBefore(l, k)
    <2>1. l \in DOMAIN ix /\ C(l) < N /\ C(l) \in 0 .. n - 1
        BY <1>2, <1>3
    <2>2. ~(C(k) < C(l)) /\ l # k
        BY <1>1, <1>3, <1>8, <1>9, <2>1, SMT
    <2> QED
        BY <1>4, <2>1, <2>2
<1>11. N <= Cardinality(S)
    <2> DEFINE I == 0 .. N - 1
               f == [l \in S |-> C(l)]
    <2>1. IsFiniteSet(I) /\ Cardinality(I) = N
        <3>1. 0 \in Int /\ N - 1 \in Int
            BY <1>1, SMT
        <3>2. /\ IsFiniteSet(I)
              /\ Cardinality(I) = IF 0 > N - 1 THEN 0 ELSE (N - 1) - 0 + 1
            BY <3>1, FS_Interval
        <3> HIDE DEF I
        <3> QED
            BY <1>1, <3>2, SMT
    <2>2. \A l \in S : C(l) \in I
        BY <1>1, <1>2, <1>3, SMT
    <2>3. ASSUME NEW i \in I PROVE \E l \in S : C(l) = i
        <3>1. i \in 0 .. n - 1 /\ i < N
            BY <1>1, <1>3, <1>9, SMT
        <3> QED
            BY <1>2, <1>5, <3>1
    <2>4. f \in [S -> I] /\ \A i \in I : \E l \in S : f[l] = i
        BY <2>2, <2>3
    <2>5. f \in Surjection(S, I)
        <3> HIDE DEF f, I
        <3> QED
            BY <2>4 DEF Surjection
    <2> HIDE DEF f, I
    <2>6. Cardinality(I) <= Cardinality(S)
        BY <1>6, <2>5, FS_Surjection
    <2> QED
        BY <2>1, <2>6
<1>12. SetSize(ix) = max
    BY <1>1, <1>6, <1>7, <1>11, SMT
<1>13. N < Cardinality(Validator)
    BY <1>1, <1>3, <1>6, <1>9, SMT
<1> QED
    BY <1>10, <1>12, <1>13 DEF S, N, max

\* More stake does not come later in the index.
LEMMA PrefixOrder ==
    ASSUME NEW a \in Nat, NEW b \in Nat, a <= b
    PROVE  SortPrefix(b) <= SortPrefix(a)
<1> DEFINE d == StakeDivisor
           x == a \div d
           y == b \div d
<1>1. d \in Nat \ {0} /\ MaxSortKey \in Nat
    BY ValidatorsAssumption
<1> HIDE DEF d
<1>2. x \in Nat /\ y \in Nat /\ x * d <= a /\ b < (y + 1) * d
    <2>1. x \in Nat /\ y \in Nat /\ x * d <= a
        BY <1>1, DivisionFacts
    <2>2. b < (b \div d + 1) * d
        BY <1>1, SMT
    <2> QED
        BY <2>1, <2>2
<1>3. SortPrefix(a) = MaxSortKey - (IF x > MaxSortKey THEN MaxSortKey ELSE x)
      /\ SortPrefix(b) = MaxSortKey - (IF y > MaxSortKey THEN MaxSortKey ELSE y)
    BY DEF SortPrefix, d
<1> HIDE DEF x, y
<1>4. x <= y
    <2> SUFFICES ASSUME x >= y + 1 PROVE FALSE
        BY <1>2, SMT
    <2>1. (y + 1) * d <= x * d
        BY <1>1, <1>2, MulMono, SMT
    <2>2. (y + 1) * d \in Int /\ x * d \in Int
        BY <1>1, <1>2, SMT
    <2> DEFINE u == (y + 1) * d
               w == x * d
    <2>3. u <= w /\ w <= a /\ b < u /\ u \in Int /\ w \in Int
        BY <1>2, <2>1, <2>2
    <2> HIDE DEF u, w
    <2> QED
        BY <2>3, SMT
<1> QED
    BY <1>1, <1>2, <1>3, <1>4, SMT

\* A step that ends an epoch chooses the next set from the index it leaves.
LEMMA EpochSet ==
    ASSUME IInv, [Next]_vars, epoch' # epoch
    PROVE  /\ validator_set' = NextValidatorSet(index')
           /\ network' = network /\ registered' = registered
<1>1. \E stats : EpochChange(stats) /\ network' = network
    <2>1. CASE Start
        BY <2>1 DEF Start
    <2>2. CASE RoundCall
        <3>1. UNCHANGED network /\ \E stats : RoundGoesOn(stats) \/ EpochChange(stats)
            BY <2>2, RoundEnds
        <3> QED
            BY <3>1 DEF RoundGoesOn
    <2>3. CASE \E p \in Nat, s \in Nat : FinalizeFees(p, s)
        BY <2>3 DEF FinalizeFees
    <2>4. CASE ValidatorCall
        BY <2>4 DEF ValidatorCall, Stake, Unstake, ClaimXrd, LockOwnerStakeUnits, StartUnlock,
                    FinishUnlock, RegisterUpdate, UpdateKey, UpdateFee
    <2>5. CASE UNCHANGED vars
        BY <2>5 DEF vars
    <2> QED
        BY <2>1, <2>2, <2>3, <2>4, <2>5, Steps
<1> QED
    BY <1>1 DEF EpochChange

\* The length of the next set.
LEMMA NextLen ==
    ASSUME NEW ix, WellIndexed(ix), network \in Networks
    PROVE  Len(NextValidatorSet(ix)) = SetSize(ix)
<1> DEFINE n == SetSize(ix)
           set == NextValidatorSet(ix)
           T == {set[i] : i \in 1 .. n}
<1>1. n \in Nat /\ set = [i \in 1 .. n |-> set[i]]
    <2>1. set = [i \in 1 .. n |-> set[i]]
        BY DEF NextValidatorSet
    <2> QED
        BY <2>1, NextSet
<1> HIDE DEF n, set
<1>2. set \in [1 .. n -> T]
    BY <1>1
<1> HIDE DEF T
<1>3. Len(set) = n
    BY <1>1, <1>2, SMT
<1> QED
    BY <1>3 DEF set, n

\* validator v has stake and is not in the set of the epoch that begins
LeftOut(v) ==
    /\ registered[v] /\ stake'[v] > 0
    /\ \A i \in DOMAIN validator_set' : validator_set'[i].address # v

\* What the set of a new epoch is, also when the index is not read to its end.
LEMMA BestSet ==
    ASSUME IInv, IInv', [Next]_vars, epoch' # epoch
    PROVE  /\ \A i, j \in DOMAIN validator_set' :
                i < j => validator_set'[i].stake >= validator_set'[j].stake
           /\ \A i \in DOMAIN validator_set' :
                validator_set'[i].stake = stake'[validator_set'[i].address]
           /\ \A v \in Validator : LeftOut(v) =>
                /\ Len(validator_set') = network.max_validators
                /\ network.max_validators \in DOMAIN validator_set'
                /\ \A i \in DOMAIN validator_set' :
                     /\ NumberToRead < Cardinality(Validator) \/ stake'[v] <= validator_set'[i].stake
                     /\ SortPrefix(validator_set'[i].stake) <= SortPrefix(stake'[v])
<1> DEFINE ix == index'
           set == validator_set'
           S == Scanned(ix)
           D == 1 .. SetSize(ix)
<1>1. set = NextValidatorSet(ix) /\ network' = network /\ registered' = registered
    BY EpochSet
<1>2. network \in Networks
    BY DEF IInv, SetTyped
<1>3. WellIndexed(ix)
    <2>1. (stake \in [Validator -> Nat] /\ IndexIsExact => WellIndexed(index))'
        BY ExactIsWellIndexed, PTL
    <2> QED
        BY <2>1 DEF IInv, AmountsTyped
<1>4. /\ DOMAIN ix = {<<SortPrefix(stake'[v]), v>> : v \in {u \in Validator : registered[u] /\ stake'[u] > 0}}
      /\ \A k \in DOMAIN ix : ix[k] = [key |-> key'[k[2]], stake |-> stake'[k[2]]]
    BY <1>1 DEF IInv, IndexIsExact
<1>5. \A v \in Validator : stake'[v] \in Nat
    BY DEF IInv, AmountsTyped
<1>6. ASSUME NEW k \in DOMAIN ix
      PROVE  /\ k[2] \in Validator /\ k[1] = SortPrefix(stake'[k[2]])
             /\ ix[k].stake = stake'[k[2]]
    <2>1. PICK v \in Validator : k = <<SortPrefix(stake'[v]), v>>
        BY <1>4
    <2>2. k[1] = SortPrefix(stake'[v]) /\ k[2] = v
        BY <2>1, SMT
    <2>3. ix[k] = [key |-> key'[k[2]], stake |-> stake'[k[2]]]
        BY <1>4
    <2>4. ix[k].stake = stake'[k[2]]
        BY <2>3, SMT
    <2> QED
        BY <2>2, <2>4
<1> HIDE DEF ix, set
<1>7. DOMAIN set = D /\ S \subseteq DOMAIN ix
    BY <1>1, <1>2, <1>3, NextSet, ScannedFinite
<1>8. ASSUME NEW i \in D
      PROVE  \E k \in S : /\ Place(ix, k) = i /\ set[i].address = k[2]
                          /\ set[i].stake = ix[k].stake
    <2>1. \E k \in S : Place(ix, k) = i /\ Describes(ix, k, NextValidatorSet(ix)[i])
        BY <1>2, <1>3, NextMember
    <2> HIDE DEF S
    <2> QED
        BY <1>1, <2>1 DEF Describes
<1>9. \A i, j \in DOMAIN set : i < j => set[i].stake >= set[j].stake
    BY <1>1, <1>2, <1>3, BestOfRead
<1> HIDE DEF S, D
<1>10. \A i \in DOMAIN set : set[i].stake = stake'[set[i].address]
    BY <1>6, <1>7, <1>8
<1>11. ASSUME NEW v \in Validator, registered[v], stake'[v] > 0, \A i \in DOMAIN set : set[i].address # v
       PROVE  /\ Len(set) = network.max_validators
              /\ network.max_validators \in DOMAIN set
              /\ \A i \in DOMAIN set :
                   /\ NumberToRead < Cardinality(Validator) \/ stake'[v] <= set[i].stake
                   /\ SortPrefix(set[i].stake) <= SortPrefix(stake'[v])
    <2> DEFINE k == <<SortPrefix(stake'[v]), v>>
    <2>1. k \in DOMAIN ix
        BY <1>4, <1>11
    <2>2. k[2] = v /\ k[1] = SortPrefix(stake'[v])
        BY SMT
    <2> HIDE DEF k
    <2>3. ix[k].stake = stake'[v]
        BY <1>6, <2>1, <2>2
    <2>4. ASSUME NEW i \in DOMAIN set PROVE set[i].stake \in Nat
        <3>1. PICK l \in S : set[i].stake = ix[l].stake
            BY <1>7, <1>8
        <3>2. l[2] \in Validator /\ ix[l].stake = stake'[l[2]]
            BY <1>6, <1>7, <3>1
        <3> QED
            BY <1>5, <3>1, <3>2
    <2>5. ASSUME k \in S
          PROVE  /\ SetSize(ix) = network.max_validators
                 /\ \A i \in DOMAIN set : /\ stake'[v] <= set[i].stake
                                          /\ SortPrefix(set[i].stake) <= SortPrefix(stake'[v])
        <3>1. (\A i \in DOMAIN set : set[i].address # k[2]) =>
                /\ SetSize(ix) = network.max_validators
                /\ \A i \in DOMAIN set : ix[k].stake <= set[i].stake
            BY <1>1, <1>2, <1>3, <2>5, BestOfRead DEF S
        <3>2. /\ SetSize(ix) = network.max_validators
              /\ \A i \in DOMAIN set : stake'[v] <= set[i].stake
            BY <1>11, <2>2, <2>3, <3>1
        <3>3. \A i \in DOMAIN set : SortPrefix(set[i].stake) <= SortPrefix(stake'[v])
            BY <1>5, <2>4, <3>2, PrefixOrder
        <3> QED
            BY <3>2, <3>3
    <2>6. ASSUME k \notin S
          PROVE  /\ SetSize(ix) = network.max_validators
                 /\ NumberToRead < Cardinality(Validator)
                 /\ \A i \in DOMAIN set : SortPrefix(set[i].stake) <= SortPrefix(stake'[v])
        <3>1. /\ SetSize(ix) = network.max_validators
              /\ NumberToRead < Cardinality(Validator)
              /\ \A l \in S : KeyBefore(l, k)
            BY <1>2, <1>3, <2>1, <2>6, Unread DEF S
        <3>2. ASSUME NEW i \in DOMAIN set
              PROVE  SortPrefix(set[i].stake) <= SortPrefix(stake'[v])
            <4>1. PICK l \in S : set[i].stake = ix[l].stake
                BY <1>7, <1>8
            <4>2. l \in DOMAIN ix /\ KeyBefore(l, k)
                BY <1>7, <3>1
            <4>3. l[2] \in Validator /\ l[1] = SortPrefix(stake'[l[2]]) /\ ix[l].stake = stake'[l[2]]
                BY <1>6, <4>2
            <4>4. l[1] \in Int /\ k[1] \in Int
                BY <1>5, <2>2, <4>3, KeyFacts
            <4>5. l[1] < k[1] \/ l[1] = k[1]
                BY <4>2 DEF KeyBefore
            <4>6. l[1] <= k[1]
                BY <4>4, <4>5, SMT
            <4> QED
                BY <2>2, <4>1, <4>3, <4>6
        <3> QED
            BY <3>1, <3>2
    <2>7. SetSize(ix) = network.max_validators
        BY <2>5, <2>6
    <2>8. Len(set) = network.max_validators
        BY <1>1, <1>2, <1>3, <2>7, NextLen
    <2>9. network.max_validators \in DOMAIN set
        <3>1. network.max_validators \in Nat \ {0}
            BY <1>2, ConsensusManagerAssumption, SMT
        <3>2. network.max_validators \in 1 .. network.max_validators
            BY <3>1, SMT
        <3> QED
            BY <1>7, <2>7, <3>2 DEF D
    <2> QED
        BY <2>5, <2>6, <2>8, <2>9
<1> QED
    BY <1>9, <1>10, <1>11 DEF LeftOut, set

\* as many entries of the index are read as there can be
IndexIsReadWhole ==
    \A n \in Networks : Cardinality(Validator) <= n.max_validators + n.max_validators \div 10 + 10

\* Where the validators are no more than the entries that are read, the set of a new epoch
\* is the best by stake: in its order, with current stakes, and no registered validator
\* left out of it has more stake than its last member (epoch_change).
THEOREM SetByStake == ASSUME IndexIsReadWhole PROVE Spec => SetIsByStake
<1> DEFINE Best ==
        epoch' # epoch =>
          /\ \A i, j \in DOMAIN validator_set' :
               i < j => validator_set'[i].stake >= validator_set'[j].stake
          /\ \A i \in DOMAIN validator_set' :
               validator_set'[i].stake = stake'[validator_set'[i].address]
          /\ \A v \in Validator :
               (registered[v] /\ stake'[v] > 0 /\ \A i \in DOMAIN validator_set' : validator_set'[i].address # v)
                 => /\ Len(validator_set') = network.max_validators
                    /\ stake'[v] <= validator_set'[network.max_validators].stake
<1>1. ASSUME IInv, IInv', [Next]_vars, epoch' # epoch PROVE Best
    <2>1. ~(NumberToRead < Cardinality(Validator))
        <3>1. network \in Networks /\ Cardinality(Validator) \in Nat
            BY <1>1, IndicesFinite DEF IInv, SetTyped
        <3>2. NumberToRead \in Nat
            BY <3>1, ConsensusManagerAssumption, SMT DEF NumberToRead
        <3>3. Cardinality(Validator) <= NumberToRead
            BY <3>1 DEF IndexIsReadWhole, NumberToRead
        <3> QED
            BY <3>1, <3>2, <3>3, SMT
    <2> QED
        BY <1>1, <2>1, BestSet DEF LeftOut
<1>2. IInv /\ IInv' /\ [Next]_vars => [Best]_vars
    BY <1>1
<1> QED
    BY <1>2, SpecIInv, PTL DEF Spec, SetIsByStake

\* the order of stake as the index can tell it: by steps of StakeDivisor
SetIsByStakeSteps ==
    [][epoch' # epoch =>
         \A v \in Validator : LeftOut(v) =>
           /\ Len(validator_set') = network.max_validators
           /\ \A i \in DOMAIN validator_set' :
                SortPrefix(validator_set'[i].stake) <= SortPrefix(stake'[v])]_vars

\* However many validators there are, one that is left out of the set of a new epoch has no
\* more stake than any member as far as the sort key tells stakes apart (create_sort_prefix_from_stake).
THEOREM SetByStakeSteps == Spec => SetIsByStakeSteps
<1> DEFINE Best ==
        epoch' # epoch =>
          \A v \in Validator : LeftOut(v) =>
            /\ Len(validator_set') = network.max_validators
            /\ \A i \in DOMAIN validator_set' :
                 SortPrefix(validator_set'[i].stake) <= SortPrefix(stake'[v])
<1>1. ASSUME IInv, IInv', [Next]_vars, epoch' # epoch PROVE Best
    BY <1>1, BestSet
<1>2. IInv /\ IInv' /\ [Next]_vars => [Best]_vars
    BY <1>1
<1> QED
    BY <1>2, SpecIInv, PTL DEF Spec, SetIsByStakeSteps
=============================================================================
