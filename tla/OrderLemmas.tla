------------------------------ MODULE OrderLemmas -----------------------------
(***************************************************************************)
(* Facts that several proofs need: what Max and Min of FiniteSetsExt       *)
(* return for sets of naturals, what the places are that the members of a  *)
(* finite set have in a strict order, what a list keeps of the places      *)
(* chosen in it, and what SumFunctionOnSet, a fold, computes for a finite  *)
(* set of integers.                                                        *)
(***************************************************************************)
EXTENDS Integers, Sublists, Functions, FiniteSetsExt, FiniteSetTheorems, WellFoundedInduction, TLAPS

Below == {ss \in Nat \X Nat : ss[1] < ss[2]}

LEMMA BelowWellFounded == IsWellFoundedOn(Below, Nat)
BY NatLessThanWellFounded DEF OpToRel, Below

\* Max of a bounded, non-empty set is its largest member: the distance to the bound has a minimum.
LEMMA MaxOfBounded == ASSUME NEW S \in SUBSET Nat, NEW n \in Nat, S \subseteq 0..n, S # {}
                      PROVE  Max(S) \in S /\ \A y \in S : Max(S) >= y
<1>. DEFINE T == {n - x : x \in S}
<1>1. T \subseteq Nat /\ T # {}
  <2>1. \A x \in S : x \in Nat /\ x <= n
    OBVIOUS
  <2>2. \A x \in S : n - x \in Nat
    BY <2>1
  <2>. QED  BY <2>2
<1>2. PICK t \in T : \A u \in T : ~(<<u, t>> \in Below)
  <2>. HIDE DEF T
  <2>. QED  BY <1>1, BelowWellFounded, WFMin
<1>3. PICK x \in S : t = n - x
  OBVIOUS
<1>4. ASSUME NEW y \in S PROVE x >= y
  <2>1. x \in Nat /\ y \in Nat /\ n - y \in T /\ n - x \in Nat /\ n - y \in Nat
    BY <1>1
  <2>2. ~(n - y < n - x)
    BY <1>2, <1>3, <2>1 DEF Below
  <2>. QED  BY <2>1, <2>2
<1>. QED
  BY <1>4 DEF Max

\* Min of a non-empty set of naturals is its least member.
LEMMA MinOfNaturals == ASSUME NEW S \in SUBSET Nat, S # {}
                       PROVE  Min(S) \in S /\ \A y \in S : Min(S) <= y
<1>1. PICK x \in S : \A y \in S : ~(<<y, x>> \in Below)
  BY BelowWellFounded, WFMin
<1>2. ASSUME NEW y \in S PROVE x <= y
  <2>1. ~(y < x)
    BY <1>1 DEF Below
  <2>. QED  BY <2>1
<1>. QED  BY <1>2 DEF Min

\* Ahead[i] holds the members before i, in a strict order in which any two members of S compare.
StrictOrder(S, Ahead) ==
  /\ Ahead \in [S -> SUBSET S]
  /\ \A i \in S : i \notin Ahead[i] /\ \A j \in Ahead[i] : Ahead[j] \subseteq Ahead[i]
  /\ \A i, j \in S : i # j => i \in Ahead[j] \/ j \in Ahead[i]

\* Counting what is ahead of each member numbers them 0, 1, 2, ... without a gap.
LEMMA PlacesAreNumbers ==
  ASSUME NEW S, IsFiniteSet(S), NEW Ahead, StrictOrder(S, Ahead)
  PROVE  /\ \A i \in S : Cardinality(Ahead[i]) \in 0 .. (Cardinality(S) - 1)
         /\ \A i, j \in S : j \in Ahead[i] <=> Cardinality(Ahead[j]) < Cardinality(Ahead[i])
         /\ \A i, j \in S : Cardinality(Ahead[i]) = Cardinality(Ahead[j]) => i = j
         /\ \A n \in 0 .. (Cardinality(S) - 1) : \E i \in S : Cardinality(Ahead[i]) = n
<1>. DEFINE n == Cardinality(S) T == 0 .. (n - 1) c == [i \in S |-> Cardinality(Ahead[i])]
<1>0. n \in Nat
  BY FS_CardinalityType
<1>1. ASSUME NEW i \in S PROVE IsFiniteSet(Ahead[i]) /\ c[i] \in T
  <2>1. Ahead[i] \in SUBSET (S \ {i})
    BY DEF StrictOrder
  <2>2. IsFiniteSet(S \ {i}) /\ Cardinality(S \ {i}) = n - 1
    BY FS_RemoveElement
  <2>3. IsFiniteSet(Ahead[i]) /\ Cardinality(Ahead[i]) <= n - 1
    BY <2>1, <2>2, FS_Subset
  <2>4. Cardinality(Ahead[i]) \in Nat
    BY <2>3, FS_CardinalityType
  <2>. QED  BY <1>0, <2>3, <2>4
<1>n. ASSUME NEW i \in S PROVE c[i] \in Nat
  BY <1>0, <1>1
<1>2. ASSUME NEW i \in S, NEW j \in Ahead[i] PROVE c[j] < c[i]
  <2>1. j \in S /\ Ahead[j] \in SUBSET Ahead[i] /\ j \notin Ahead[j]
    BY DEF StrictOrder
  <2>2. Cardinality(Ahead[j]) <= Cardinality(Ahead[i]) /\ Cardinality(Ahead[j]) # Cardinality(Ahead[i])
    BY <1>1, <2>1, FS_Subset
  <2>3. c[j] \in T /\ c[i] \in T
    BY <1>1, <2>1
  <2>. QED  BY <1>0, <2>1, <2>2, <2>3
<1>3. ASSUME NEW i \in S, NEW j \in S, c[i] = c[j] PROVE i = j
  <2>1. c[i] \in Nat /\ c[j] \in Nat
    BY <1>n
  <2>2. CASE i \in Ahead[j]
    <3>1. c[i] < c[j]
      BY <1>2, <2>2
    <3>. HIDE DEF c
    <3>. QED  BY <1>3, <2>1, <3>1
  <2>3. CASE j \in Ahead[i]
    <3>1. c[j] < c[i]
      BY <1>2, <2>3
    <3>. HIDE DEF c
    <3>. QED  BY <1>3, <2>1, <3>1
  <2>. QED  BY <2>2, <2>3 DEF StrictOrder
<1>4. ASSUME NEW i \in S, NEW j \in S, c[j] < c[i] PROVE j \in Ahead[i]
  <2>1. c[i] \in Nat /\ c[j] \in Nat
    BY <1>n
  <2>2. i # j
    <3>. HIDE DEF c
    <3>. QED  BY <1>4, <2>1
  <2>3. CASE i \in Ahead[j]
    <3>1. c[i] < c[j]
      BY <1>2, <2>3
    <3>. HIDE DEF c
    <3>. QED  BY <1>4, <2>1, <3>1
  <2>. QED  BY <2>2, <2>3 DEF StrictOrder
<1>5. c \in Injection(S, T)
  BY <1>1, <1>3 DEF Injection, IsInjective
<1>6. IsFiniteSet(T) /\ Cardinality(T) = n
  BY <1>0, FS_Interval
<1>7. c \in Surjection(S, T)
  <2>. HIDE DEF c, T
  <2>. QED  BY <1>5, <1>6, FS_Injection
<1>8. \A m \in T : \E i \in S : c[i] = m
  BY <1>7 DEF Surjection
<1>. QED  BY <1>1, <1>2, <1>3, <1>4, <1>8

\* The members whose number lies in a window are as many as the window admits.
LEMMA WindowSize ==
  ASSUME NEW S, IsFiniteSet(S), NEW Ahead, StrictOrder(S, Ahead), NEW a \in Nat, NEW l \in Nat \ {0},
         NEW page \in SUBSET S, \A i \in S : i \in page <=> Cardinality(Ahead[i]) \in a .. (a + l - 1)
  PROVE  Cardinality(page) = IF a >= Cardinality(S) THEN 0
                             ELSE IF a + l <= Cardinality(S) THEN l ELSE Cardinality(S) - a
<1>. DEFINE n == Cardinality(S)
            top == IF a + l <= n THEN a + l ELSE n
            c == [i \in page |-> Cardinality(Ahead[i])]
<1>0. n \in Nat /\ top \in Nat
  BY FS_CardinalityType
<1>1. IsFiniteSet(page)
  BY FS_Subset
<1>2. \A i \in page : c[i] \in a .. (top - 1)
  BY <1>0, PlacesAreNumbers
<1>3. \A m \in a .. (top - 1) : \E i \in page : c[i] = m
  <2>. SUFFICES ASSUME NEW m \in a .. (top - 1) PROVE \E i \in page : c[i] = m
    OBVIOUS
  <2>1. m \in 0 .. (n - 1) /\ m \in a .. (a + l - 1)
    BY <1>0
  <2>2. PICK i \in S : Cardinality(Ahead[i]) = m
    BY <2>1, PlacesAreNumbers
  <2>. QED  BY <2>1, <2>2
<1>4. c \in Bijection(page, a .. (top - 1))
  <2>1. \A i, j \in page : c[i] = c[j] => i = j
    BY PlacesAreNumbers
  <2>2. c \in [page -> a .. (top - 1)]
    BY <1>2
  <2>. HIDE DEF c, top
  <2>. QED  BY <1>3, <2>1, <2>2 DEF Bijection, Injection, Surjection, IsInjective
<1>5. Cardinality(a .. (top - 1)) = Cardinality(page)
  <2>. HIDE DEF c, top
  <2>. QED  BY <1>1, <1>4, FS_Bijection DEF ExistsBijection
<1>6. Cardinality(a .. (top - 1)) = IF a > top - 1 THEN 0 ELSE top - 1 - a + 1
  <2>. HIDE DEF top
  <2>. QED  BY <1>0, FS_Interval
<1>. QED  BY <1>0, <1>1, <1>5, <1>6

(***************************************************************************)
(* Sublists: the list comprehensions of the code.                          *)
(***************************************************************************)
\* A list comprehension keeps what is at the places K, each once and in its order.
LEMMA MembersAtPlaces ==
  ASSUME NEW S, NEW s \in Seq(S), NEW K \in SUBSET DOMAIN s
  PROVE  /\ IsFiniteSet(K) /\ Cardinality(K) <= Len(s)
         /\ MembersAt(s, K) \in Seq(S) /\ Len(MembersAt(s, K)) = Cardinality(K)
         /\ \E at \in [DOMAIN MembersAt(s, K) -> K] :
              /\ \A k \in DOMAIN MembersAt(s, K) : MembersAt(s, K)[k] = s[at[k]]
              /\ \A k, l \in DOMAIN MembersAt(s, K) : k < l => at[k] < at[l]
              /\ \A n \in K : \E k \in DOMAIN MembersAt(s, K) : at[k] = n
<1>. DEFINE Ahead == [n \in K |-> {m \in K : m < n}]
            c == Cardinality(K)
            at == [k \in 1..c |-> CHOOSE n \in K : Cardinality({m \in K : m < n}) = k - 1]
<1>1. K \subseteq 1..Len(s) /\ K \subseteq Nat /\ Len(s) \in Nat
  OBVIOUS
<1>2. IsFiniteSet(K) /\ c \in Nat /\ c <= Len(s)
  <2>1. IsFiniteSet(1..Len(s)) /\ Cardinality(1..Len(s)) = Len(s)
    <3>1. \A l \in Nat : IsFiniteSet(1..l) /\ Cardinality(1..l) = l
      BY FS_Interval
    <3>. QED  BY <1>1, <3>1
  <2>. QED  BY <1>1, <2>1, FS_Subset, FS_CardinalityType
<1>3. StrictOrder(K, Ahead)
  BY <1>1 DEF StrictOrder
<1>4. \A k \in 1..c : at[k] \in K /\ Cardinality(Ahead[at[k]]) = k - 1
  <2>. SUFFICES ASSUME NEW k \in 1..c PROVE at[k] \in K /\ Cardinality(Ahead[at[k]]) = k - 1
    OBVIOUS
  <2>1. k - 1 \in 0..(c - 1)
    BY <1>2
  <2>2. \E n \in K : Cardinality(Ahead[n]) = k - 1
    <3>. HIDE DEF Ahead
    <3>. QED  BY <1>2, <1>3, <2>1, PlacesAreNumbers
  <2>3. \E n \in K : Cardinality({m \in K : m < n}) = k - 1
    BY <2>2
  <2>4. at[k] \in K /\ Cardinality({m \in K : m < at[k]}) = k - 1
    <3>1. at[k] = CHOOSE n \in K : Cardinality({m \in K : m < n}) = k - 1
      OBVIOUS
    <3>. HIDE DEF at
    <3>. QED  BY <2>3, <3>1
  <2>. HIDE DEF at
  <2>. QED  BY <2>4
<1>5. at \in [1..c -> K] /\ DOMAIN at = 1..c
  BY <1>4
<1>6. \A k, l \in 1..c : k < l => at[k] < at[l]
  <2>. SUFFICES ASSUME NEW k \in 1..c, NEW l \in 1..c, k < l PROVE at[k] < at[l]
    OBVIOUS
  <2>1. Cardinality(Ahead[at[k]]) < Cardinality(Ahead[at[l]])
    <3>1. Cardinality(Ahead[at[k]]) = k - 1 /\ Cardinality(Ahead[at[l]]) = l - 1
      BY <1>4
    <3>. HIDE DEF Ahead, at
    <3>. QED  BY <1>2, <3>1
  <2>2. at[k] \in Ahead[at[l]]
    <3>. HIDE DEF Ahead, at
    <3>. QED  BY <1>2, <1>3, <1>4, <2>1, PlacesAreNumbers
  <2>3. at[l] \in K
    BY <1>4
  <2>. HIDE DEF at
  <2>. QED  BY <2>2, <2>3
<1>7. \A n \in K : \E k \in 1..c : at[k] = n
  <2>. SUFFICES ASSUME NEW n \in K PROVE \E k \in 1..c : at[k] = n
    OBVIOUS
  <2>1. Cardinality(Ahead[n]) \in 0..(c - 1)
    <3>. HIDE DEF Ahead
    <3>. QED  BY <1>2, <1>3, PlacesAreNumbers
  <2>2. PICK k \in 1..c : k - 1 = Cardinality(Ahead[n])
    <3>. HIDE DEF Ahead
    <3>1. Cardinality(Ahead[n]) + 1 \in 1..c /\ (Cardinality(Ahead[n]) + 1) - 1 = Cardinality(Ahead[n])
      BY <1>2, <2>1
    <3>. QED  BY <3>1
  <2>3. Cardinality(Ahead[at[k]]) = Cardinality(Ahead[n]) /\ at[k] \in K
    BY <1>4, <2>2
  <2>4. at[k] = n
    <3>. HIDE DEF Ahead, at
    <3>. QED  BY <1>2, <1>3, <2>3, PlacesAreNumbers
  <2>. QED  BY <2>4
<1>8. MembersAt(s, K) = [k \in 1..c |-> s[at[k]]]
  BY DEF MembersAt
<1>9. \A k \in 1..c : s[at[k]] \in S
  <2>. HIDE DEF at, Ahead
  <2>1. \A k \in 1..c : at[k] \in 1..Len(s)
    BY <1>1, <1>4
  <2>. QED  BY <2>1
<1>10. MembersAt(s, K) \in Seq(S) /\ Len(MembersAt(s, K)) = c /\ DOMAIN MembersAt(s, K) = 1..c
  <2>. HIDE DEF at, c
  <2>. QED  BY <1>2, <1>8, <1>9
<1>11. \A k \in 1..c : MembersAt(s, K)[k] = s[at[k]]
  <2>. HIDE DEF at, c
  <2>. QED  BY <1>8
<1>. HIDE DEF at, Ahead, c
<1>12. /\ at \in [DOMAIN MembersAt(s, K) -> K]
       /\ \A k \in DOMAIN MembersAt(s, K) : MembersAt(s, K)[k] = s[at[k]]
       /\ \A k, l \in DOMAIN MembersAt(s, K) : k < l => at[k] < at[l]
       /\ \A n \in K : \E k \in DOMAIN MembersAt(s, K) : at[k] = n
  BY <1>5, <1>6, <1>7, <1>10, <1>11
<1>13. c = Cardinality(K)
  BY DEF c
<1>. QED  BY <1>2, <1>10, <1>12, <1>13

\* A function on the places of a list is a list.
LEMMA SeqOver ==
  ASSUME NEW S, NEW s \in Seq(S), NEW T, NEW f \in [DOMAIN s -> T]
  PROVE  f \in Seq(T) /\ Len(f) = Len(s) /\ DOMAIN f = DOMAIN s
OBVIOUS

\* What is where in two lists put together.
LEMMA Joined ==
  ASSUME NEW S, NEW a \in Seq(S), NEW b \in Seq(S)
  PROVE  /\ a \o b \in Seq(S) /\ Len(a \o b) = Len(a) + Len(b) /\ Len(a) \in Nat /\ Len(b) \in Nat
         /\ \A n \in 1..Len(a) : (a \o b)[n] = a[n]
         /\ \A n \in (Len(a) + 1)..Len(a \o b) : (a \o b)[n] = b[n - Len(a)] /\ n - Len(a) \in DOMAIN b
<1>1. a \o b \in Seq(S) /\ Len(a \o b) = Len(a) + Len(b) /\ Len(a) \in Nat /\ Len(b) \in Nat
  OBVIOUS
<1>2. ASSUME NEW n \in 1..Len(a) PROVE (a \o b)[n] = a[n]
  OBVIOUS
<1>3. ASSUME NEW n \in (Len(a) + 1)..Len(a \o b) PROVE (a \o b)[n] = b[n - Len(a)] /\ n - Len(a) \in DOMAIN b
  BY <1>1
<1>. QED  BY <1>1, <1>2, <1>3

\* What is kept was there, and not twice if it was not there twice.
LEMMA FilteredKeeps ==
  ASSUME NEW S, NEW s \in Seq(S), NEW K \in SUBSET DOMAIN s
  PROVE  /\ MembersAt(s, K) \in Seq(S)
         /\ \A k \in DOMAIN MembersAt(s, K) : \E n \in K : MembersAt(s, K)[k] = s[n]
         /\ IsInjective(s) => IsInjective(MembersAt(s, K))
<1>1. PICK at \in [DOMAIN MembersAt(s, K) -> K] :
              /\ \A k \in DOMAIN MembersAt(s, K) : MembersAt(s, K)[k] = s[at[k]]
              /\ \A k, l \in DOMAIN MembersAt(s, K) : k < l => at[k] < at[l]
  BY MembersAtPlaces
<1>2. MembersAt(s, K) \in Seq(S) /\ DOMAIN MembersAt(s, K) \subseteq Nat
  BY MembersAtPlaces
<1>3. ASSUME IsInjective(s), NEW k \in DOMAIN MembersAt(s, K), NEW l \in DOMAIN MembersAt(s, K), MembersAt(s, K)[k] = MembersAt(s, K)[l]
      PROVE k = l
  <2>1. s[at[k]] = s[at[l]] /\ at[k] \in DOMAIN s /\ at[l] \in DOMAIN s
    BY <1>1, <1>3
  <2>2. at[k] = at[l] /\ at[k] \in Nat
    BY <1>3, <2>1 DEF IsInjective
  <2>3. k \in Nat /\ l \in Nat
    BY <1>2
  <2>. QED  BY <1>1, <2>2, <2>3
<1>. QED  BY <1>1, <1>2, <1>3 DEF IsInjective

(***************************************************************************)
(* Sums over finite sets.  The fold that computes them is recursive; its   *)
(* values are found as those of a function on the subsets, by the smallest *)
(* set for which a claim fails.                                            *)
(***************************************************************************)
\* The sums that a fold over the subsets of S computes: one member taken after the other.
Taken(T) == CHOOSE x \in T : TRUE
Sums(v, S, sum) ==
  \A T \in SUBSET S : sum[T] = IF T = {} THEN 0 ELSE v[Taken(T)] + sum[T \ {Taken(T)}]

\* The values that are summed are integers.
Integral(v, S) == \A x \in S : v[x] \in Int

\* T is in Bad, and nothing that lacks one of its members is.
Minimal(T, Bad) == T \in Bad /\ \A x \in T : \A U \in Bad : ~(U \subseteq T \ {x})

\* An argument by the size of finite sets: of the sets of Bad one is smallest.
LEMMA SmallestSet ==
  ASSUME NEW S, IsFiniteSet(S), NEW Bad \in SUBSET SUBSET S, Bad # {}
  PROVE  \E T \in SUBSET S : Minimal(T, Bad)
<1>. DEFINE Sizes == {Cardinality(T) : T \in Bad}
<1>1. \A T \in SUBSET S : IsFiniteSet(T) /\ Cardinality(T) \in Nat
  BY FS_Subset, FS_CardinalityType
<1>2. Sizes \in SUBSET Nat /\ Sizes # {}
  BY <1>1
<1>3. PICK n \in Sizes : \A m \in Sizes : ~(<<m, n>> \in Below)
  <2>. HIDE DEF Sizes
  <2>. QED  BY <1>2, BelowWellFounded, WFMin
<1>4. PICK T \in Bad : n = Cardinality(T)
  OBVIOUS
<1>5. ASSUME NEW x \in T, NEW U \in Bad, U \subseteq T \ {x} PROVE FALSE
  <2>1. IsFiniteSet(T \ {x}) /\ Cardinality(T \ {x}) = Cardinality(T) - 1
    BY <1>1, FS_RemoveElement
  <2>2. Cardinality(U) <= Cardinality(T \ {x}) /\ Cardinality(U) \in Sizes
    BY <1>5, <2>1, FS_Subset
  <2>3. Cardinality(U) \in Nat /\ Cardinality(T) \in Nat
    BY <1>1
  <2>4. ~(Cardinality(U) < Cardinality(T))
    BY <1>3, <1>4, <2>2, <2>3 DEF Below
  <2>. QED  BY <2>1, <2>2, <2>3, <2>4
<1>. QED  BY <1>5 DEF Minimal

LEMMA TakenIsIn == \A T : T # {} => Taken(T) \in T
BY DEF Taken

LEMMA SumsAreIntegers ==
  ASSUME NEW S, IsFiniteSet(S), NEW v, Integral(v, S), NEW sum, Sums(v, S, sum)
  PROVE  \A T \in SUBSET S : sum[T] \in Int
<1>. DEFINE Bad == {T \in SUBSET S : sum[T] \notin Int}
<1>. SUFFICES ASSUME Bad # {} PROVE FALSE
  OBVIOUS
<1>1. PICK T \in SUBSET S : Minimal(T, Bad)
  <2>1. Bad \in SUBSET SUBSET S
    OBVIOUS
  <2>. HIDE DEF Bad
  <2>. QED  BY <2>1, SmallestSet
<1>b. T \in Bad /\ \A U \in Bad : \A x \in T : ~(U \subseteq T \ {x})
  BY <1>1 DEF Minimal
<1>2. T # {}
  <2>1. T = {} => sum[T] = 0
    BY DEF Sums
  <2>2. sum[T] \notin Int
    BY <1>b
  <2>. QED  BY <2>1, <2>2
<1>3. Taken(T) \in T
  BY <1>2, TakenIsIn
<1>4. T \ {Taken(T)} \in SUBSET S /\ T \ {Taken(T)} \notin Bad
  BY <1>b, <1>3
<1>5. sum[T \ {Taken(T)}] \in Int /\ v[Taken(T)] \in Int
  BY <1>3, <1>4 DEF Integral
<1>6. sum[T] = v[Taken(T)] + sum[T \ {Taken(T)}]
  BY <1>2 DEF Sums
<1>7. sum[T] \notin Int
  BY <1>b
<1>. QED  BY <1>5, <1>6, <1>7

\* Whichever member is taken first.
LEMMA SumsTakeAny ==
  ASSUME NEW S, IsFiniteSet(S), NEW v, Integral(v, S), NEW sum, Sums(v, S, sum)
  PROVE  \A T \in SUBSET S : \A x \in T : sum[T] = v[x] + sum[T \ {x}]
<1>. DEFINE Bad == {T \in SUBSET S : \E x \in T : sum[T] # v[x] + sum[T \ {x}]}
<1>. SUFFICES ASSUME Bad # {} PROVE FALSE
  OBVIOUS
<1>1. PICK T \in SUBSET S : Minimal(T, Bad)
  <2>1. Bad \in SUBSET SUBSET S
    OBVIOUS
  <2>. HIDE DEF Bad
  <2>. QED  BY <2>1, SmallestSet
<1>b. T \in Bad /\ \A U \in Bad : \A x \in T : ~(U \subseteq T \ {x})
  BY <1>1 DEF Minimal
<1>2. PICK x \in T : sum[T] # v[x] + sum[T \ {x}]
  BY <1>b
<1>3. Taken(T) \in T
  BY TakenIsIn
<1>. DEFINE t == Taken(T)
<1>4. sum[T] = v[t] + sum[T \ {t}] /\ x # t
  BY <1>2, <1>3 DEF Sums
<1>5. T \ {t} \notin Bad /\ T \ {x} \notin Bad /\ T \ {t} \in SUBSET S /\ T \ {x} \in SUBSET S
  BY <1>b, <1>3
<1>6. sum[T \ {t}] = v[x] + sum[(T \ {t}) \ {x}] /\ sum[T \ {x}] = v[t] + sum[(T \ {x}) \ {t}]
  BY <1>3, <1>4, <1>5
<1>7. (T \ {t}) \ {x} = (T \ {x}) \ {t} /\ (T \ {x}) \ {t} \in SUBSET S
  OBVIOUS
<1>8. v[x] \in Int /\ v[t] \in Int /\ sum[(T \ {x}) \ {t}] \in Int
  BY <1>3, <1>7, SumsAreIntegers DEF Integral
<1>. DEFINE rest == sum[(T \ {x}) \ {t}]
<1>9. sum[T \ {t}] = v[x] + rest /\ sum[T \ {x}] = v[t] + rest /\ rest \in Int
  BY <1>6, <1>7, <1>8
<1>. HIDE DEF rest, t
<1>. QED  BY <1>2, <1>4, <1>8, <1>9

\* There are such sums: of the sets of n members, for n = 0, 1, 2, ...
LEMMA SumsExist ==
  ASSUME NEW S, IsFiniteSet(S), NEW v
  PROVE  \E g : DOMAIN g = SUBSET S /\ Sums(v, S, g)
<1>. DEFINE Upto(n) == {T \in SUBSET S : Cardinality(T) <= n}
            Good(n) == \E g : DOMAIN g = Upto(n) /\ \A T \in Upto(n) : g[T] = IF T = {} THEN 0 ELSE v[Taken(T)] + g[T \ {Taken(T)}]
            Bad == {n \in Nat : ~Good(n)}
<1>1. \A T \in SUBSET S : IsFiniteSet(T) /\ Cardinality(T) \in Nat
  BY FS_Subset, FS_CardinalityType
<1>2. \A T \in SUBSET S : \A x \in T : Cardinality(T \ {x}) = Cardinality(T) - 1
  BY <1>1, FS_RemoveElement
<1>3. Bad = {}
  <2>. SUFFICES ASSUME Bad # {} PROVE FALSE
    OBVIOUS
  <2>1. PICK n \in Bad : \A m \in Bad : ~(<<m, n>> \in Below)
    <3>1. Bad \in SUBSET Nat
      OBVIOUS
    <3>. HIDE DEF Bad
    <3>. QED  BY <3>1, BelowWellFounded, WFMin
  <2>2. CASE n = 0
    <3>1. \A T \in Upto(0) : T = {}
      <4>1. \A T \in SUBSET S : Cardinality(T) = 0 => T = {}
        BY <1>1, FS_EmptySet
      <4>. QED  BY <1>1, <4>1
    <3>2. Good(0)
      <4>. DEFINE g == [T \in Upto(0) |-> 0]
      <4>1. DOMAIN g = Upto(0) /\ \A T \in Upto(0) : g[T] = IF T = {} THEN 0 ELSE v[Taken(T)] + g[T \ {Taken(T)}]
        BY <3>1
      <4>. QED  BY <4>1
    <3>. QED  BY <2>2, <3>2
  <2>3. CASE n > 0
    <3>1. n - 1 \in Nat /\ n - 1 < n /\ n \in Nat
      BY <2>3
    <3>2. Good(n - 1)
      BY <2>1, <3>1 DEF Below
    <3>3. PICK h : DOMAIN h = Upto(n - 1) /\ \A T \in Upto(n - 1) : h[T] = IF T = {} THEN 0 ELSE v[Taken(T)] + h[T \ {Taken(T)}]
      BY <3>2
    <3>. DEFINE g == [T \in Upto(n) |-> IF T = {} THEN 0 ELSE v[Taken(T)] + h[T \ {Taken(T)}]]
    <3>4. ASSUME NEW T \in Upto(n), T # {} PROVE T \ {Taken(T)} \in Upto(n - 1) /\ T \ {Taken(T)} \in Upto(n)
      <4>1. Taken(T) \in T
        BY <3>4, TakenIsIn
      <4>2. Cardinality(T) \in Nat /\ Cardinality(T) <= n /\ Cardinality(T \ {Taken(T)}) = Cardinality(T) - 1
        BY <1>1, <1>2, <4>1
      <4>. QED  BY <3>1, <4>2
    <3>5. \A T \in Upto(n) : T # {} => g[T \ {Taken(T)}] = h[T \ {Taken(T)}]
      BY <3>3, <3>4
    <3>6. DOMAIN g = Upto(n) /\ \A T \in Upto(n) : g[T] = IF T = {} THEN 0 ELSE v[Taken(T)] + g[T \ {Taken(T)}]
      BY <3>5
    <3>7. Good(n)
      <4>. HIDE DEF g, Upto
      <4>. QED  BY <3>6
    <3>. QED  BY <3>7
  <2>. QED  BY <2>2, <2>3
<1>4. Upto(Cardinality(S)) = SUBSET S
  <2>1. \A T \in SUBSET S : Cardinality(T) <= Cardinality(S)
    BY FS_Subset
  <2>. QED  BY <2>1
<1>5. Good(Cardinality(S))
  <2>1. Cardinality(S) \in Nat
    BY FS_CardinalityType
  <2>. HIDE DEF Good
  <2>. QED  BY <1>3, <2>1
<1>. QED  BY <1>4, <1>5 DEF Sums

\* The fold of the community modules computes them.
LEMMA SumIsFold ==
  ASSUME NEW S, IsFiniteSet(S), NEW v
  PROVE  \E sum : Sums(v, S, sum) /\ SumFunctionOnSet(v, S) = sum[S]
<1>. DEFINE iter == CHOOSE f : f = [s \in SUBSET S |-> IF s = {} THEN 0 ELSE v[CHOOSE x \in s : TRUE] + f[s \ {CHOOSE x \in s : TRUE}]]
<1>1. SumFunctionOnSet(v, S) = iter[S]
  BY Zenon DEF SumFunctionOnSet, FoldFunctionOnSet, MapThenFoldSet
<1>2. PICK h : DOMAIN h = SUBSET S /\ Sums(v, S, h)
  BY SumsExist
<1>d. PICK g : g = [s \in SUBSET S |-> h[s]]
  OBVIOUS
<1>5. Sums(v, S, g)
  BY <1>2, <1>d, TakenIsIn DEF Sums
<1>6. g = [s \in SUBSET S |-> IF s = {} THEN 0 ELSE v[CHOOSE x \in s : TRUE] + g[s \ {CHOOSE x \in s : TRUE}]]
  BY <1>d, <1>5 DEF Sums, Taken
<1>3. iter = [s \in SUBSET S |-> IF s = {} THEN 0 ELSE v[CHOOSE x \in s : TRUE] + iter[s \ {CHOOSE x \in s : TRUE}]]
  BY <1>6, Zenon
<1>4. Sums(v, S, iter)
  <2>. HIDE DEF iter
  <2>. QED BY <1>3 DEF Sums, Taken
<1>. QED  BY <1>1, <1>4

\* They are determined.
LEMMA SumsAreOne ==
  ASSUME NEW S, IsFiniteSet(S), NEW v, NEW f, Sums(v, S, f), NEW g, Sums(v, S, g)
  PROVE  f[S] = g[S]
<1>. DEFINE Bad == {T \in SUBSET S : f[T] # g[T]}
<1>. SUFFICES ASSUME Bad # {} PROVE FALSE
  OBVIOUS
<1>1. PICK T \in SUBSET S : Minimal(T, Bad)
  <2>1. Bad \in SUBSET SUBSET S
    OBVIOUS
  <2>. HIDE DEF Bad
  <2>. QED  BY <2>1, SmallestSet
<1>b. T \in Bad /\ \A U \in Bad : \A x \in T : ~(U \subseteq T \ {x})
  BY <1>1 DEF Minimal
<1>2. T # {}
  BY <1>b DEF Sums
<1>3. Taken(T) \in T
  BY <1>2, TakenIsIn
<1>4. f[T \ {Taken(T)}] = g[T \ {Taken(T)}]
  BY <1>b, <1>3
<1>. QED  BY <1>b, <1>2, <1>4 DEF Sums

\* What a sum is, one member at a time.
LEMMA SumSteps ==
  ASSUME NEW S, IsFiniteSet(S), NEW v, Integral(v, S)
  PROVE  /\ SumFunctionOnSet(v, S) \in Int
         /\ S = {} => SumFunctionOnSet(v, S) = 0
         /\ \A x \in S : SumFunctionOnSet(v, S) = v[x] + SumFunctionOnSet(v, S \ {x})
<1>1. PICK sum : Sums(v, S, sum) /\ SumFunctionOnSet(v, S) = sum[S]
  BY SumIsFold
<1>2. ASSUME NEW x \in S PROVE SumFunctionOnSet(v, S) = v[x] + SumFunctionOnSet(v, S \ {x})
  <2>1. IsFiniteSet(S \ {x})
    BY FS_RemoveElement
  <2>2. PICK less : Sums(v, S \ {x}, less) /\ SumFunctionOnSet(v, S \ {x}) = less[S \ {x}]
    BY <2>1, SumIsFold
  <2>3. Sums(v, S \ {x}, sum)
    BY <1>1 DEF Sums
  <2>4. less[S \ {x}] = sum[S \ {x}]
    BY <2>1, <2>2, <2>3, SumsAreOne
  <2>5. sum[S] = v[x] + sum[S \ {x}]
    BY <1>1, SumsTakeAny
  <2>. QED  BY <1>1, <2>2, <2>4, <2>5
<1>3. sum[S] \in Int
  BY <1>1, SumsAreIntegers
<1>4. S = {} => sum[S] = 0
  BY <1>1 DEF Sums
<1>. QED  BY <1>1, <1>2, <1>3, <1>4

\* b pairs the members of S with those of R, each with one of the same value.
Pairs(b, v, S, w, R) ==
  /\ IsFiniteSet(S) /\ IsFiniteSet(R) /\ Integral(v, S) /\ Integral(w, R)
  /\ b \in [S -> R] /\ \A x \in S : w[b[x]] = v[x]
  /\ \A x, y \in S : b[x] = b[y] => x = y
  /\ \A z \in R : \E x \in S : b[x] = z

\* Sums over two sets whose members pair off are equal.
LEMMA SumsMatch ==
  ASSUME NEW b, NEW v, NEW S, NEW w, NEW R, Pairs(b, v, S, w, R)
  PROVE  SumFunctionOnSet(v, S) = SumFunctionOnSet(w, R)
<1>p. /\ IsFiniteSet(S) /\ IsFiniteSet(R) /\ Integral(v, S) /\ Integral(w, R)
      /\ b \in [S -> R] /\ \A x \in S : w[b[x]] = v[x]
      /\ \A x, y \in S : b[x] = b[y] => x = y
      /\ \A z \in R : \E x \in S : b[x] = z
  BY DEF Pairs
<1>1. PICK f : Sums(v, S, f) /\ SumFunctionOnSet(v, S) = f[S]
  BY <1>p, SumIsFold
<1>2. PICK g : Sums(w, R, g) /\ SumFunctionOnSet(w, R) = g[R]
  BY <1>p, SumIsFold
<1>. DEFINE Image(T) == {b[x] : x \in T}
            Bad == {T \in SUBSET S : f[T] # g[Image(T)]}
<1>3. Bad = {}
  <2>. SUFFICES ASSUME Bad # {} PROVE FALSE
    OBVIOUS
  <2>1. PICK T \in SUBSET S : Minimal(T, Bad)
    <3>1. Bad \in SUBSET SUBSET S
      OBVIOUS
    <3>. HIDE DEF Bad
    <3>. QED  BY <1>p, <3>1, SmallestSet
  <2>2. T \in Bad /\ \A U \in Bad : \A x \in T : ~(U \subseteq T \ {x})
    BY <2>1 DEF Minimal
  <2>3. T # {}
    <3>1. f[{}] = 0 /\ g[{}] = 0 /\ Image({}) = {}
      BY <1>1, <1>2 DEF Sums
    <3>. QED  BY <2>2, <3>1
  <2>4. PICK x \in T : TRUE
    BY <2>3
  <2>5. T \ {x} \in SUBSET S /\ T \ {x} \notin Bad
    BY <2>2
  <2>6. f[T \ {x}] = g[Image(T \ {x})]
    BY <2>5
  <2>7. Image(T \ {x}) = Image(T) \ {b[x]} /\ b[x] \in Image(T) /\ Image(T) \in SUBSET R
    <3>1. \A y \in T : b[y] = b[x] => y = x
      BY <1>p
    <3>. QED  BY <1>p, <3>1
  <2>8. f[T] = v[x] + f[T \ {x}]
    BY <1>1, <1>p, SumsTakeAny
  <2>9. g[Image(T)] = w[b[x]] + g[Image(T) \ {b[x]}]
    <3>. HIDE DEF Image
    <3>. QED  BY <1>2, <1>p, <2>7, SumsTakeAny
  <2>10. f[T] # g[Image(T)]
    BY <2>2
  <2>11. w[b[x]] = v[x]
    BY <1>p
  <2>. HIDE DEF Image
  <2>. QED  BY <2>6, <2>7, <2>8, <2>9, <2>10, <2>11
<1>4. Image(S) = R
  BY <1>p
<1>5. S \notin Bad
  BY <1>3
<1>. QED  BY <1>1, <1>2, <1>4, <1>5
=============================================================================
