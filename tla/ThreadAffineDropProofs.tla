----------------------- MODULE ThreadAffineDropProofs -----------------------
(***************************************************************************)
(* Proofs about ThreadAffineDrop, for every crate, any set of types (also  *)
(* an infinite one: generic types may expand forever) and any limits.      *)
(***************************************************************************)
EXTENDS ThreadAffineDrop, SequenceTheorems, FiniteSetTheorems, WellFoundedInduction, TLAPS

-----------------------------------------------------------------------------
(***************************************************************************)
(* Numbers, induction and recursion, over sets instead of predicates.      *)
(***************************************************************************)
\* A nonempty set of numbers has a least element.
LEMMA LeastNat ==
  ASSUME NEW S \in SUBSET Nat, S # {}
  PROVE  \E x \in S : \A y \in S : x <= y
<1> DEFINE R == {ss \in Nat \X Nat : ss[1] < ss[2]}
<1>1. IsWellFoundedOn(R, Nat)
  BY NatLessThanWellFounded DEF OpToRel
<1>2. \A x, y \in Nat : <<y, x>> \in R <=> y < x
  OBVIOUS
<1> HIDE DEF R
<1>3. PICK x \in S : \A y \in S : ~ (<<y, x>> \in R)
  BY <1>1, WFMin
<1>4. \A y \in S : ~ (y < x)
  BY <1>3, <1>2, Zenon
<1>5. \A y \in S : x <= y
  BY <1>4
<1>6. QED
  BY <1>5

\* A set with zero that contains the successor of each of its numbers.
LEMMA Induction ==
  ASSUME NEW S, 0 \in S, \A n \in Nat : n \in S => n + 1 \in S
  PROVE  \A n \in Nat : n \in S
<1> DEFINE Missing == Nat \ S
<1> SUFFICES ASSUME Missing # {} PROVE FALSE
  OBVIOUS
<1>1. PICK n \in Missing : \A m \in Missing : n <= m
  BY LeastNat
<1>2. n # 0
  OBVIOUS
<1>3. n - 1 \in Nat /\ n - 1 \notin Missing
  BY <1>1, <1>2
<1>4. n - 1 \in S
  BY <1>3
<1>5. (n - 1) + 1 \in S
  BY <1>3, <1>4
<1>6. QED
  BY <1>5

\* The first and the last of a nonempty set of positions.
LEMMA MinOfPositions ==
  ASSUME NEW n \in Nat, NEW S \in SUBSET (1..n), S # {}
  PROVE  Min(S) \in S /\ \A i \in S : Min(S) <= i
<1>1. \E x \in S : \A y \in S : x <= y
  BY LeastNat
<1>2. QED
  BY <1>1 DEF Min

LEMMA MaxOfPositions ==
  ASSUME NEW n \in Nat, NEW S \in SUBSET (1..n), S # {}
  PROVE  Max(S) \in S /\ \A i \in S : i <= Max(S)
<1> DEFINE Rest == {n - i : i \in S}
<1>a. Rest \in SUBSET Nat /\ Rest # {}
  <2>1. \A i \in S : n - i \in Nat
    OBVIOUS
  <2>2. QED
    BY <2>1
<1>1. PICK r \in Rest : \A q \in Rest : r <= q
  <2> HIDE DEF Rest
  <2> QED
    BY <1>a, LeastNat
<1>2. PICK x \in S : r = n - x
  BY <1>1
<1>3. \A y \in S : x >= y
  <2> TAKE y \in S
  <2>1. n - y \in Rest
    OBVIOUS
  <2>2. QED
    BY <2>1, <1>1, <1>2
<1>4. QED
  BY <1>3 DEF Max

\* A function from each state to the next can be iterated.
LEMMA Iteration ==
  ASSUME NEW V, NEW start \in V, NEW F \in [V -> V]
  PROVE  \E g \in [Nat -> V] : g[0] = start /\ \A n \in Nat : g[n + 1] = F[g[n]]
<1> DEFINE Begins(n) == {h \in [0..n -> V] : /\ h[0] = start
                                             /\ \A i \in 0..(n - 1) : h[i + 1] = F[h[i]]}
<1>1. \A n \in Nat : n \in {m \in Nat : Begins(m) # {}}
  <2> DEFINE S == {m \in Nat : Begins(m) # {}}
  <2>1. 0 \in S
    <3>1. [i \in 0..0 |-> start] \in Begins(0)
      OBVIOUS
    <3>2. QED
      BY <3>1
  <2>2. ASSUME NEW n \in Nat, n \in S PROVE n + 1 \in S
    <3>1. PICK h : h \in Begins(n)
      BY <2>2
    <3> DEFINE k == [i \in 0..(n + 1) |-> IF i = n + 1 THEN F[h[n]] ELSE h[i]]
    <3>2. k \in [0..(n + 1) -> V]
      BY <3>1
    <3>3. k[0] = start
      BY <3>1
    <3>4. \A i \in 0..((n + 1) - 1) : k[i + 1] = F[k[i]]
      BY <3>1
    <3> HIDE DEF k
    <3>5. k \in Begins(n + 1)
      BY <3>2, <3>3, <3>4
    <3> HIDE DEF Begins
    <3>6. QED
      BY <3>5
  <2>3. \A n \in Nat : n \in S
    <3> HIDE DEF S
    <3> QED
      BY <2>1, <2>2, Induction
  <2>4. QED
    BY <2>3
<1>2. \A n \in Nat : \A h \in Begins(n) : \A m \in Nat : \A k \in Begins(m) :
        \A i \in Nat : i <= n /\ i <= m => h[i] = k[i]
  <2> SUFFICES ASSUME NEW n \in Nat, NEW h \in Begins(n), NEW m \in Nat, NEW k \in Begins(m)
               PROVE  \A i \in Nat : i <= n /\ i <= m => h[i] = k[i]
    OBVIOUS
  <2> DEFINE S == {i \in Nat : i <= n /\ i <= m => h[i] = k[i]}
  <2>1. 0 \in S
    OBVIOUS
  <2>2. \A i \in Nat : i \in S => i + 1 \in S
    <3> SUFFICES ASSUME NEW i \in Nat, i \in S, i + 1 <= n, i + 1 <= m
                 PROVE  h[i + 1] = k[i + 1]
      OBVIOUS
    <3>1. h[i] = k[i]
      OBVIOUS
    <3>2. h[i + 1] = F[h[i]] /\ k[i + 1] = F[k[i]]
      OBVIOUS
    <3>3. QED
      BY <3>1, <3>2
  <2>3. \A i \in Nat : i \in S
    <3> HIDE DEF S
    <3> QED
      BY <2>1, <2>2, Induction
  <2>4. QED
    BY <2>3
<1> DEFINE Begin(n) == CHOOSE h : h \in Begins(n)
           g == [n \in Nat |-> Begin(n)[n]]
<1>3. \A n \in Nat : Begin(n) \in Begins(n)
  <2> TAKE n \in Nat
  <2>1. Begins(n) # {}
    BY <1>1
  <2> HIDE DEF Begins
  <2>2. QED
    BY <2>1
<1>4. \A n \in Nat : g[n] = Begin(n)[n]
  OBVIOUS
<1> HIDE DEF Begin, g
<1>5. g \in [Nat -> V]
  <2>1. \A n \in Nat : Begin(n)[n] \in V
    BY <1>3
  <2>2. QED
    BY <2>1 DEF g
<1>6. g[0] = start
  BY <1>3, <1>4
<1>7. \A n \in Nat : g[n + 1] = F[g[n]]
  <2> TAKE n \in Nat
  <2>1. Begin(n + 1)[n + 1] = F[Begin(n + 1)[n]]
    <3>1. Begin(n + 1) \in Begins(n + 1)
      BY <1>3
    <3>2. n \in 0..((n + 1) - 1)
      OBVIOUS
    <3>3. QED
      BY <3>1, <3>2
  <2>2. Begin(n + 1)[n] = Begin(n)[n]
    <3>1. Begin(n + 1) \in Begins(n + 1) /\ Begin(n) \in Begins(n)
      BY <1>3
    <3> HIDE DEF Begins
    <3>2. QED
      BY <3>1, <1>2
  <2>3. QED
    BY <2>1, <2>2, <1>4
<1>8. QED
  BY <1>5, <1>6, <1>7

-----------------------------------------------------------------------------
(***************************************************************************)
(* Ownership: what is within a number of edges.                            *)
(***************************************************************************)
LEMMA CrateTypes ==
  ASSUME crate \in Crates
  PROVE  /\ crate.self \in Local /\ crate.fields \in Seq(Types)
         /\ crate.kind \in [Types -> Kinds] /\ crate.owns \in [Types -> Seq(Types)]
         /\ crate.attributes \in [Local -> Seq(Attributes)]
         /\ crate.consts \in [Local -> Seq(Reasons \union {"computed"})]
         /\ crate.external \in Seq([path: Adts, reason: Reasons])
BY CratesAssumption DEF CratesAssumption

LEMMA DropsAreTypes ==
  ASSUME crate \in Crates, NEW t \in Types
  PROVE  Drops(t) \subseteq Types
<1>1. crate.owns[t] \in Seq(Types)
  BY CrateTypes
<1>2. QED
  BY <1>1 DEF Drops

Beyond(level) == level \union UNION {Drops(t) : t \in {u \in level : ~Affine(u)}}

LEMMA Levels ==
  ASSUME crate \in Crates, NEW type \in Types
  PROVE  /\ Within(type, 0) = {type}
         /\ \A d \in Nat : Within(type, d + 1) = Beyond(Within(type, d))
         /\ \A d \in Nat : Within(type, d) \subseteq Types
<1> DEFINE F == [level \in SUBSET Types |-> Beyond(level)]
           IsLevel(f) == f = [d \in Nat |-> IF d = 0 THEN {type} ELSE Beyond(f[d - 1])]
           Level == CHOOSE f : IsLevel(f)
<1>1. F \in [SUBSET Types -> SUBSET Types]
  <2>1. \A level \in SUBSET Types : Beyond(level) \in SUBSET Types
    BY DropsAreTypes DEF Beyond
  <2>2. QED
    BY <2>1
<1>2. \A level \in SUBSET Types : F[level] = Beyond(level)
  OBVIOUS
<1>3. PICK g \in [Nat -> SUBSET Types] : g[0] = {type} /\ \A n \in Nat : g[n + 1] = F[g[n]]
  <2> DEFINE V == SUBSET Types
             start == {type}
  <2>1. F \in [V -> V] /\ start \in V
    BY <1>1
  <2>2. \E g \in [Nat -> V] : g[0] = start /\ \A n \in Nat : g[n + 1] = F[g[n]]
    <3> HIDE DEF F, V, start
    <3> QED
      BY <2>1, Iteration
  <2> HIDE DEF F
  <2>3. QED
    BY <2>2
<1>4. IsLevel(g)
  <2>1. g = [d \in Nat |-> g[d]]
    BY <1>3
  <2>2. \A d \in Nat : g[d] = IF d = 0 THEN {type} ELSE Beyond(g[d - 1])
    <3> SUFFICES ASSUME NEW d \in Nat, d # 0 PROVE g[d] = Beyond(g[d - 1])
      BY <1>3
    <3>1. d - 1 \in Nat /\ (d - 1) + 1 = d
      OBVIOUS
    <3>2. g[d] = F[g[d - 1]]
      BY <3>1, <1>3
    <3>3. g[d - 1] \in SUBSET Types
      BY <3>1, <1>3
    <3>4. QED
      BY <3>2, <3>3, <1>2
  <2> HIDE DEF F
  <2>3. QED
    BY <2>1, <2>2
<1>5. \A f : IsLevel(f) => \A d \in Nat : f[d] = IF d = 0 THEN {type} ELSE Beyond(f[d - 1])
  OBVIOUS
<1> HIDE DEF F
<1>6. IsLevel(Level)
  <2> HIDE DEF IsLevel
  <2> QED
    BY <1>4
<1>7. \A d \in Nat : Within(type, d) = Level[d]
  BY DEF Within, Beyond
<1>8. \A d \in Nat : Level[d] = IF d = 0 THEN {type} ELSE Beyond(Level[d - 1])
  <2> HIDE DEF IsLevel, Level
  <2> QED
    BY <1>6, <1>5
<1> HIDE DEF Level, IsLevel
<1>9. \A d \in Nat : Level[d + 1] = Beyond(Level[d])
  <2> TAKE d \in Nat
  <2>1. d + 1 \in Nat /\ d + 1 # 0 /\ (d + 1) - 1 = d
    OBVIOUS
  <2>2. QED
    BY <2>1, <1>8
<1>10. Within(type, 0) = {type}
  BY <1>7, <1>8
<1>11. \A d \in Nat : Within(type, d + 1) = Beyond(Within(type, d))
  BY <1>7, <1>9
<1>12. \A d \in Nat : Within(type, d) \subseteq Types
  <2> DEFINE S == {d \in Nat : Within(type, d) \subseteq Types}
  <2>1. 0 \in S
    BY <1>10
  <2>2. \A d \in Nat : d \in S => d + 1 \in S
    <3> SUFFICES ASSUME NEW d \in Nat, Within(type, d) \subseteq Types
                 PROVE  Within(type, d + 1) \subseteq Types
      OBVIOUS
    <3>1. Beyond(Within(type, d)) \subseteq Types
      BY DropsAreTypes DEF Beyond
    <3>2. QED
      BY <3>1, <1>11
  <2>3. \A d \in Nat : d \in S
    <3> HIDE DEF S
    <3> QED
      BY <2>1, <2>2, Induction
  <2>4. QED
    BY <2>3
<1>13. QED
  BY <1>10, <1>11, <1>12

\* More edges reach more.
LEMMA WithinGrows ==
  ASSUME crate \in Crates, NEW type \in Types, NEW d \in Nat, NEW e \in Nat, d <= e
  PROVE  Within(type, d) \subseteq Within(type, e)
<1> DEFINE S == {n \in Nat : Within(type, d) \subseteq Within(type, d + n)}
<1>1. 0 \in S
  OBVIOUS
<1>2. \A n \in Nat : n \in S => n + 1 \in S
  <2> TAKE n \in Nat
  <2>1. Within(type, (d + n) + 1) = Beyond(Within(type, d + n))
    BY Levels
  <2>2. d + (n + 1) = (d + n) + 1
    OBVIOUS
  <2>3. Within(type, d + n) \subseteq Within(type, d + (n + 1))
    BY <2>1, <2>2 DEF Beyond
  <2>4. QED
    BY <2>3
<1>3. \A n \in Nat : n \in S
  <2> HIDE DEF S
  <2> QED
    BY <1>1, <1>2, Induction
<1>4. e - d \in S /\ d + (e - d) = e
  BY <1>3
<1>5. QED
  BY <1>4

\* A set that contains the type and, of its members nearer than d, all they
\* drop, contains everything within d.
LEMMA ClosedContains ==
  ASSUME crate \in Crates, NEW type \in Types, NEW V, NEW d \in Nat, type \in V,
         \A e \in Nat : e < d =>
           \A t \in Within(type, e) : t \in V /\ ~Affine(t) => Drops(t) \subseteq V
  PROVE  Within(type, d) \subseteq V
<1> DEFINE S == {e \in Nat : e <= d => Within(type, e) \subseteq V}
<1>1. 0 \in S
  BY Levels
<1>2. \A e \in Nat : e \in S => e + 1 \in S
  <2> SUFFICES ASSUME NEW e \in Nat, e + 1 <= d, Within(type, e) \subseteq V
               PROVE  Within(type, e + 1) \subseteq V
    OBVIOUS
  <2>1. Within(type, e + 1) = Beyond(Within(type, e))
    BY Levels
  <2>2. \A t \in Within(type, e) : ~Affine(t) => Drops(t) \subseteq V
    OBVIOUS
  <2>3. QED
    BY <2>1, <2>2 DEF Beyond
<1>3. \A e \in Nat : e \in S
  <2> HIDE DEF S
  <2> QED
    BY <1>1, <1>2, Induction
<1>4. QED
  BY <1>3

-----------------------------------------------------------------------------
(***************************************************************************)
(* Contracts: what the lint finds is what the source declares.             *)
(***************************************************************************)
\* From the expansion of the attributes on.
Expanded ==
  /\ \A adt \in Local : \A i \in DOMAIN crate.attributes[adt] : Accepted(crate.attributes[adt][i])
  /\ consts = [adt \in Local |-> thread_affine_drop(adt)]

LEMMA ItemOfSeq ==
  ASSUME NEW S, NEW s \in Seq(S), NEW i \in DOMAIN s
  PROVE  s[i] \in S
OBVIOUS

LEMMA NotNothing ==
  ASSUME NEW p, NEW r
  PROVE  [path |-> p, reason |-> r] # Nothing
<1>1. "path" \in DOMAIN [path |-> p, reason |-> r]
  OBVIOUS
<1>2. "path" \notin DOMAIN Nothing
  BY DEF Nothing
<1>3. QED
  BY <1>1, <1>2

LEMMA Markers ==
  ASSUME crate \in Crates, NEW adt \in Local,
         \A i \in DOMAIN crate.attributes[adt] : Accepted(crate.attributes[adt][i])
  PROVE  thread_affine_drop(adt) \in Seq(Reasons \union {"computed"})
<1> DEFINE A == crate.attributes[adt]
           C == crate.consts[adt]
           R == [i \in DOMAIN A |-> A[i].reason]
<1>1. A \in Seq(Attributes) /\ C \in Seq(Reasons \union {"computed"})
  BY CrateTypes
<1>2. \A i \in DOMAIN A : A[i].reason \in Reasons
  <2> TAKE i \in DOMAIN A
  <2>1. A[i] \in Attributes /\ Accepted(A[i])
    BY <1>1
  <2>2. QED
    BY <2>1 DEF Attributes, Accepted
<1>3. R \in Seq(Reasons \union {"computed"})
  <2>1. DOMAIN A = 1..Len(A) /\ Len(A) \in Nat
    BY <1>1
  <2> HIDE DEF A
  <2>2. QED
    BY <1>2, <2>1
<1>4. thread_affine_drop(adt) = R \o C
  BY DEF thread_affine_drop
<1> HIDE DEF R, C
<1>5. QED
  BY <1>1, <1>3, <1>4

LEMMA LocalContract ==
  ASSUME crate \in Crates, Expanded, NEW adt \in Local
  PROVE  /\ local_contract(adt) # Nothing <=> DeclaredReason(adt) # {}
         /\ local_contract(adt) # Nothing =>
              /\ local_contract(adt).path = adt
              /\ local_contract(adt).reason \in DeclaredReason(adt) \intersect Reasons
<1> DEFINE A == crate.attributes[adt]
           C == crate.consts[adt]
           R == [i \in DOMAIN A |-> A[i].reason]
           M == thread_affine_drop(adt)
<1>1. A \in Seq(Attributes) /\ C \in Seq(Reasons \union {"computed"})
  BY CrateTypes
<1>2. consts[adt] = M /\ M = R \o C
  BY DEF Expanded, thread_affine_drop
<1>3. M \in Seq(Reasons \union {"computed"})
  BY Markers DEF Expanded
<1>4. /\ local_contract(adt) # Nothing <=> Literals(M) # {}
      /\ Literals(M) # {} => local_contract(adt) = [path |-> adt, reason |-> M[Min(Literals(M))]]
  BY <1>2, NotNothing DEF local_contract
<1>5. Literals(M) # {} =>
        /\ Min(Literals(M)) \in Literals(M)
        /\ \A i \in Literals(M) : Min(Literals(M)) <= i
        /\ M[Min(Literals(M))] \in Reasons
  <2>1. Literals(M) \in SUBSET (1..Len(M)) /\ Len(M) \in Nat
    BY <1>3 DEF Literals
  <2> SUFFICES ASSUME Literals(M) # {}
               PROVE  /\ Min(Literals(M)) \in Literals(M)
                      /\ \A i \in Literals(M) : Min(Literals(M)) <= i
                      /\ M[Min(Literals(M))] \in Reasons
    OBVIOUS
  <2>2. Min(Literals(M)) \in Literals(M) /\ \A i \in Literals(M) : Min(Literals(M)) <= i
    <3> HIDE DEF M
    <3> QED
      BY <2>1, MinOfPositions
  <2>3. M[Min(Literals(M))] \in Reasons
    <3> HIDE DEF M
    <3> QED
      BY <2>1, <2>2, <1>3 DEF Literals
  <2>4. QED
    BY <2>2, <2>3
<1>6. CASE A = <<>>
  <2>1. M = C
    <3>1. R = <<>>
      BY <1>6
    <3> HIDE DEF R, C
    <3>2. QED
      BY <3>1, <1>1, <1>2
  <2>2. DeclaredReason(adt) = IF Literals(C) # {} THEN {C[Min(Literals(C))]} ELSE {}
    BY <1>6 DEF DeclaredReason
  <2> HIDE DEF M, C
  <2>3. QED
    BY <2>1, <2>2, <1>4, <1>5
<1>7. CASE A # <<>>
  <2>1. 1 \in DOMAIN A /\ A[1] \in Attributes
    BY <1>7, <1>1
  <2>2. DeclaredReason(adt) = {A[i].reason : i \in DOMAIN A} /\ DeclaredReason(adt) # {}
    BY <2>1 DEF DeclaredReason
  <2>3. A[1].reason \in Reasons
    <3>1. Accepted(A[1])
      BY <2>1 DEF Expanded
    <3>2. QED
      BY <3>1, <2>1 DEF Accepted, Attributes
  <2>4. M[1] = A[1].reason /\ 1 \in DOMAIN M
    <3>1. R[1] = A[1].reason /\ R \in Seq({A[i].reason : i \in DOMAIN A}) /\ Len(R) >= 1
      <4>1. DOMAIN A = 1..Len(A) /\ Len(A) \in Nat
        BY <1>1
      <4> HIDE DEF A
      <4>2. QED
        BY <2>1, <4>1
    <3> HIDE DEF R, C
    <3>2. QED
      BY <3>1, <1>1, <1>2
  <2>5. 1 \in Literals(M)
    BY <2>3, <2>4, NamesAssumption DEF Literals, NamesAssumption
  <2>6. Min(Literals(M)) = 1
    <3>1. Literals(M) \subseteq 1..Len(M)
      BY <1>3 DEF Literals
    <3> HIDE DEF M
    <3>2. QED
      BY <3>1, <2>5, <1>5
  <2>7. local_contract(adt) = [path |-> adt, reason |-> A[1].reason]
    BY <2>4, <2>5, <2>6, <1>4
  <2> HIDE DEF M
  <2>8. QED
    BY <2>1, <2>2, <2>3, <2>5, <2>7, <1>4
<1>8. QED
  BY <1>6, <1>7

LEMMA ContractIsDeclared ==
  ASSUME crate \in Crates, Expanded, NEW adt \in Adts
  PROVE  /\ contract_for_adt(adt) # Nothing <=> DeclaredReason(adt) # {}
         /\ contract_for_adt(adt) # Nothing =>
              /\ contract_for_adt(adt).path = adt
              /\ contract_for_adt(adt).reason \in DeclaredReason(adt) \intersect Reasons
<1>1. CASE adt \in Local
  <2>1. contract_for_adt(adt) = local_contract(adt)
    BY <1>1 DEF contract_for_adt
  <2>2. QED
    BY <2>1, <1>1, LocalContract
<1>2. CASE adt \notin Local
  <2> DEFINE E == crate.external
             last == Max(Configured(adt))
  <2>1. E \in Seq([path: Adts, reason: Reasons])
    BY CrateTypes
  <2>2. local_contract(adt) = Nothing
    BY <1>2 DEF local_contract
  <2>3. DeclaredReason(adt) = IF Configured(adt) # {} THEN {E[last].reason} ELSE {}
    BY <1>2 DEF DeclaredReason
  <2>4. Configured(adt) # {} => last \in Configured(adt)
    <3>1. Configured(adt) \in SUBSET (1..Len(E)) /\ Len(E) \in Nat
      BY <2>1 DEF Configured
    <3>2. QED
      BY <3>1, MaxOfPositions
  <2>5. CASE Configured(adt) = {}
    BY <2>2, <2>3, <2>5, <1>2 DEF contract_for_adt, external_contracts
  <2>6. CASE Configured(adt) # {}
    <3>1. last \in DOMAIN E /\ E[last].path = adt
      BY <2>4, <2>6 DEF Configured
    <3>2. E[last] \in [path: Adts, reason: Reasons]
      <4> DEFINE S == [path: Adts, reason: Reasons]
      <4>1. E \in Seq(S)
        BY <2>1
      <4> HIDE DEF S, E, last
      <4>2. E[last] \in S
        BY <4>1, <3>1, ItemOfSeq
      <4>3. QED
        BY <4>2 DEF S
    <3>3. E[last] = [path |-> E[last].path, reason |-> E[last].reason]
      BY <3>2
    <3>4. E[last] # Nothing
      BY <3>3, NotNothing
    <3>5. Name[adt] \in external_type_names
      BY <3>1 DEF external_type_names
    <3>6. contract_for_adt(adt) = E[last]
      BY <2>2, <2>6, <3>5, <1>2 DEF contract_for_adt, external_contracts
    <3>7. QED
      BY <3>1, <3>2, <3>4, <3>6, <2>3, <2>6
  <2>7. QED
    BY <2>5, <2>6
<1>3. QED
  BY <1>1, <1>2

\* A type is found declared exactly if dropping it is bound to a thread.
LEMMA DeclaredIsAffine ==
  ASSUME crate \in Crates, Expanded, NEW t \in Types, crate.kind[t] \notin Boundaries
  PROVE  /\ ContractOf(t) # Nothing <=> Affine(t)
         /\ ContractOf(t) # Nothing =>
              /\ ContractOf(t).path = AdtOf[t]
              /\ ContractOf(t).reason \in DeclaredReason(AdtOf[t]) \intersect Reasons
<1>1. AdtOf[t] \in Adts
  BY NamesAssumption DEF NamesAssumption
<1>2. QED
  BY <1>1, ContractIsDeclared DEF ContractOf, Affine, IsDropped

-----------------------------------------------------------------------------
(***************************************************************************)
(* The inductive invariant of the search.                                  *)
(***************************************************************************)
Searching == pc \in {"search", "edges"}
Start == crate.fields[field]
InQueue(t) == \E i \in DOMAIN queue : queue[i].type = t

\* The control state, and where contracts and hazards stand in it.
Control ==
  /\ crate \in Crates
  /\ pc \notin {"expand", "rejected"} => Expanded
  /\ pc = "expand" => consts = crate.consts
  /\ Searching => field \in DOMAIN crate.fields
  /\ ~Searching => queue = <<>>

\* An entry is at its distance from the field, and its path is one.
Reached(e, from) ==
  /\ e.type \in Within(from, e.depth)
  /\ \A d \in 0..(e.depth - 1) : e.type \notin Within(from, d)
  /\ Leads(from, e.type, e.depth, e.path)

\* The queue is in order of depth, over at most two depths.
InOrder ==
  Searching =>
    /\ Start \in visited
    /\ \A i \in DOMAIN queue : Reached(queue[i], Start) /\ queue[i].type \in visited
    /\ \A i, j \in DOMAIN queue : i <= j => /\ queue[i].depth <= queue[j].depth
                                            /\ queue[j].depth <= queue[i].depth + 1

\* The type being looked into, and which of its parts are not visited yet.
OwnerInv ==
  pc = "edges" =>
    /\ Reached(owner, Start) /\ owner.depth < MaxDepth
    /\ owner.type \in visited /\ ~Affine(owner.type)
    /\ \A i \in DOMAIN queue : owner.depth <= queue[i].depth /\ queue[i].depth <= owner.depth + 1
    /\ \A i \in DOMAIN owned : owned[i] \in Drops(owner.type)
    /\ \A t \in Drops(owner.type) : t \in visited \/ \E i \in DOMAIN owned : owned[i] = t

Popped(t) == t \in visited /\ ~InQueue(t) /\ ~(pc = "edges" /\ t = owner.type)
Inner(t)  == \E d \in 0..(MaxDepth - 1) : t \in Within(Start, d)

\* What has been popped is not declared, and while edges are left nothing has
\* been left out of it.
Settled ==
  Searching => \A t \in visited :
    Popped(t) => /\ ~Affine(t)
                 /\ remaining > 0 /\ Inner(t) => Drops(t) \subseteq visited

\* All that is nearer than a queued type has been visited.
LevelsSeen ==
  Searching =>
    /\ \A i \in DOMAIN queue : \A d \in 0..(queue[i].depth - 1) : Within(Start, d) \subseteq visited
    /\ pc = "edges" => \A d \in 0..owner.depth : Within(Start, d) \subseteq visited

SearchInv == Control /\ TypeOK /\ InOrder /\ OwnerInv /\ Settled /\ LevelsSeen

\* What the properties are about does not change during a run of the lint.
LEMMA Frozen ==
  ASSUME crate' = crate
  PROVE  /\ \A t : Drops(t)' = Drops(t) /\ Affine(t)' = Affine(t)
         /\ \A t, d : Within(t, d)' = Within(t, d)
         /\ \A f, t, l, p : Leads(f, t, l, p)' = Leads(f, t, l, p)
<1>1. \A t : Drops(t)' = Drops(t)
  BY DEF Drops
<1>2. \A a : DeclaredReason(a)' = DeclaredReason(a)
  BY DEF DeclaredReason, Literals, Configured
<1>3. \A t : Affine(t)' = Affine(t)
  BY <1>2 DEF Affine, IsDropped
<1>4. \A t, d : Within(t, d)' = Within(t, d)
  <2> DEFINE IsLevel(f, t) == f = [d \in Nat |-> IF d = 0 THEN {t} ELSE Beyond(f[d - 1])]
  <2>1. \A level : Beyond(level)' = Beyond(level)
    BY <1>1, <1>3 DEF Beyond
  <2>2. \A f, t : IsLevel(f, t)' <=> IsLevel(f, t)
    BY <2>1
  <2>3. \A t, d : Within(t, d) = (CHOOSE f : IsLevel(f, t))[d]
    BY DEF Within, Beyond
  <2>4. \A t, d : Within(t, d)' = (CHOOSE f : IsLevel(f, t)')[d]
    BY DEF Within, Beyond
  <2> HIDE DEF IsLevel
  <2>5. \A t : (CHOOSE f : IsLevel(f, t)') = (CHOOSE f : IsLevel(f, t))
    BY <2>2, Zenon
  <2>6. QED
    BY <2>3, <2>4, <2>5
<1>5. \A f, t, l, p : Leads(f, t, l, p)' = Leads(f, t, l, p)
  BY <1>1 DEF Leads
<1>6. QED
  BY <1>1, <1>3, <1>4, <1>5

LEMMA CrateIsFixed ==
  ASSUME [Next]_vars
  PROVE  crate' = crate
BY DEF Next, vars, ExpandAttributes, RejectAttribute, PassOver, ContractOnSelf, check_item, StartField,
       find_thread_affine_type, StopAtBoundary, FindContract, LeaveUnexplored, ExploreType,
       QueueChild, SkipVisited, TakeEdge, EndOfEdges, FieldIsSilent, NextField, Emit

LEMMA ControlKept ==
  ASSUME Control, [Next]_vars
  PROVE  Control'
<1>1. crate' = crate
  BY CrateIsFixed
<1>2. Expanded /\ consts' = consts => Expanded'
  BY <1>1 DEF Expanded, Accepted, thread_affine_drop
<1> USE DEF Control, Searching
<1>3. CASE ExpandAttributes
  <2>1. Expanded'
    BY <1>1, <1>3 DEF ExpandAttributes, Expanded, Accepted, thread_affine_drop
  <2>2. QED
    BY <2>1, <1>3 DEF ExpandAttributes, search
<1>4. CASE RejectAttribute
  BY <1>4 DEF RejectAttribute, search
<1>5. CASE PassOver
  BY <1>2, <1>5 DEF PassOver, search
<1>6. CASE ContractOnSelf
  BY <1>2, <1>6 DEF ContractOnSelf, search
<1>7. CASE check_item
  BY <1>2, <1>7 DEF check_item, search
<1>8. CASE StartField
  BY <1>2, <1>8 DEF StartField
<1>9. CASE StopAtBoundary
  BY <1>2, <1>9 DEF StopAtBoundary, Popping
<1>10. CASE FindContract
  BY <1>2, <1>10 DEF FindContract, Popping, NextField
<1>11. CASE LeaveUnexplored
  BY <1>2, <1>11 DEF LeaveUnexplored, Popping
<1>12. CASE ExploreType
  BY <1>2, <1>12 DEF ExploreType, Popping
<1>13. CASE TakeEdge
  BY <1>2, <1>13 DEF TakeEdge
<1>14. CASE EndOfEdges
  BY <1>2, <1>14 DEF EndOfEdges, search
<1>15. CASE FieldIsSilent
  BY <1>2, <1>15 DEF FieldIsSilent, NextField
<1>16. CASE Emit
  BY <1>2, <1>16 DEF Emit, search
<1>17. CASE UNCHANGED vars
  BY <1>2, <1>17 DEF vars, search
<1>18. QED
  BY <1>3, <1>4, <1>5, <1>6, <1>7, <1>8, <1>9, <1>10, <1>11, <1>12, <1>13, <1>14, <1>15, <1>16, <1>17
  DEF Next, find_thread_affine_type, QueueChild, SkipVisited

LEMMA HazardIsTyped ==
  ASSUME Control, pc \notin {"expand", "rejected"}, NEW adt \in Adts, contract_for_adt(adt) # Nothing,
         NEW f \in Nat, NEW path \in Seq(Adts)
  PROVE  Hazard(contract_for_adt(adt), f, path)
           \in [path: Adts, reason: Reasons, field: Nat, through: Seq(Adts)]
<1>1. contract_for_adt(adt).path = adt /\ contract_for_adt(adt).reason \in Reasons
  BY ContractIsDeclared DEF Control
<1>2. QED
  BY <1>1 DEF Hazard

\* A sequence without its first element, and one with one more.
LEMMA TailOf ==
  ASSUME NEW S, NEW s \in Seq(S), s # <<>>
  PROVE  /\ Tail(s) \in Seq(S) /\ Head(s) \in S /\ Head(s) = s[1] /\ 1 \in DOMAIN s
         /\ Len(Tail(s)) = Len(s) - 1
         /\ \A i \in DOMAIN Tail(s) : i \in Nat /\ i + 1 \in DOMAIN s /\ Tail(s)[i] = s[i + 1]
         /\ \A i \in DOMAIN s : i = 1 \/ (i - 1 \in DOMAIN Tail(s) /\ Tail(s)[i - 1] = s[i])
OBVIOUS

LEMMA AppendOf ==
  ASSUME NEW S, NEW s \in Seq(S), NEW x \in S
  PROVE  /\ Append(s, x) \in Seq(S)
         /\ \A i \in DOMAIN Append(s, x) : i \in 1..(Len(s) + 1)
         /\ \A i \in DOMAIN s : i \in DOMAIN Append(s, x) /\ Append(s, x)[i] = s[i]
         /\ Len(s) + 1 \in DOMAIN Append(s, x) /\ Append(s, x)[Len(s) + 1] = x
         /\ \A i \in DOMAIN Append(s, x) : i \in DOMAIN s \/ i = Len(s) + 1
OBVIOUS

LEMMA TypesKept ==
  ASSUME Control, TypeOK, pc = "edges" => owner.depth < MaxDepth, [Next]_vars
  PROVE  TypeOK'
<1>1. crate' = crate
  BY CrateIsFixed
<1>2. MaxDepth \in Nat /\ MaxEdges \in Nat
  BY BoundsAssumption DEF BoundsAssumption
<1>3. crate \in Crates /\ crate.fields \in Seq(Types) /\ Len(crate.fields) \in Nat
  BY CrateTypes DEF Control
<1> DEFINE H == [path: Adts, reason: Reasons, field: Nat, through: Seq(Adts)]
<1>4. hazards \in Seq(H) /\ field \in Nat
  BY <1>3 DEF TypeOK
<1>5. CASE ExpandAttributes
  <2>1. \A adt \in Local : thread_affine_drop(adt) \in Seq(Reasons \union {"computed"})
    BY <1>3, <1>5, Markers DEF ExpandAttributes
  <2>2. QED
    BY <1>1, <1>5, <2>1 DEF ExpandAttributes, search, TypeOK
<1>6. CASE RejectAttribute
  BY <1>1, <1>6 DEF RejectAttribute, search, TypeOK
<1>7. CASE PassOver
  BY <1>1, <1>7 DEF PassOver, search, TypeOK
<1>8. CASE ContractOnSelf
  <2>1. crate.self \in Adts
    BY <1>3, CrateTypes, NamesAssumption DEF NamesAssumption
  <2>2. Hazard(contract_for_adt(crate.self), 0, <<>>) \in H
    <3>1. <<>> \in Seq(Adts) /\ 0 \in Nat
      OBVIOUS
    <3>2. contract_for_adt(crate.self) # Nothing /\ pc \notin {"expand", "rejected"}
      BY <1>8 DEF ContractOnSelf
    <3>3. QED
      BY <2>1, <3>1, <3>2, HazardIsTyped
  <2> HIDE DEF H
  <2>3. hazards' \in Seq(H)
    BY <2>2, <1>8 DEF ContractOnSelf
  <2>4. QED
    BY <1>1, <1>8, <2>3 DEF ContractOnSelf, search, TypeOK, H
<1>9. CASE check_item
  BY <1>1, <1>9 DEF check_item, search, TypeOK
<1>10. CASE StartField
  <2> DEFINE e == [type |-> crate.fields[field], depth |-> 0, path |-> <<>>]
  <2>1. crate.fields[field] \in Types
    BY <1>10, <1>3 DEF StartField
  <2>2. e \in Entries
    BY <2>1, <1>2 DEF Entries
  <2>3. <<e>> \in Seq(Entries)
    <3> HIDE DEF e
    <3> QED
      BY <2>2
  <2>4. queue' = <<e>> /\ visited' = {crate.fields[field]}
    BY <1>10 DEF StartField
  <2> HIDE DEF e
  <2>5. QED
    BY <1>1, <1>2, <1>10, <2>1, <2>3, <2>4 DEF StartField, TypeOK
<1>11. CASE StopAtBoundary \/ LeaveUnexplored
  <2>1. Tail(queue) \in Seq(Entries)
    BY <1>11, TailOf DEF StopAtBoundary, LeaveUnexplored, Popping, TypeOK
  <2>2. QED
    BY <1>1, <1>11, <2>1 DEF StopAtBoundary, LeaveUnexplored, TypeOK
<1>12. CASE FindContract
  <2>1. Head(queue) \in Entries
    BY <1>12, TailOf DEF FindContract, Popping, TypeOK
  <2>2. entry.type \in Types /\ entry.path \in Seq(Adts)
    BY <2>1 DEF Entries, entry
  <2>3. AdtOf[entry.type] \in Adts /\ ContractOf(entry.type) = contract_for_adt(AdtOf[entry.type])
    BY <2>2, <1>12, NamesAssumption DEF NamesAssumption, FindContract, IsDeclared, ContractOf
  <2>4. Hazard(ContractOf(entry.type), field, entry.path) \in H
    BY <1>4, <1>12, <2>2, <2>3, HazardIsTyped DEF FindContract, IsDeclared, Popping
  <2> HIDE DEF H
  <2>5. hazards' \in Seq(H)
    BY <2>4, <1>4, <1>12 DEF FindContract
  <2>6. field + 1 \in 1..(Len(crate.fields) + 1)
    BY <1>3, <1>12 DEF FindContract, Popping, Control, Searching
  <2>7. QED
    BY <1>1, <1>12, <2>5, <2>6 DEF FindContract, NextField, TypeOK, H
<1>13. CASE ExploreType
  <2>1. Tail(queue) \in Seq(Entries) /\ Head(queue) \in Entries
    BY <1>13, TailOf DEF ExploreType, Popping, TypeOK
  <2>2. Head(queue).type \in Types
    BY <2>1 DEF Entries
  <2>3. owned_types(Head(queue).type) \in Seq(Types)
    BY <2>2, <1>3, CrateTypes DEF owned_types
  <2>4. QED
    BY <1>1, <1>13, <2>1, <2>3 DEF ExploreType, entry, TypeOK
<1>14. CASE QueueChild
  <2>1. pc = "edges" /\ owned # <<>> /\ owner \in Entries /\ owned \in Seq(Types)
    BY <1>14 DEF QueueChild, TakeEdge, TypeOK
  <2>2. Head(owned) \in Types /\ Tail(owned) \in Seq(Types)
    BY <2>1, TailOf
  <2>3. PathThrough \in Seq(Adts)
    <3>1. owner.path \in Seq(Adts) /\ owner.type \in Types
      BY <2>1 DEF Entries
    <3>2. AdtOf[owner.type] \in Adts
      BY <3>1, NamesAssumption DEF NamesAssumption
    <3>3. QED
      BY <3>1, <3>2 DEF PathThrough
  <2>4. owner.depth + 1 \in 0..MaxDepth
    BY <2>1, <1>2 DEF Entries
  <2>5. Queued(Head(owned)) \in Entries
    BY <2>2, <2>3, <2>4 DEF Queued, Entries
  <2>6. Append(queue, Queued(Head(owned))) \in Seq(Entries)
    BY <2>5, AppendOf DEF TypeOK
  <2>7. remaining - 1 \in 0..MaxEdges
    BY <1>14, <1>2 DEF QueueChild, TakeEdge, TypeOK
  <2>8. QED
    BY <1>1, <1>14, <2>1, <2>2, <2>6, <2>7 DEF QueueChild, TakeEdge, TypeOK
<1>15. CASE SkipVisited
  <2>1. owned # <<>> /\ owned \in Seq(Types)
    BY <1>15 DEF SkipVisited, TakeEdge, TypeOK
  <2>2. Tail(owned) \in Seq(Types)
    BY <2>1, TailOf
  <2>3. remaining - 1 \in 0..MaxEdges
    BY <1>15, <1>2 DEF SkipVisited, TakeEdge, TypeOK
  <2>4. QED
    BY <1>1, <1>15, <2>2, <2>3 DEF SkipVisited, TakeEdge, TypeOK
<1>16. CASE EndOfEdges
  BY <1>1, <1>16 DEF EndOfEdges, search, TypeOK
<1>17. CASE FieldIsSilent
  <2>1. field + 1 \in 1..(Len(crate.fields) + 1)
    BY <1>3, <1>17 DEF FieldIsSilent, Control, Searching
  <2>2. QED
    BY <1>1, <1>17, <2>1 DEF FieldIsSilent, NextField, TypeOK
<1>18. CASE Emit
  BY <1>1, <1>18 DEF Emit, search, TypeOK
<1>19. CASE UNCHANGED vars
  BY <1>1, <1>19 DEF vars, search, TypeOK
<1>20. QED
  BY <1>5, <1>6, <1>7, <1>8, <1>9, <1>10, <1>11, <1>12, <1>13, <1>14, <1>15, <1>16, <1>17, <1>18, <1>19
  DEF Next, find_thread_affine_type

LEMMA StartIsFrozen ==
  ASSUME crate' = crate, field' = field
  PROVE  /\ Start' = Start
         /\ \A e : Reached(e, Start)' <=> Reached(e, Start)
         /\ \A d : Within(Start, d)' = Within(Start, d)
         /\ \A t : Inner(t)' <=> Inner(t)
         /\ \A t : Drops(t)' = Drops(t) /\ Affine(t)' = Affine(t)
BY Frozen DEF Start, Reached, Inner

\* The head of the queue has been dealt with where it stood.
LEMMA PopKeeps ==
  ASSUME SearchInv, Popping, queue' = Tail(queue), UNCHANGED <<crate, field, visited, remaining, pc>>,
         ~Affine(entry.type),
         remaining > 0 /\ Inner(entry.type) => Drops(entry.type) \subseteq visited
  PROVE  InOrder' /\ OwnerInv' /\ Settled' /\ LevelsSeen'
<1>1. queue \in Seq(Entries) /\ queue # <<>> /\ pc = "search" /\ pc' = "search" /\ Searching
  BY DEF SearchInv, TypeOK, Popping, Searching
<1>2. /\ Start' = Start
      /\ \A e : Reached(e, Start)' <=> Reached(e, Start)
      /\ \A d : Within(Start, d)' = Within(Start, d)
      /\ \A t : Inner(t)' <=> Inner(t)
      /\ \A t : Drops(t)' = Drops(t) /\ Affine(t)' = Affine(t)
  BY StartIsFrozen
<1>3. /\ \A i \in DOMAIN queue' : i \in Nat /\ i + 1 \in DOMAIN queue /\ queue'[i] = queue[i + 1]
      /\ \A i \in DOMAIN queue : i = 1 \/ (i - 1 \in DOMAIN queue' /\ queue'[i - 1] = queue[i])
      /\ entry = queue[1]
  BY <1>1, TailOf DEF entry
<1>4. InOrder'
  <2>1. \A i \in DOMAIN queue' : Reached(queue'[i], Start) /\ queue'[i].type \in visited'
    BY <1>1, <1>2, <1>3 DEF SearchInv, InOrder
  <2>2. \A i, j \in DOMAIN queue' : i <= j => /\ queue'[i].depth <= queue'[j].depth
                                              /\ queue'[j].depth <= queue'[i].depth + 1
    <3> SUFFICES ASSUME NEW i \in DOMAIN queue', NEW j \in DOMAIN queue', i <= j
                 PROVE  /\ queue'[i].depth <= queue'[j].depth
                        /\ queue'[j].depth <= queue'[i].depth + 1
      OBVIOUS
    <3>1. i + 1 \in DOMAIN queue /\ j + 1 \in DOMAIN queue /\ i + 1 <= j + 1
      BY <1>3
    <3>2. queue'[i] = queue[i + 1] /\ queue'[j] = queue[j + 1]
      BY <1>3
    <3>3. QED
      BY <1>1, <3>1, <3>2 DEF SearchInv, InOrder
  <2>3. QED
    BY <1>1, <1>2, <2>1, <2>2 DEF SearchInv, InOrder
<1>5. OwnerInv'
  BY <1>1 DEF OwnerInv
<1>6. Settled'
  <2> SUFFICES ASSUME NEW t \in visited, Popped(t)'
               PROVE  /\ ~Affine(t)
                      /\ remaining > 0 /\ Inner(t) => Drops(t) \subseteq visited
    BY <1>2 DEF Settled
  <2>1. CASE InQueue(t)
    <3>1. PICK i \in DOMAIN queue : queue[i].type = t
      BY <2>1 DEF InQueue
    <3>2. i = 1
      BY <1>3, <3>1 DEF Popped, InQueue
    <3>3. QED
      BY <3>1, <3>2, <1>3
  <2>2. CASE ~InQueue(t)
    BY <2>2, <1>1 DEF Popped, SearchInv, Settled
  <2>3. QED
    BY <2>1, <2>2
<1>7. LevelsSeen'
  BY <1>1, <1>2, <1>3 DEF SearchInv, LevelsSeen
<1>8. QED
  BY <1>4, <1>5, <1>6, <1>7

LEMMA EntryIsTyped ==
  ASSUME TypeOK, Popping
  PROVE  /\ queue \in Seq(Entries) /\ queue # <<>> /\ pc = "search" /\ Searching
         /\ entry \in Entries /\ entry = queue[1] /\ 1 \in DOMAIN queue
         /\ entry.type \in Types /\ entry.depth \in 0..MaxDepth
<1>1. queue \in Seq(Entries) /\ queue # <<>> /\ pc = "search" /\ Searching
  BY DEF TypeOK, Popping, Searching
<1>2. entry \in Entries /\ entry = queue[1] /\ 1 \in DOMAIN queue
  BY <1>1, TailOf DEF entry
<1>3. QED
  BY <1>1, <1>2 DEF Entries

\* While one searches, an entry is declared exactly if its type is affine.
LEMMA EntryIsJudged ==
  ASSUME Control, TypeOK, Popping
  PROVE  /\ IsBoundary => ~Affine(entry.type) /\ Drops(entry.type) = {}
         /\ ~IsBoundary => (IsDeclared <=> Affine(entry.type))
<1>1. crate \in Crates /\ Expanded /\ entry.type \in Types
  BY EntryIsTyped DEF Control, Popping
<1>2. IsBoundary => ~Affine(entry.type) /\ Drops(entry.type) = {}
  BY DEF IsBoundary, Affine, IsDropped, Drops
<1>3. ~IsBoundary => (IsDeclared <=> Affine(entry.type))
  BY <1>1, DeclaredIsAffine DEF IsBoundary, IsDeclared
<1>4. QED
  BY <1>2, <1>3

LEMMA StopKeeps ==
  ASSUME SearchInv, StopAtBoundary
  PROVE  InOrder' /\ OwnerInv' /\ Settled' /\ LevelsSeen'
<1>1. ~Affine(entry.type) /\ Drops(entry.type) = {}
  BY EntryIsJudged DEF SearchInv, StopAtBoundary
<1>2. QED
  BY <1>1, PopKeeps DEF StopAtBoundary

LEMMA LeftIsOuter ==
  ASSUME SearchInv, LeaveUnexplored
  PROVE  ~(remaining > 0 /\ Inner(entry.type))
<1> SUFFICES ASSUME entry.depth = MaxDepth PROVE ~Inner(entry.type)
  BY BoundsAssumption DEF LeaveUnexplored, Exhausted, SearchInv, TypeOK, BoundsAssumption
<1>1. Reached(entry, Start)
  BY EntryIsTyped DEF SearchInv, InOrder, LeaveUnexplored
<1>2. QED
  BY <1>1 DEF Reached, Inner

LEMMA LeaveKeeps ==
  ASSUME SearchInv, LeaveUnexplored
  PROVE  InOrder' /\ OwnerInv' /\ Settled' /\ LevelsSeen'
<1>1. ~Affine(entry.type)
  BY EntryIsJudged DEF SearchInv, LeaveUnexplored
<1>2. ~(remaining > 0 /\ Inner(entry.type))
  BY LeftIsOuter
<1>3. QED
  BY <1>1, <1>2, PopKeeps DEF LeaveUnexplored

\* When a type is looked into, everything as near as it has been visited.
LEMMA NearerIsVisited ==
  ASSUME SearchInv, Popping, remaining > 0, entry.depth < MaxDepth
  PROVE  \A d \in 0..entry.depth : Within(Start, d) \subseteq visited
<1> SUFFICES ASSUME NEW d \in 0..entry.depth PROVE Within(Start, d) \subseteq visited
  OBVIOUS
<1>1. Searching /\ pc = "search" /\ entry = queue[1] /\ 1 \in DOMAIN queue /\ entry.depth \in Nat
  BY EntryIsTyped DEF SearchInv
<1>2. crate \in Crates /\ Start \in Types /\ Start \in visited /\ visited \subseteq Types
  BY <1>1, CrateTypes DEF SearchInv, Control, Start, InOrder, TypeOK
<1>3. ASSUME NEW e \in Nat, e < d, NEW t \in Within(Start, e), t \in visited, ~Affine(t)
      PROVE  Drops(t) \subseteq visited
  <2>1. Inner(t)
    <3>1. e \in 0..(MaxDepth - 1)
      BY <1>1, <1>3, BoundsAssumption DEF BoundsAssumption
    <3>2. QED
      BY <3>1, <1>3 DEF Inner
  <2>2. ~InQueue(t)
    <3> SUFFICES ASSUME NEW i \in DOMAIN queue, queue[i].type = t PROVE FALSE
      BY DEF InQueue
    <3>1. queue[i] \in Entries /\ queue[1] \in Entries /\ i \in Nat /\ 1 <= i
      BY DEF SearchInv, TypeOK
    <3>2. queue[1].depth <= queue[i].depth /\ Reached(queue[i], Start)
      BY <1>1, <3>1 DEF SearchInv, InOrder
    <3>3. e \in 0..(queue[i].depth - 1)
      BY <1>1, <1>3, <3>1, <3>2 DEF Entries
    <3>4. QED
      BY <1>3, <3>2, <3>3 DEF Reached
  <2>3. QED
    BY <1>1, <1>3, <2>1, <2>2 DEF SearchInv, Settled, Popped
<1>4. QED
  BY <1>2, <1>3, ClosedContains

LEMMA ExploreKeeps ==
  ASSUME SearchInv, ExploreType
  PROVE  InOrder' /\ OwnerInv' /\ Settled' /\ LevelsSeen'
<1>1. /\ queue \in Seq(Entries) /\ queue # <<>> /\ pc = "search" /\ Searching
      /\ entry \in Entries /\ entry = queue[1] /\ 1 \in DOMAIN queue
      /\ entry.type \in Types /\ entry.depth \in 0..MaxDepth
  BY EntryIsTyped DEF SearchInv, ExploreType
<1>2. /\ Start' = Start
      /\ \A e : Reached(e, Start)' <=> Reached(e, Start)
      /\ \A d : Within(Start, d)' = Within(Start, d)
      /\ \A t : Inner(t)' <=> Inner(t)
      /\ \A t : Drops(t)' = Drops(t) /\ Affine(t)' = Affine(t)
  BY StartIsFrozen DEF ExploreType
<1>3. /\ queue' = Tail(queue) /\ owner' = entry /\ owned' = owned_types(entry.type)
      /\ visited' = visited /\ pc' = "edges" /\ remaining' = remaining /\ Searching'
  BY DEF ExploreType, Searching
<1>4. /\ \A i \in DOMAIN queue' : i \in Nat /\ i + 1 \in DOMAIN queue /\ queue'[i] = queue[i + 1]
      /\ \A i \in DOMAIN queue : i = 1 \/ (i - 1 \in DOMAIN queue' /\ queue'[i - 1] = queue[i])
  BY <1>1, <1>3, TailOf
<1>5. entry.depth < MaxDepth /\ remaining > 0
  BY <1>1, BoundsAssumption DEF ExploreType, Exhausted, SearchInv, TypeOK, BoundsAssumption
<1>6. InOrder'
  <2>1. \A i \in DOMAIN queue' : Reached(queue'[i], Start) /\ queue'[i].type \in visited'
    BY <1>1, <1>2, <1>3, <1>4 DEF SearchInv, InOrder
  <2>2. \A i, j \in DOMAIN queue' : i <= j => /\ queue'[i].depth <= queue'[j].depth
                                              /\ queue'[j].depth <= queue'[i].depth + 1
    <3> SUFFICES ASSUME NEW i \in DOMAIN queue', NEW j \in DOMAIN queue', i <= j
                 PROVE  /\ queue'[i].depth <= queue'[j].depth
                        /\ queue'[j].depth <= queue'[i].depth + 1
      OBVIOUS
    <3>1. i + 1 \in DOMAIN queue /\ j + 1 \in DOMAIN queue /\ i + 1 <= j + 1
      BY <1>4
    <3>2. queue'[i] = queue[i + 1] /\ queue'[j] = queue[j + 1]
      BY <1>4
    <3>3. QED
      BY <1>1, <3>1, <3>2 DEF SearchInv, InOrder
  <2>3. QED
    BY <1>1, <1>2, <1>3, <2>1, <2>2 DEF SearchInv, InOrder
<1>7. OwnerInv'
  <2>1. Reached(owner', Start) /\ owner'.type \in visited'
    BY <1>1, <1>2, <1>3 DEF SearchInv, InOrder
  <2>2. ~Affine(entry.type) /\ ~IsBoundary
    BY EntryIsJudged DEF SearchInv, ExploreType
  <2>3. \A i \in DOMAIN queue' : entry.depth <= queue'[i].depth /\ queue'[i].depth <= entry.depth + 1
    <3> TAKE i \in DOMAIN queue'
    <3>1. i + 1 \in DOMAIN queue /\ queue'[i] = queue[i + 1] /\ 1 <= i + 1
      BY <1>4
    <3>2. QED
      BY <1>1, <3>1 DEF SearchInv, InOrder
  <2>4. /\ \A i \in DOMAIN owned' : owned'[i] \in Drops(entry.type)
        /\ \A t \in Drops(entry.type) : \E i \in DOMAIN owned' : owned'[i] = t
    BY <1>3, <2>2 DEF owned_types, Drops, IsBoundary
  <2>5. QED
    BY <1>2, <1>3, <1>5, <2>1, <2>2, <2>3, <2>4 DEF OwnerInv
<1>8. Settled'
  <2> SUFFICES ASSUME NEW t \in visited, Popped(t)'
               PROVE  /\ ~Affine(t)
                      /\ remaining > 0 /\ Inner(t) => Drops(t) \subseteq visited
    BY <1>2, <1>3 DEF Settled
  <2>1. t # entry.type
    BY <1>3 DEF Popped
  <2>2. ~InQueue(t)
    <3> SUFFICES ASSUME NEW i \in DOMAIN queue, queue[i].type = t PROVE FALSE
      BY DEF InQueue
    <3>1. i # 1
      BY <1>1, <2>1
    <3>2. QED
      BY <1>4, <3>1 DEF Popped, InQueue
  <2>3. QED
    BY <2>2, <1>1 DEF Popped, SearchInv, Settled
<1>9. LevelsSeen'
  <2>1. \A i \in DOMAIN queue' : \A d \in 0..(queue'[i].depth - 1) : Within(Start, d) \subseteq visited
    BY <1>1, <1>4 DEF SearchInv, LevelsSeen
  <2>2. \A d \in 0..entry.depth : Within(Start, d) \subseteq visited
    BY <1>5, NearerIsVisited DEF ExploreType
  <2>3. QED
    BY <1>2, <1>3, <2>1, <2>2 DEF LevelsSeen
<1>10. QED
  BY <1>6, <1>7, <1>8, <1>9

\* A chain goes on through a type, which the path names if it is an ADT.
LEMMA LeadsFurther ==
  ASSUME NEW from \in Types, NEW t \in Types, NEW c \in Types, NEW l \in Nat, NEW p \in Seq(Adts),
         AdtOf[t] \in Adts, Leads(from, t, l, p), c \in Drops(t)
  PROVE  Leads(from, c, l + 1, IF crate.kind[t] \in AdtKinds THEN Append(p, AdtOf[t]) ELSE p)
<1>1. PICK chain \in [0..l -> Types] :
        /\ chain[0] = from /\ chain[l] = t
        /\ \A i \in 1..l : chain[i] \in Drops(chain[i - 1])
        /\ \E at \in [DOMAIN p -> 0..(l - 1)] :
             /\ \A i, j \in DOMAIN p : i < j => at[i] < at[j]
             /\ {at[i] : i \in DOMAIN p} = {i \in 0..(l - 1) : crate.kind[chain[i]] \in AdtKinds}
             /\ \A i \in DOMAIN p : p[i] = AdtOf[chain[at[i]]]
  BY DEF Leads
<1>2. PICK at \in [DOMAIN p -> 0..(l - 1)] :
        /\ \A i, j \in DOMAIN p : i < j => at[i] < at[j]
        /\ {at[i] : i \in DOMAIN p} = {i \in 0..(l - 1) : crate.kind[chain[i]] \in AdtKinds}
        /\ \A i \in DOMAIN p : p[i] = AdtOf[chain[at[i]]]
  BY <1>1
<1> DEFINE next == [i \in 0..(l + 1) |-> IF i = l + 1 THEN c ELSE chain[i]]
<1>3. /\ next \in [0..(l + 1) -> Types]
      /\ \A i \in 0..l : next[i] = chain[i]
      /\ next[l + 1] = c
  OBVIOUS
<1> HIDE DEF next
<1>4. next[0] = from /\ next[l + 1] = c
  BY <1>1, <1>3
<1>5. \A i \in 1..(l + 1) : next[i] \in Drops(next[i - 1])
  <2> TAKE i \in 1..(l + 1)
  <2>1. i - 1 \in 0..l /\ next[i - 1] = chain[i - 1]
    BY <1>3
  <2>2. CASE i = l + 1
    BY <2>1, <2>2, <1>1, <1>3
  <2>3. CASE i \in 1..l
    BY <2>1, <2>3, <1>1, <1>3
  <2>4. QED
    BY <2>2, <2>3
<1>6. CASE crate.kind[t] \in AdtKinds
  <2> DEFINE q == Append(p, AdtOf[t])
             to == [i \in DOMAIN q |-> IF i = Len(p) + 1 THEN l ELSE at[i]]
  <2>1. DOMAIN q = 1..(Len(p) + 1) /\ DOMAIN p = 1..Len(p) /\ Len(p) \in Nat
    OBVIOUS
  <2>2. /\ \A i \in DOMAIN p : q[i] = p[i]
        /\ q[Len(p) + 1] = AdtOf[t]
    OBVIOUS
  <2> HIDE DEF q
  <2>3. /\ to \in [DOMAIN q -> 0..((l + 1) - 1)]
        /\ \A i \in DOMAIN p : to[i] = at[i]
        /\ to[Len(p) + 1] = l
    BY <2>1
  <2> HIDE DEF to
  <2>4. \A i, j \in DOMAIN q : i < j => to[i] < to[j]
    BY <2>1, <2>3, <1>2
  <2>5. \A i \in DOMAIN q : q[i] = AdtOf[next[to[i]]]
    <3> TAKE i \in DOMAIN q
    <3>1. CASE i = Len(p) + 1
      BY <3>1, <2>2, <2>3, <1>1, <1>3
    <3>2. CASE i \in DOMAIN p
      BY <3>2, <2>2, <2>3, <1>2, <1>3
    <3>3. QED
      BY <3>1, <3>2, <2>1
  <2>6. {to[i] : i \in DOMAIN q} = {i \in 0..((l + 1) - 1) : crate.kind[next[i]] \in AdtKinds}
    <3>1. ASSUME NEW i \in DOMAIN q
          PROVE  to[i] \in 0..l /\ crate.kind[next[to[i]]] \in AdtKinds
      <4>1. CASE i = Len(p) + 1
        BY <4>1, <2>3, <1>1, <1>3, <1>6
      <4>2. CASE i \in DOMAIN p
        <5>1. at[i] \in {k \in 0..(l - 1) : crate.kind[chain[k]] \in AdtKinds}
          BY <4>2, <1>2
        <5>2. QED
          BY <5>1, <4>2, <2>3, <1>3
      <4>3. QED
        BY <4>1, <4>2, <2>1
    <3>2. ASSUME NEW k \in 0..l, crate.kind[next[k]] \in AdtKinds
          PROVE  \E i \in DOMAIN q : to[i] = k
      <4>1. CASE k = l
        <5>1. Len(p) + 1 \in DOMAIN q
          BY <2>1
        <5>2. QED
          BY <4>1, <5>1, <2>3
      <4>2. CASE k \in 0..(l - 1)
        <5>1. k \in {at[i] : i \in DOMAIN p}
          <6>1. next[k] = chain[k]
            BY <4>2, <1>3
          <6>2. k \in {i \in 0..(l - 1) : crate.kind[chain[i]] \in AdtKinds}
            BY <6>1, <4>2, <3>2
          <6>3. QED
            BY <6>2, <1>2
        <5>2. PICK i \in DOMAIN p : at[i] = k
          BY <5>1
        <5>3. QED
          BY <5>2, <2>1, <2>3
      <4>3. QED
        BY <4>1, <4>2
    <3>3. QED
      BY <3>1, <3>2
  <2>7. Leads(from, c, l + 1, q)
    <3>1. \E a \in [DOMAIN q -> 0..((l + 1) - 1)] :
            /\ \A i, j \in DOMAIN q : i < j => a[i] < a[j]
            /\ {a[i] : i \in DOMAIN q} = {i \in 0..((l + 1) - 1) : crate.kind[next[i]] \in AdtKinds}
            /\ \A i \in DOMAIN q : q[i] = AdtOf[next[a[i]]]
      BY <2>3, <2>4, <2>5, <2>6, Zenon
    <3>2. \A i \in 1..(l + 1) : next[i] \in Drops(next[i - 1])
      BY <1>5
    <3>3. QED
      BY <1>3, <1>4, <3>1, <3>2, Zenon DEF Leads
  <2>8. QED
    BY <1>6, <2>7 DEF q
<1>7. CASE crate.kind[t] \notin AdtKinds
  <2>1. at \in [DOMAIN p -> 0..((l + 1) - 1)]
    OBVIOUS
  <2>2. \A i \in DOMAIN p : p[i] = AdtOf[next[at[i]]]
    <3> TAKE i \in DOMAIN p
    <3>1. at[i] \in 0..(l - 1)
      BY <1>2, Zenon
    <3>2. next[at[i]] = chain[at[i]]
      BY <3>1, <1>3
    <3>3. QED
      BY <3>2, <1>2
  <2>3. {at[i] : i \in DOMAIN p} = {i \in 0..((l + 1) - 1) : crate.kind[next[i]] \in AdtKinds}
    <3>1. crate.kind[next[l]] \notin AdtKinds
      BY <1>1, <1>3, <1>7
    <3>2. \A k \in 0..l : k = l \/ (k \in 0..(l - 1) /\ next[k] = chain[k])
      BY <1>3
    <3>3. {i \in 0..((l + 1) - 1) : crate.kind[next[i]] \in AdtKinds}
            = {i \in 0..(l - 1) : crate.kind[chain[i]] \in AdtKinds}
      BY <3>1, <3>2
    <3>4. QED
      BY <3>3, <1>2
  <2>4. Leads(from, c, l + 1, p)
    BY <1>2, <1>3, <1>4, <1>5, <2>1, <2>2, <2>3 DEF Leads
  <2>5. QED
    BY <1>7, <2>4
<1>8. QED
  BY <1>6, <1>7

LEMMA ChildIsReached ==
  ASSUME SearchInv, pc = "edges", NEW c \in Drops(owner.type), c \notin visited
  PROVE  Reached(Queued(c), Start)
<1>1. /\ owner.type \in Types /\ owner.depth \in Nat /\ owner.path \in Seq(Adts)
      /\ Reached(owner, Start) /\ ~Affine(owner.type) /\ Searching
  BY DEF SearchInv, TypeOK, OwnerInv, Entries, Searching
<1>2. crate \in Crates /\ Start \in Types /\ c \in Types /\ AdtOf[owner.type] \in Adts
  BY <1>1, CrateTypes, DropsAreTypes, NamesAssumption DEF SearchInv, Control, Start, NamesAssumption
<1>3. c \in Within(Start, owner.depth + 1)
  <2>1. Within(Start, owner.depth + 1) = Beyond(Within(Start, owner.depth))
    BY <1>1, <1>2, Levels
  <2>2. QED
    BY <2>1, <1>1 DEF Beyond, Reached
<1>4. \A d \in 0..((owner.depth + 1) - 1) : c \notin Within(Start, d)
  BY <1>1 DEF SearchInv, LevelsSeen
<1>5. Leads(Start, c, owner.depth + 1, PathThrough)
  BY <1>1, <1>2, LeadsFurther DEF PathThrough, Reached
<1>6. QED
  BY <1>3, <1>4, <1>5 DEF Reached, Queued

LEMMA QueueKeeps ==
  ASSUME SearchInv, QueueChild
  PROVE  InOrder' /\ OwnerInv' /\ Settled' /\ LevelsSeen'
<1> DEFINE c == Head(owned)
           q == Queued(c)
<1>1. /\ queue \in Seq(Entries) /\ pc = "edges" /\ pc' = "edges" /\ Searching /\ Searching'
      /\ owner \in Entries /\ owner.depth \in Nat /\ owned \in Seq(Types) /\ owned # <<>>
  BY DEF SearchInv, TypeOK, QueueChild, TakeEdge, Searching, Entries
<1>2. /\ Start' = Start
      /\ \A e : Reached(e, Start)' <=> Reached(e, Start)
      /\ \A d : Within(Start, d)' = Within(Start, d)
      /\ \A t : Inner(t)' <=> Inner(t)
      /\ \A t : Drops(t)' = Drops(t) /\ Affine(t)' = Affine(t)
  BY StartIsFrozen DEF QueueChild, TakeEdge
<1>3. /\ queue' = Append(queue, q) /\ visited' = visited \union {c} /\ c \notin visited
      /\ owner' = owner /\ owned' = Tail(owned) /\ remaining > 0 /\ remaining' = remaining - 1
  BY DEF QueueChild, TakeEdge
<1>4. c \in Drops(owner.type) /\ c = owned[1] /\ 1 \in DOMAIN owned
  BY <1>1, TailOf DEF SearchInv, OwnerInv
<1>5. q.type = c /\ q.depth = owner.depth + 1 /\ Reached(q, Start)
  <2>1. Reached(q, Start)
    BY <1>1, <1>3, <1>4, ChildIsReached
  <2>2. QED
    BY <2>1 DEF Queued
<1> HIDE DEF c, q
<1>6. /\ \A i \in DOMAIN queue : i \in DOMAIN queue' /\ queue'[i] = queue[i]
      /\ \A i \in DOMAIN queue' : i \in Nat /\ (i \in DOMAIN queue \/ (i = Len(queue) + 1 /\ queue'[i] = q))
      /\ Len(queue) + 1 \in DOMAIN queue' /\ queue'[Len(queue) + 1] = q
      /\ DOMAIN queue = 1..Len(queue) /\ Len(queue) \in Nat
  BY <1>1, <1>3
<1>7. \A i \in DOMAIN queue : /\ owner.depth <= queue[i].depth /\ queue[i].depth <= owner.depth + 1
                              /\ queue[i].depth \in Nat
  <2> TAKE i \in DOMAIN queue
  <2>1. queue[i] \in Entries
    BY <1>1
  <2>2. QED
    BY <2>1, <1>1 DEF SearchInv, OwnerInv, Entries
<1>8. InOrder'
  <2>1. \A i \in DOMAIN queue' : Reached(queue'[i], Start) /\ queue'[i].type \in visited'
    BY <1>1, <1>3, <1>5, <1>6 DEF SearchInv, InOrder
  <2>2. \A i, j \in DOMAIN queue' : i <= j => /\ queue'[i].depth <= queue'[j].depth
                                              /\ queue'[j].depth <= queue'[i].depth + 1
    <3> SUFFICES ASSUME NEW i \in DOMAIN queue', NEW j \in DOMAIN queue', i <= j
                 PROVE  /\ queue'[i].depth <= queue'[j].depth
                        /\ queue'[j].depth <= queue'[i].depth + 1
      OBVIOUS
    <3>1. CASE j \in DOMAIN queue
      <4>1. i \in DOMAIN queue
        BY <1>6, <3>1
      <4>2. QED
        BY <4>1, <3>1, <1>1, <1>6 DEF SearchInv, InOrder
    <3>2. CASE j = Len(queue) + 1 /\ i \in DOMAIN queue
      BY <3>2, <1>1, <1>5, <1>6, <1>7
    <3>3. CASE j = Len(queue) + 1 /\ i = Len(queue) + 1
      BY <3>3, <1>1, <1>5, <1>6
    <3>4. QED
      BY <3>1, <3>2, <3>3, <1>6
  <2>3. QED
    BY <1>1, <1>2, <1>3, <2>1, <2>2 DEF SearchInv, InOrder
<1>9. OwnerInv'
  <2>1. \A i \in DOMAIN queue' : owner.depth <= queue'[i].depth /\ queue'[i].depth <= owner.depth + 1
    BY <1>1, <1>5, <1>6, <1>7
  <2>2. \A i \in DOMAIN owned' : i + 1 \in DOMAIN owned /\ owned'[i] = owned[i + 1]
    BY <1>1, <1>3, TailOf
  <2>3. \A i \in DOMAIN owned : i = 1 \/ (i - 1 \in DOMAIN owned' /\ owned'[i - 1] = owned[i])
    BY <1>1, <1>3, TailOf
  <2>4. \A i \in DOMAIN owned' : owned'[i] \in Drops(owner.type)
    BY <1>1, <2>2 DEF SearchInv, OwnerInv
  <2>5. \A t \in Drops(owner.type) : t \in visited' \/ \E i \in DOMAIN owned' : owned'[i] = t
    BY <1>1, <1>3, <1>4, <2>3 DEF SearchInv, OwnerInv
  <2>6. QED
    BY <1>1, <1>2, <1>3, <2>1, <2>4, <2>5 DEF SearchInv, OwnerInv
<1>10. Settled'
  <2> SUFFICES ASSUME NEW t \in visited', Popped(t)'
               PROVE  /\ ~Affine(t)
                      /\ remaining > 0 /\ Inner(t) => Drops(t) \subseteq visited
    BY <1>1, <1>2, <1>3 DEF Settled, SearchInv, TypeOK
  <2>1. t # c
    BY <1>5, <1>6 DEF Popped, InQueue
  <2>2. t \in visited /\ ~InQueue(t) /\ t # owner.type
    BY <1>1, <1>3, <1>6, <2>1 DEF Popped, InQueue
  <2>3. QED
    BY <2>2, <1>1 DEF Popped, SearchInv, Settled
<1>11. LevelsSeen'
  <2>1. \A d \in 0..owner.depth : Within(Start, d) \subseteq visited'
    BY <1>1, <1>3 DEF SearchInv, LevelsSeen
  <2>2. \A i \in DOMAIN queue' : \A d \in 0..(queue'[i].depth - 1) : Within(Start, d) \subseteq visited'
    <3> TAKE i \in DOMAIN queue'
    <3>1. CASE i \in DOMAIN queue
      BY <3>1, <1>1, <1>3, <1>6 DEF SearchInv, LevelsSeen
    <3>2. CASE queue'[i] = q
      BY <3>2, <2>1, <1>1, <1>5
    <3>3. QED
      BY <3>1, <3>2, <1>6
  <2>3. QED
    BY <1>1, <1>2, <1>3, <2>1, <2>2 DEF LevelsSeen
<1>12. QED
  BY <1>8, <1>9, <1>10, <1>11

LEMMA SkipKeeps ==
  ASSUME SearchInv, SkipVisited
  PROVE  InOrder' /\ OwnerInv' /\ Settled' /\ LevelsSeen'
<1>1. /\ pc = "edges" /\ pc' = "edges" /\ Searching /\ Searching' /\ owned \in Seq(Types) /\ owned # <<>>
      /\ remaining > 0 /\ remaining' = remaining - 1 /\ remaining \in Nat
      /\ queue' = queue /\ visited' = visited /\ owner' = owner /\ owned' = Tail(owned)
      /\ Head(owned) \in visited
  BY BoundsAssumption DEF SearchInv, TypeOK, SkipVisited, TakeEdge, Searching, BoundsAssumption
<1>2. /\ Start' = Start
      /\ \A e : Reached(e, Start)' <=> Reached(e, Start)
      /\ \A d : Within(Start, d)' = Within(Start, d)
      /\ \A t : Inner(t)' <=> Inner(t)
      /\ \A t : Drops(t)' = Drops(t) /\ Affine(t)' = Affine(t)
  BY StartIsFrozen DEF SkipVisited, TakeEdge
<1>3. InOrder'
  BY <1>1, <1>2 DEF SearchInv, InOrder
<1>4. OwnerInv'
  <2>1. \A i \in DOMAIN owned' : i + 1 \in DOMAIN owned /\ owned'[i] = owned[i + 1]
    BY <1>1, TailOf
  <2>2. \A i \in DOMAIN owned : i = 1 \/ (i - 1 \in DOMAIN owned' /\ owned'[i - 1] = owned[i])
    BY <1>1, TailOf
  <2>3. owned[1] \in visited
    BY <1>1, TailOf
  <2>4. \A i \in DOMAIN owned' : owned'[i] \in Drops(owner.type)
    BY <1>1, <2>1 DEF SearchInv, OwnerInv
  <2>5. \A t \in Drops(owner.type) : t \in visited' \/ \E i \in DOMAIN owned' : owned'[i] = t
    BY <1>1, <2>2, <2>3 DEF SearchInv, OwnerInv
  <2>6. QED
    BY <1>1, <1>2, <2>4, <2>5 DEF SearchInv, OwnerInv
<1>5. Settled'
  BY <1>1, <1>2 DEF SearchInv, Settled, Popped, InQueue
<1>6. LevelsSeen'
  BY <1>1, <1>2 DEF SearchInv, LevelsSeen
<1>7. QED
  BY <1>3, <1>4, <1>5, <1>6

LEMMA EndKeeps ==
  ASSUME SearchInv, EndOfEdges
  PROVE  InOrder' /\ OwnerInv' /\ Settled' /\ LevelsSeen'
<1>1. /\ pc = "edges" /\ pc' = "search" /\ Searching /\ Searching'
      /\ remaining' = remaining /\ queue' = queue /\ visited' = visited
      /\ owned = <<>> \/ remaining = 0
  BY DEF EndOfEdges, search, Searching
<1>2. /\ Start' = Start
      /\ \A e : Reached(e, Start)' <=> Reached(e, Start)
      /\ \A d : Within(Start, d)' = Within(Start, d)
      /\ \A t : Inner(t)' <=> Inner(t)
      /\ \A t : Drops(t)' = Drops(t) /\ Affine(t)' = Affine(t)
  BY StartIsFrozen DEF EndOfEdges
<1>3. InOrder'
  BY <1>1, <1>2 DEF SearchInv, InOrder
<1>4. OwnerInv'
  BY <1>1 DEF OwnerInv
<1>5. Settled'
  <2> SUFFICES ASSUME NEW t \in visited, Popped(t)'
               PROVE  /\ ~Affine(t)
                      /\ remaining > 0 /\ Inner(t) => Drops(t) \subseteq visited
    BY <1>1, <1>2 DEF Settled
  <2>1. CASE t = owner.type
    BY <2>1, <1>1 DEF SearchInv, OwnerInv
  <2>2. CASE t # owner.type
    BY <2>2, <1>1 DEF SearchInv, Settled, Popped, InQueue
  <2>3. QED
    BY <2>1, <2>2
<1>6. LevelsSeen'
  BY <1>1, <1>2 DEF SearchInv, LevelsSeen
<1>7. QED
  BY <1>3, <1>4, <1>5, <1>6

LEMMA StartKeeps ==
  ASSUME SearchInv, StartField
  PROVE  InOrder' /\ OwnerInv' /\ Settled' /\ LevelsSeen'
<1> DEFINE e == [type |-> Start, depth |-> 0, path |-> <<>>]
<1>1. /\ field \in DOMAIN crate.fields /\ pc' = "search" /\ Searching'
      /\ visited' = {Start} /\ queue' = <<e>>
  BY DEF StartField, Searching, Start
<1>2. /\ Start' = Start
      /\ \A q : Reached(q, Start)' <=> Reached(q, Start)
      /\ \A d : Within(Start, d)' = Within(Start, d)
      /\ \A t : Inner(t)' <=> Inner(t)
      /\ \A t : Drops(t)' = Drops(t) /\ Affine(t)' = Affine(t)
  BY StartIsFrozen DEF StartField
<1>3. crate \in Crates /\ Start \in Types
  BY <1>1, CrateTypes DEF SearchInv, Control, Start
<1>4. Reached(e, Start)
  <2>1. Start \in Within(Start, 0)
    BY <1>3, Levels
  <2>2. Leads(Start, Start, 0, <<>>)
    <3> DEFINE chain == [i \in 0..0 |-> Start]
               at == [i \in DOMAIN <<>> |-> 0]
    <3>1. chain \in [0..0 -> Types] /\ chain[0] = Start
      BY <1>3
    <3>2. at \in [DOMAIN <<>> -> 0..(0 - 1)] /\ DOMAIN <<>> = {}
      OBVIOUS
    <3> HIDE DEF chain, at
    <3>3. {at[i] : i \in DOMAIN <<>>} = {i \in 0..(0 - 1) : crate.kind[chain[i]] \in AdtKinds}
      BY <3>2
    <3>4. QED
      BY <3>1, <3>2, <3>3 DEF Leads
  <2>3. QED
    BY <2>1, <2>2 DEF Reached
<1>5. DOMAIN queue' = {1} /\ queue'[1] = e /\ e.type = Start /\ e.depth = 0
  BY <1>1
<1> HIDE DEF e
<1>6. InOrder'
  BY <1>1, <1>2, <1>4, <1>5 DEF InOrder
<1>7. OwnerInv'
  BY <1>1 DEF OwnerInv
<1>8. Settled'
  BY <1>1, <1>5 DEF Settled, Popped, InQueue
<1>9. LevelsSeen'
  BY <1>1, <1>5 DEF LevelsSeen
<1>10. QED
  BY <1>6, <1>7, <1>8, <1>9

LEMMA NotSearching ==
  ASSUME ~Searching
  PROVE  InOrder /\ OwnerInv /\ Settled /\ LevelsSeen
BY DEF Searching, InOrder, OwnerInv, Settled, LevelsSeen

LEMMA SearchInvKept ==
  ASSUME SearchInv, [Next]_vars
  PROVE  SearchInv'
<1>1. Control' /\ TypeOK'
  BY ControlKept, TypesKept DEF SearchInv, OwnerInv
<1>2. InOrder' /\ OwnerInv' /\ Settled' /\ LevelsSeen'
  <2>1. CASE ~Searching'
    BY <2>1 DEF Searching, InOrder, OwnerInv, Settled, LevelsSeen
  <2>2. CASE StartField
    BY <2>2, StartKeeps
  <2>3. CASE StopAtBoundary
    BY <2>3, StopKeeps
  <2>4. CASE LeaveUnexplored
    BY <2>4, LeaveKeeps
  <2>5. CASE ExploreType
    BY <2>5, ExploreKeeps
  <2>6. CASE QueueChild
    BY <2>6, QueueKeeps
  <2>7. CASE SkipVisited
    BY <2>7, SkipKeeps
  <2>8. CASE EndOfEdges
    BY <2>8, EndKeeps
  <2>9. CASE UNCHANGED vars
    <3>1. crate' = crate /\ field' = field /\ UNCHANGED search /\ pc' = pc
      BY <2>9 DEF vars
    <3>2. /\ Start' = Start
          /\ \A e : Reached(e, Start)' <=> Reached(e, Start)
          /\ \A d : Within(Start, d)' = Within(Start, d)
          /\ \A t : Inner(t)' <=> Inner(t)
          /\ \A t : Drops(t)' = Drops(t) /\ Affine(t)' = Affine(t)
      BY <3>1, StartIsFrozen
    <3>3. QED
      BY <3>1, <3>2 DEF SearchInv, search, Searching, InOrder, OwnerInv, Settled, Popped, InQueue, LevelsSeen
  <2>10. CASE ~Searching \/ pc' = "field"
    BY <2>1, <2>2, <2>9, <2>10 DEF Next, Searching, find_thread_affine_type, ExpandAttributes, RejectAttribute, PassOver, ContractOnSelf,
       check_item, StopAtBoundary, FindContract, LeaveUnexplored, ExploreType, Popping,
       QueueChild, SkipVisited, TakeEdge, EndOfEdges, FieldIsSilent, Emit
  <2>11. CASE FindContract \/ FieldIsSilent
    BY <2>10, <2>11 DEF FindContract, FieldIsSilent, NextField
  <2>12. CASE ExpandAttributes \/ RejectAttribute \/ PassOver \/ ContractOnSelf \/ check_item \/ Emit
    BY <2>10, <2>12 DEF ExpandAttributes, RejectAttribute, PassOver, ContractOnSelf, check_item, Emit, Searching
  <2>13. QED
    BY <2>2, <2>3, <2>4, <2>5, <2>6, <2>7, <2>8, <2>9, <2>11, <2>12 DEF Next, find_thread_affine_type
<1>3. QED
  BY <1>1, <1>2 DEF SearchInv

LEMMA SearchInvHolds ==
  Spec => []SearchInv
<1>1. Init => SearchInv
  <2> SUFFICES ASSUME Init PROVE SearchInv
    OBVIOUS
  <2>1. crate \in Crates /\ pc = "expand" /\ queue = <<>> /\ consts = crate.consts
    BY DEF Init
  <2>2. Control
    BY <2>1 DEF Control, Searching
  <2>3. crate.consts \in [Local -> Seq(Reasons \union {"computed"})] /\ crate.fields \in Seq(Types)
    BY <2>1, CrateTypes
  <2>4. 1 \in 1..(Len(crate.fields) + 1)
    BY <2>3
  <2>5. TypeOK
    BY <2>3, <2>4, BoundsAssumption DEF Init, TypeOK, BoundsAssumption
  <2>6. QED
    BY <2>1, <2>2, <2>5, NotSearching DEF SearchInv, Searching
<1>2. SearchInv /\ [Next]_vars => SearchInv'
  BY SearchInvKept
<1>3. QED
  BY <1>1, <1>2, PTL DEF Spec

-----------------------------------------------------------------------------
(***************************************************************************)
(* What is reported.                                                       *)
(***************************************************************************)
RealHazard(h) ==
  /\ h.reason \in DeclaredReason(h.path)
  /\ IF h.field = 0 THEN h.path = crate.self
     ELSE \E length \in 0..MaxDepth : \E type \in Types :
            /\ Affine(type) /\ AdtOf[type] = h.path
            /\ Leads(crate.fields[h.field], type, length, h.through)

NearestHazard(h) ==
  h.field # 0 =>
    \E d \in 0..MaxDepth :
      /\ \E t \in Within(crate.fields[h.field], d) : Affine(t) /\ AdtOf[t] = h.path
      /\ \A e \in 0..(d - 1) : ~AffineWithin(crate.fields[h.field], e)

HazardInv == \A n \in DOMAIN hazards : RealHazard(hazards[n]) /\ NearestHazard(hazards[n])

\* A step reports at most one hazard more.
LEMMA HazardsGrow ==
  ASSUME [Next]_vars
  PROVE  \/ hazards' = hazards
         \/ FindContract
         \/ ContractOnSelf
BY DEF Next, vars, find_thread_affine_type, ExpandAttributes, RejectAttribute, PassOver, check_item, StartField,
       StopAtBoundary, LeaveUnexplored, ExploreType, QueueChild, SkipVisited, TakeEdge, EndOfEdges, FieldIsSilent, Emit

\* Nothing nearer than the head of the queue is declared.
LEMMA NearerIsHarmless ==
  ASSUME SearchInv, Popping
  PROVE  \A e \in 0..(entry.depth - 1) : ~AffineWithin(Start, e)
<1> SUFFICES ASSUME NEW e \in 0..(entry.depth - 1), NEW t \in Within(Start, e)
             PROVE  ~Affine(t)
  BY DEF AffineWithin
<1>1. Searching /\ pc = "search" /\ entry = queue[1] /\ 1 \in DOMAIN queue /\ entry.depth \in Nat
  BY EntryIsTyped DEF SearchInv
<1>2. t \in visited
  BY <1>1 DEF SearchInv, LevelsSeen
<1>3. ~InQueue(t)
  <2> SUFFICES ASSUME NEW i \in DOMAIN queue, queue[i].type = t PROVE FALSE
    BY DEF InQueue
  <2>1. queue[i] \in Entries /\ i \in Nat /\ 1 <= i
    BY DEF SearchInv, TypeOK
  <2>2. queue[1].depth <= queue[i].depth /\ Reached(queue[i], Start)
    BY <1>1, <2>1 DEF SearchInv, InOrder
  <2>3. e \in 0..(queue[i].depth - 1)
    BY <1>1, <2>1, <2>2 DEF Entries
  <2>4. QED
    BY <2>2, <2>3 DEF Reached
<1>4. QED
  BY <1>1, <1>2, <1>3 DEF SearchInv, Settled, Popped

LEMMA FoundIsHazard ==
  ASSUME SearchInv, FindContract
  PROVE  LET h == Hazard(ContractOf(entry.type), field, entry.path)
         IN  RealHazard(h) /\ NearestHazard(h)
<1> DEFINE h == Hazard(ContractOf(entry.type), field, entry.path)
<1>1. Popping /\ ~IsBoundary /\ IsDeclared
  BY DEF FindContract
<1>2. /\ Searching /\ entry.type \in Types /\ entry.depth \in 0..MaxDepth
      /\ entry = queue[1] /\ 1 \in DOMAIN queue
  BY <1>1, EntryIsTyped DEF SearchInv
<1>3. crate \in Crates /\ Expanded /\ field \in Nat /\ field # 0
  BY <1>1, <1>2, CrateTypes DEF SearchInv, Control, Popping
<1>4. /\ Affine(entry.type) /\ ContractOf(entry.type).path = AdtOf[entry.type]
      /\ ContractOf(entry.type).reason \in DeclaredReason(AdtOf[entry.type])
  BY <1>1, <1>2, <1>3, DeclaredIsAffine DEF IsBoundary, IsDeclared
<1>5. Reached(entry, Start)
  BY <1>2 DEF SearchInv, InOrder
<1>6. /\ h.path = AdtOf[entry.type] /\ h.reason \in DeclaredReason(h.path)
      /\ h.field = field /\ h.through = entry.path
  BY <1>4 DEF Hazard
<1>7. RealHazard(h)
  <2>1. Leads(crate.fields[h.field], entry.type, entry.depth, h.through)
    BY <1>5, <1>6 DEF Reached, Start
  <2> HIDE DEF h
  <2>2. QED
    BY <2>1, <1>2, <1>3, <1>4, <1>6 DEF RealHazard
<1>8. NearestHazard(h)
  <2>1. \A e \in 0..(entry.depth - 1) : ~AffineWithin(crate.fields[h.field], e)
    BY <1>1, <1>6, NearerIsHarmless DEF Start
  <2>2. entry.type \in Within(crate.fields[h.field], entry.depth)
    BY <1>5, <1>6 DEF Reached, Start
  <2> HIDE DEF h
  <2>3. QED
    BY <2>1, <2>2, <1>2, <1>4, <1>6 DEF NearestHazard
<1>9. QED
  BY <1>7, <1>8

LEMMA SelfIsHazard ==
  ASSUME Control, ContractOnSelf
  PROVE  LET h == Hazard(contract_for_adt(crate.self), 0, <<>>)
         IN  RealHazard(h) /\ NearestHazard(h)
<1>1. crate \in Crates /\ Expanded /\ crate.self \in Adts /\ contract_for_adt(crate.self) # Nothing
  BY CrateTypes, NamesAssumption DEF Control, ContractOnSelf, NamesAssumption
<1>2. /\ contract_for_adt(crate.self).path = crate.self
      /\ contract_for_adt(crate.self).reason \in DeclaredReason(crate.self)
  BY <1>1, ContractIsDeclared
<1>3. QED
  BY <1>2 DEF Hazard, RealHazard, NearestHazard

LEMMA HazardInvKept ==
  ASSUME SearchInv, HazardInv, [Next]_vars
  PROVE  HazardInv'
<1> DEFINE Good(h) == RealHazard(h) /\ NearestHazard(h)
<1>1. \A h : Good(h)' <=> Good(h)
  <2>1. crate' = crate
    BY CrateIsFixed
  <2>2. \A a : DeclaredReason(a)' = DeclaredReason(a)
    BY <2>1 DEF DeclaredReason, Literals, Configured
  <2>3. \A t, d : AffineWithin(t, d)' <=> AffineWithin(t, d)
    BY <2>1, Frozen DEF AffineWithin
  <2>4. \A h : RealHazard(h)' <=> RealHazard(h)
    BY <2>1, <2>2, Frozen DEF RealHazard
  <2>5. \A h : NearestHazard(h)' <=> NearestHazard(h)
    BY <2>1, <2>3, Frozen DEF NearestHazard
  <2>6. QED
    BY <2>4, <2>5
<1>2. \A n \in DOMAIN hazards : Good(hazards[n])
  BY DEF HazardInv
<1>3. SUFFICES ASSUME NEW n \in DOMAIN hazards' PROVE Good(hazards'[n])
  BY <1>1 DEF HazardInv
<1>4. CASE hazards' = hazards
  BY <1>2, <1>4
<1>5. CASE FindContract
  <2> DEFINE h == Hazard(ContractOf(entry.type), field, entry.path)
  <2>1. Good(h) /\ hazards' = Append(hazards, h)
    BY <1>5, FoundIsHazard DEF FindContract
  <2>2. hazards \in Seq([path: Adts, reason: Reasons, field: Nat, through: Seq(Adts)])
    BY DEF SearchInv, TypeOK
  <2> HIDE DEF h, Good
  <2>3. (n \in DOMAIN hazards /\ hazards'[n] = hazards[n]) \/ hazards'[n] = h
    BY <2>1, <2>2
  <2>4. QED
    BY <2>1, <2>3, <1>2
<1>6. CASE ContractOnSelf
  <2> DEFINE h == Hazard(contract_for_adt(crate.self), 0, <<>>)
  <2>1. Good(h) /\ hazards' = <<h>>
    BY <1>6, SelfIsHazard DEF SearchInv, ContractOnSelf
  <2> HIDE DEF h, Good
  <2>2. QED
    BY <2>1
<1>7. QED
  BY <1>4, <1>5, <1>6, HazardsGrow

LEMMA HazardInvHolds ==
  Spec => []HazardInv
<1>1. Init => HazardInv
  BY DEF Init, HazardInv
<1>2. SearchInv /\ HazardInv /\ [Next]_vars => HazardInv'
  BY HazardInvKept
<1>3. QED
  BY <1>1, <1>2, SearchInvHolds, PTL DEF Spec

\* The search is sound: the variables are typed, the queue is in order of depth
\* with every type at its distance from the field, and a hazard is a chain of
\* owned types to a declared one (unsafe_send_thread_affine_drop.rs:199).
THEOREM SearchSound ==
  Spec => []SearchIsSound
<1>1. SearchInv /\ HazardInv => SearchIsSound
  <2> SUFFICES ASSUME SearchInv, HazardInv PROVE SearchIsSound
    OBVIOUS
  <2>1. TypeOK
    BY DEF SearchInv
  <2>2. ShallowestFirst
    <3>1. CASE Searching
      <4> SUFFICES ASSUME NEW i \in DOMAIN queue
                   PROVE  /\ \A j \in 1..i : queue[j].depth <= queue[i].depth
                          /\ queue[i].type \in Within(Start, queue[i].depth)
                          /\ \A d \in 0..(queue[i].depth - 1) : queue[i].type \notin Within(Start, d)
        BY DEF ShallowestFirst, Start
      <4>1. \A j \in 1..i : j \in DOMAIN queue /\ j <= i
        BY DEF SearchInv, TypeOK
      <4>2. QED
        BY <4>1, <3>1 DEF SearchInv, InOrder, Reached
    <3>2. CASE ~Searching
      BY <3>2 DEF SearchInv, Control, ShallowestFirst
    <3>3. QED
      BY <3>1, <3>2
  <2>3. HazardsAreReal
    BY DEF HazardInv, RealHazard, HazardsAreReal
  <2>4. QED
    BY <2>1, <2>2, <2>3 DEF SearchIsSound
<1>2. QED
  BY <1>1, SearchInvHolds, HazardInvHolds, PTL

\* Of the declared types a field drops the label names a nearest one, whatever
\* the limits: breadth first with a budget does not skip.
THEOREM NearestNamed ==
  Spec => []NearestIsNamed
<1>1. HazardInv => NearestIsNamed
  BY DEF HazardInv, NearestHazard, NearestIsNamed
<1>2. QED
  BY <1>1, HazardInvHolds, PTL

-----------------------------------------------------------------------------
(***************************************************************************)
(* The limit on edges: what has been paid for.                             *)
(***************************************************************************)
LEMMA EdgeIn ==
  \A S, m : m \in EdgesOf(S) <=>
    \E t \in S : \E i \in DOMAIN crate.owns[t] : m = <<t, i>> /\ Drops(t) # {} /\ ~Affine(t)
BY DEF EdgesOf

LEMMA FiniteImage ==
  ASSUME NEW T, IsFiniteSet(T), NEW f
  PROVE  IsFiniteSet({f[t] : t \in T})
<1> DEFINE I == {f[t] : t \in T}
           g == [t \in T |-> f[t]]
<1>1. g \in Surjection(T, I)
  BY DEF Surjection
<1>2. QED
  BY <1>1, FS_Surjection

LEMMA FiniteUnion ==
  ASSUME NEW T, IsFiniteSet(T), NEW f, \A t \in T : IsFiniteSet(f[t])
  PROVE  IsFiniteSet(UNION {f[t] : t \in T})
<1> DEFINE I == {f[t] : t \in T}
<1>1. IsFiniteSet(I)
  BY FiniteImage
<1>2. \A s \in I : IsFiniteSet(s)
  OBVIOUS
<1> HIDE DEF I
<1>3. IsFiniteSet(UNION I)
  BY <1>1, <1>2, FS_UNION
<1>4. QED
  BY <1>3 DEF I

LEMMA WithinIsFinite ==
  ASSUME crate \in Crates, NEW type \in Types
  PROVE  \A d \in Nat : IsFiniteSet(Within(type, d))
<1> DEFINE S == {d \in Nat : IsFiniteSet(Within(type, d))}
<1>1. 0 \in S
  BY Levels, FS_Singleton
<1>2. \A d \in Nat : d \in S => d + 1 \in S
  <2> SUFFICES ASSUME NEW d \in Nat, IsFiniteSet(Within(type, d))
               PROVE  IsFiniteSet(Within(type, d + 1))
    OBVIOUS
  <2> DEFINE L == Within(type, d)
             f == [t \in L |-> Drops(t)]
  <2>1. \A t \in L : IsFiniteSet(f[t])
    <3> TAKE t \in L
    <3>1. t \in Types
      BY Levels
    <3>2. crate.owns[t] \in Seq(Types)
      BY <3>1, CrateTypes
    <3> DEFINE o == crate.owns[t]
    <3>3. IsFiniteSet(DOMAIN o)
      <4>1. DOMAIN o = 1..Len(o) /\ Len(o) \in Int /\ 1 \in Int
        BY <3>2
      <4>2. QED
        BY <4>1, FS_Interval
    <3>4. IsFiniteSet({o[i] : i \in DOMAIN o})
      BY <3>3, FiniteImage
    <3>5. IsFiniteSet(Drops(t))
      BY <3>4, FS_EmptySet DEF Drops
    <3>6. QED
      BY <3>5
  <2>2. IsFiniteSet(UNION {f[t] : t \in L})
    <3> HIDE DEF f, L
    <3> QED
      BY <2>1, FiniteUnion DEF L
  <2>3. IsFiniteSet(L \union UNION {f[t] : t \in L})
    <3> HIDE DEF f
    <3> QED
      BY <2>2, FS_Union
  <2>4. Within(type, d + 1) \in SUBSET (L \union UNION {f[t] : t \in L})
    <3>1. Within(type, d + 1) = Beyond(L)
      BY Levels
    <3>2. Beyond(L) \subseteq L \union UNION {f[t] : t \in L}
      BY DEF Beyond
    <3>3. QED
      BY <3>1, <3>2
  <2>5. QED
    BY <2>3, <2>4, FS_Subset
<1>3. \A d \in Nat : d \in S
  <2> HIDE DEF S
  <2> QED
    BY <1>1, <1>2, Induction
<1>4. QED
  BY <1>3

LEMMA EdgesAreFinite ==
  ASSUME crate \in Crates, NEW S \in SUBSET Types, IsFiniteSet(S)
  PROVE  IsFiniteSet(EdgesOf(S))
<1> DEFINE f == [t \in S |-> {<<t, i>> : i \in DOMAIN crate.owns[t]}]
<1>1. \A t \in S : IsFiniteSet(f[t])
  <2> TAKE t \in S
  <2> DEFINE o == crate.owns[t]
             g == [i \in DOMAIN o |-> <<t, i>>]
  <2>1. IsFiniteSet(DOMAIN o)
    <3>1. o \in Seq(Types)
      BY CrateTypes
    <3>2. DOMAIN o = 1..Len(o) /\ Len(o) \in Int /\ 1 \in Int
      BY <3>1
    <3>3. QED
      BY <3>2, FS_Interval
  <2>2. IsFiniteSet({g[i] : i \in DOMAIN o})
    <3> HIDE DEF g, o
    <3> QED
      BY <2>1, FiniteImage
  <2>3. f[t] = {g[i] : i \in DOMAIN o}
    OBVIOUS
  <2>4. QED
    BY <2>2, <2>3
<1>2. IsFiniteSet(UNION {f[t] : t \in S})
  <2> HIDE DEF f
  <2> QED
    BY <1>1, FiniteUnion
<1>3. EdgesOf(S) \in SUBSET UNION {f[t] : t \in S}
  BY EdgeIn
<1>4. QED
  BY <1>2, <1>3, FS_Subset

\* The edges that have been taken, each paid for once; all of them are in the
\* order of depth: if one is from beyond d, all from within d are among them.
BudgetOf(E) ==
  /\ E \subseteq EdgesOf(visited) /\ IsFiniteSet(E) /\ Cardinality(E) = MaxEdges - remaining
  /\ \A m \in E : /\ m[1] \in visited /\ ~InQueue(m[1])
                  /\ crate.owns[m[1]][m[2]] \in visited
  /\ \A d \in Nat : (\E m \in E : m[1] \notin Within(Start, d)) => EdgesOf(Within(Start, d)) \subseteq E
  /\ remaining > 0 => \A t \in visited : Popped(t) /\ Inner(t) => EdgesOf({t}) \subseteq E

\* How far the iterator over the parts of the owner has come.
CursorOf(E) ==
  LET parts == owned_types(owner.type)
      taken == Len(parts) - Len(owned)
  IN  /\ taken \in Nat
      /\ \A i \in DOMAIN owned : owned[i] = parts[taken + i]
      /\ \A i \in DOMAIN parts : <<owner.type, i>> \in E <=> i <= taken

Distinct ==
  /\ \A i, j \in DOMAIN queue : queue[i].type = queue[j].type => i = j
  /\ pc = "edges" => ~InQueue(owner.type)

BudgetInv ==
  Searching => Distinct /\ \E E : BudgetOf(E) /\ (pc = "edges" => CursorOf(E))

LEMMA EdgesAreFrozen ==
  ASSUME crate' = crate
  PROVE  \A S : EdgesOf(S)' = EdgesOf(S)
BY Frozen DEF EdgesOf

LEMMA BudgetStart ==
  ASSUME SearchInv, StartField
  PROVE  BudgetInv'
<1>1. /\ pc' = "search" /\ visited' = {Start} /\ remaining' = MaxEdges /\ MaxEdges \in Nat
      /\ queue' = <<[type |-> Start, depth |-> 0, path |-> <<>>]>>
  BY BoundsAssumption DEF StartField, Start, BoundsAssumption
<1>2. Start' = Start
  BY StartIsFrozen DEF StartField
<1>3. DOMAIN queue' = {1} /\ queue'[1].type = Start
  BY <1>1
<1>4. Distinct'
  BY <1>1, <1>3 DEF Distinct
<1>5. BudgetOf({})'
  <2>1. IsFiniteSet({}) /\ Cardinality({}) = MaxEdges - remaining'
    BY <1>1, FS_EmptySet
  <2>2. \A t \in visited' : ~Popped(t)'
    BY <1>1, <1>3 DEF Popped, InQueue
  <2>3. QED
    BY <2>1, <2>2 DEF BudgetOf
<1>6. QED
  BY <1>1, <1>4, <1>5 DEF BudgetInv

LEMMA BudgetPop ==
  ASSUME SearchInv, BudgetInv, Popping, queue' = Tail(queue),
         UNCHANGED <<crate, field, visited, remaining, pc>>,
         remaining > 0 /\ Inner(entry.type) => EdgesOf({entry.type}) = {}
  PROVE  BudgetInv'
<1>1. /\ queue \in Seq(Entries) /\ queue # <<>> /\ pc = "search" /\ Searching /\ entry = queue[1]
  BY EntryIsTyped DEF SearchInv
<1>2. /\ Start' = Start
      /\ \A d : Within(Start, d)' = Within(Start, d)
      /\ \A t : Inner(t)' <=> Inner(t)
      /\ \A S : EdgesOf(S)' = EdgesOf(S)
  BY StartIsFrozen, EdgesAreFrozen
<1>3. /\ \A i \in DOMAIN queue' : i \in Nat /\ i + 1 \in DOMAIN queue /\ queue'[i] = queue[i + 1]
      /\ \A i \in DOMAIN queue : i = 1 \/ (i - 1 \in DOMAIN queue' /\ queue'[i - 1] = queue[i])
  BY <1>1, TailOf
<1>4. PICK E : Distinct /\ BudgetOf(E)
  BY <1>1 DEF BudgetInv
<1>5. \A t : InQueue(t)' => InQueue(t)
  BY <1>3 DEF InQueue
<1>6. \A t : InQueue(t) => InQueue(t)' \/ t = entry.type
  BY <1>1, <1>3 DEF InQueue
<1>7. Distinct'
  <2>1. ASSUME NEW i \in DOMAIN queue', NEW j \in DOMAIN queue', queue'[i].type = queue'[j].type
        PROVE  i = j
    <3>1. i + 1 = j + 1
      BY <2>1, <1>3, <1>4 DEF Distinct
    <3>2. QED
      BY <3>1, <1>3
  <2>2. QED
    BY <2>1, <1>1 DEF Distinct
<1>8. BudgetOf(E)'
  <2>1. ASSUME remaining > 0, NEW t \in visited, Popped(t)', Inner(t)
        PROVE  EdgesOf({t}) \subseteq E
    <3>1. CASE t = entry.type
      BY <2>1, <3>1
    <3>2. CASE t # entry.type
      BY <2>1, <3>2, <1>1, <1>4, <1>6 DEF BudgetOf, Popped
    <3>3. QED
      BY <3>1, <3>2
  <2>2. \A m \in E : m[1] \in visited /\ ~InQueue(m[1])' /\ crate.owns[m[1]][m[2]] \in visited
    BY <1>4, <1>5 DEF BudgetOf
  <2>3. QED
    BY <2>1, <2>2, <1>2, <1>4 DEF BudgetOf
<1>9. QED
  BY <1>1, <1>7, <1>8 DEF BudgetInv

LEMMA BudgetExplore ==
  ASSUME SearchInv, BudgetInv, ExploreType
  PROVE  BudgetInv'
<1>1. /\ queue \in Seq(Entries) /\ queue # <<>> /\ pc = "search" /\ Searching /\ entry = queue[1]
      /\ entry.type \in Types /\ 1 \in DOMAIN queue
  BY EntryIsTyped DEF SearchInv, ExploreType
<1>2. /\ Start' = Start
      /\ \A d : Within(Start, d)' = Within(Start, d)
      /\ \A t : Inner(t)' <=> Inner(t)
      /\ \A S : EdgesOf(S)' = EdgesOf(S)
  BY StartIsFrozen, EdgesAreFrozen DEF ExploreType
<1>3. /\ queue' = Tail(queue) /\ owner' = entry /\ owned' = owned_types(entry.type)
      /\ visited' = visited /\ pc' = "edges" /\ remaining' = remaining /\ crate' = crate
  BY DEF ExploreType
<1>4. /\ \A i \in DOMAIN queue' : i \in Nat /\ i + 1 \in DOMAIN queue /\ queue'[i] = queue[i + 1]
      /\ \A i \in DOMAIN queue : i = 1 \/ (i - 1 \in DOMAIN queue' /\ queue'[i - 1] = queue[i])
  BY <1>1, <1>3, TailOf
<1>5. PICK E : Distinct /\ BudgetOf(E)
  BY <1>1 DEF BudgetInv
<1>6. \A t : InQueue(t)' => InQueue(t)
  BY <1>4 DEF InQueue
<1>7. \A t : InQueue(t) => InQueue(t)' \/ t = entry.type
  BY <1>1, <1>4 DEF InQueue
<1>8. Distinct'
  <2>1. ASSUME NEW i \in DOMAIN queue', NEW j \in DOMAIN queue', queue'[i].type = queue'[j].type
        PROVE  i = j
    <3>1. i + 1 = j + 1
      BY <2>1, <1>4, <1>5 DEF Distinct
    <3>2. QED
      BY <3>1, <1>4
  <2>2. \A i \in DOMAIN queue' : queue'[i].type # owner'.type
    <3> TAKE i \in DOMAIN queue'
    <3>1. i + 1 \in DOMAIN queue /\ queue'[i] = queue[i + 1] /\ i + 1 # 1
      <4>1. queue' \in Seq(Entries)
        BY <1>1, <1>3
      <4>2. i \in Nat /\ i >= 1
        BY <4>1
      <4>3. QED
        BY <1>4, <4>2
    <3>2. queue[i + 1].type # queue[1].type
      BY <3>1, <1>1, <1>5 DEF Distinct
    <3>3. owner' = queue[1]
      BY <1>1, <1>3
    <3>4. QED
      BY <3>1, <3>2, <3>3
  <2>3. \A i, j \in DOMAIN queue' : queue'[i].type = queue'[j].type => i = j
    BY <2>1
  <2>4. QED
    BY <2>2, <2>3 DEF Distinct, InQueue
<1>9. BudgetOf(E)'
  <2>1. ASSUME remaining > 0, NEW t \in visited, Popped(t)', Inner(t)
        PROVE  EdgesOf({t}) \subseteq E
    BY <2>1, <1>1, <1>3, <1>5, <1>7 DEF BudgetOf, Popped
  <2>2. \A m \in E : m[1] \in visited /\ ~InQueue(m[1])' /\ crate.owns[m[1]][m[2]] \in visited
    BY <1>5, <1>6 DEF BudgetOf
  <2>3. QED
    BY <2>1, <2>2, <1>2, <1>3, <1>5 DEF BudgetOf
<1>10. CursorOf(E)'
  <2> DEFINE parts == owned_types(entry.type)
  <2>1. parts \in Seq(Types) /\ crate \in Crates
    BY <1>1, CrateTypes DEF owned_types, SearchInv, Control
  <2>2. owned_types(owner.type)' = parts
    BY <1>3 DEF owned_types
  <2>3. \A i : <<entry.type, i>> \notin E
    <3>1. InQueue(entry.type)
      BY <1>1 DEF InQueue
    <3>2. QED
      BY <3>1, <1>5 DEF BudgetOf
  <2> HIDE DEF parts
  <2>4. Len(parts) - Len(parts) = 0 /\ \A i \in DOMAIN parts : 0 + i = i /\ ~(i <= 0)
    BY <2>1
  <2>5. owned' = parts /\ owner' = entry
    BY <1>3 DEF parts
  <2>6. QED
    BY <2>2, <2>3, <2>4, <2>5 DEF CursorOf
<1>11. QED
  BY <1>3, <1>8, <1>9, <1>10 DEF BudgetInv

\* The edges from nearer types than the owner's have all been paid for.
LEMMA NearerIsPaid ==
  ASSUME SearchInv, pc = "edges", remaining > 0, NEW E, BudgetOf(E),
         NEW d \in Nat, owner.type \notin Within(Start, d)
  PROVE  EdgesOf(Within(Start, d)) \subseteq E
<1>1. /\ Searching /\ Reached(owner, Start) /\ owner.depth \in Nat /\ owner.depth < MaxDepth
      /\ crate \in Crates /\ Start \in Types /\ visited \subseteq Types
  <2>1. Searching
    BY DEF Searching
  <2>2. Reached(owner, Start) /\ owner.depth < MaxDepth
    BY DEF SearchInv, OwnerInv
  <2>3. owner \in Entries /\ visited \subseteq Types
    BY DEF SearchInv, TypeOK
  <2>4. owner.depth \in Nat
    BY <2>3 DEF Entries
  <2>5. crate \in Crates /\ field \in DOMAIN crate.fields
    BY <2>1 DEF SearchInv, Control
  <2>6. Start \in Types
    BY <2>5, CrateTypes DEF Start
  <2>7. QED
    BY <2>1, <2>2, <2>3, <2>4, <2>5, <2>6
<1>2. d < owner.depth
  <2> SUFFICES ASSUME owner.depth <= d PROVE FALSE
    BY <1>1
  <2>1. Within(Start, owner.depth) \subseteq Within(Start, d)
    BY <1>1, WithinGrows
  <2>2. QED
    BY <2>1, <1>1 DEF Reached
<1>3. ASSUME NEW t \in Within(Start, d)
      PROVE  EdgesOf({t}) \subseteq E
  <2>1. t \in visited
    <3>1. d \in 0..owner.depth
      BY <1>1, <1>2
    <3>2. QED
      BY <3>1, <1>1 DEF SearchInv, LevelsSeen
  <2>2. Inner(t)
    <3>1. d \in 0..(MaxDepth - 1)
      BY <1>1, <1>2, BoundsAssumption DEF BoundsAssumption
    <3>2. QED
      BY <3>1 DEF Inner
  <2>3. t # owner.type
    OBVIOUS
  <2>4. ~InQueue(t)
    <3> SUFFICES ASSUME NEW i \in DOMAIN queue, queue[i].type = t PROVE FALSE
      BY DEF InQueue
    <3>1. queue[i].depth \in Nat /\ owner.depth <= queue[i].depth /\ Reached(queue[i], Start)
      <4>1. queue[i] \in Entries
        BY DEF SearchInv, TypeOK
      <4>2. QED
        BY <4>1, <1>1 DEF Entries, SearchInv, OwnerInv, InOrder
    <3>2. d \in 0..(queue[i].depth - 1)
      BY <3>1, <1>1, <1>2
    <3>3. QED
      BY <3>1, <3>2 DEF Reached
  <2>5. QED
    BY <2>1, <2>2, <2>3, <2>4 DEF BudgetOf, Popped
<1>4. ASSUME NEW m \in EdgesOf(Within(Start, d)) PROVE m \in E
  <2>1. PICK t \in Within(Start, d) : m \in EdgesOf({t})
    BY EdgeIn
  <2>2. QED
    BY <2>1, <1>3
<1>5. QED
  BY <1>4

LEMMA BudgetEdge ==
  ASSUME SearchInv, BudgetInv, QueueChild \/ SkipVisited
  PROVE  BudgetInv'
<1> DEFINE parts == owned_types(owner.type)
           taken == Len(parts) - Len(owned)
           c == Head(owned)
           edge == <<owner.type, taken + 1>>
<1>1. /\ pc = "edges" /\ pc' = "edges" /\ Searching
      /\ queue \in Seq(Entries) /\ owner \in Entries /\ owned \in Seq(Types) /\ owned # <<>>
      /\ remaining > 0 /\ remaining' = remaining - 1 /\ remaining \in Nat /\ MaxEdges \in Nat
      /\ owner' = owner /\ owned' = Tail(owned) /\ crate' = crate
      /\ crate \in Crates /\ owner.type \in Types /\ visited \subseteq Types
      /\ owner.type \in visited /\ ~Affine(owner.type)
  <2>1. /\ pc = "edges" /\ pc' = "edges" /\ owned # <<>> /\ remaining > 0
        /\ remaining' = remaining - 1 /\ owner' = owner /\ owned' = Tail(owned) /\ crate' = crate
    BY DEF QueueChild, SkipVisited, TakeEdge
  <2>2. /\ queue \in Seq(Entries) /\ owner \in Entries /\ owned \in Seq(Types)
        /\ remaining \in Nat /\ MaxEdges \in Nat /\ visited \subseteq Types
    BY <2>1, BoundsAssumption DEF SearchInv, TypeOK, BoundsAssumption
  <2>3. owner.type \in Types
    BY <2>2 DEF Entries
  <2>4. crate \in Crates /\ owner.type \in visited /\ ~Affine(owner.type)
    BY <2>1 DEF SearchInv, Control, OwnerInv
  <2>5. QED
    BY <2>1, <2>2, <2>3, <2>4 DEF Searching
<1>2. /\ Start' = Start
      /\ \A d : Within(Start, d)' = Within(Start, d)
      /\ \A t : Inner(t)' <=> Inner(t)
      /\ \A S : EdgesOf(S)' = EdgesOf(S)
  BY StartIsFrozen, EdgesAreFrozen DEF QueueChild, SkipVisited, TakeEdge
<1>3. PICK E : Distinct /\ BudgetOf(E) /\ CursorOf(E)
  BY <1>1 DEF BudgetInv
<1>4. /\ parts \in Seq(Types) /\ taken \in Nat /\ taken + 1 \in DOMAIN parts
      /\ c = owned[1] /\ 1 \in DOMAIN owned
      /\ c = parts[taken + 1]
  <2>1. parts \in Seq(Types)
    BY <1>1, CrateTypes DEF owned_types
  <2>2. taken \in Nat /\ \A i \in DOMAIN owned : owned[i] = parts[taken + i]
    BY <1>3 DEF CursorOf
  <2>3. c = owned[1] /\ 1 \in DOMAIN owned /\ Len(owned) \in Nat /\ Len(owned) >= 1
    BY <1>1, TailOf
  <2> HIDE DEF parts, c
  <2>4. taken + 1 \in DOMAIN parts
    BY <2>1, <2>2, <2>3
  <2>5. QED
    BY <2>1, <2>2, <2>3, <2>4
<1>5. parts = crate.owns[owner.type] /\ c \in Drops(owner.type)
  <2>1. c \in Drops(owner.type)
    BY <1>1, <1>4 DEF SearchInv, OwnerInv
  <2>2. QED
    BY <2>1 DEF owned_types, Drops
<1>6. \/ /\ c \notin visited /\ visited' = visited \union {c}
         /\ queue' = Append(queue, Queued(c))
      \/ c \in visited /\ visited' = visited /\ queue' = queue
  BY DEF QueueChild, SkipVisited
<1>7. edge \notin E /\ edge \in EdgesOf(visited)
  <2>1. edge \notin E
    BY <1>3, <1>4 DEF CursorOf
  <2>2. QED
    BY <2>1, <1>1, <1>4, <1>5, EdgeIn
<1>8. visited \subseteq visited' /\ c \in visited'
  BY <1>6
<1> HIDE DEF c
<1>9. \A t : InQueue(t)' <=> (InQueue(t) \/ (c \notin visited /\ t = c))
  <2>1. CASE c \in visited
    BY <2>1, <1>6 DEF InQueue
  <2>2. CASE c \notin visited
    <3> DEFINE q == Queued(c)
    <3>1. queue' = Append(queue, q) /\ q.type = c
      BY <2>2, <1>6 DEF Queued
    <3> HIDE DEF q
    <3>2. /\ \A i \in DOMAIN queue : i \in DOMAIN queue' /\ queue'[i] = queue[i]
          /\ \A i \in DOMAIN queue' : i \in DOMAIN queue \/ queue'[i] = q
          /\ Len(queue) + 1 \in DOMAIN queue' /\ queue'[Len(queue) + 1] = q
      BY <3>1, <1>1
    <3>3. QED
      BY <2>2, <3>1, <3>2 DEF InQueue
  <2>3. QED
    BY <2>1, <2>2
<1>10. Distinct'
  <2>1. ~InQueue(owner.type)'
    BY <1>1, <1>3, <1>9 DEF Distinct
  <2>2. ASSUME NEW i \in DOMAIN queue', NEW j \in DOMAIN queue', queue'[i].type = queue'[j].type
        PROVE  i = j
    <3>1. CASE c \in visited
      BY <3>1, <2>2, <1>3, <1>6 DEF Distinct
    <3>2. CASE c \notin visited
      <4> DEFINE q == Queued(c)
      <4>1. queue' = Append(queue, q) /\ q.type = c
        BY <3>2, <1>6 DEF Queued
      <4> HIDE DEF q
      <4>2. /\ \A k \in DOMAIN queue : queue'[k] = queue[k]
            /\ \A k \in DOMAIN queue' : k \in DOMAIN queue \/ (k = Len(queue) + 1 /\ queue'[k] = q)
        BY <4>1, <1>1
      <4>3. \A k \in DOMAIN queue : queue[k].type # c
        BY <3>2, <1>1 DEF SearchInv, InOrder
      <4>4. QED
        BY <2>2, <4>1, <4>2, <4>3, <1>3 DEF Distinct
    <3>3. QED
      BY <3>1, <3>2
  <2>3. QED
    BY <2>1, <2>2, <1>1 DEF Distinct, InQueue
<1>14. PICK F : F = E \union {edge}
  OBVIOUS
<1>11. BudgetOf(F)'
  <2>1. F \subseteq EdgesOf(visited') /\ IsFiniteSet(F) /\ Cardinality(F) = MaxEdges - remaining'
    <3>1. E \subseteq EdgesOf(visited) /\ IsFiniteSet(E) /\ Cardinality(E) = MaxEdges - remaining
      BY <1>3 DEF BudgetOf
    <3>2. EdgesOf(visited) \subseteq EdgesOf(visited')
      BY <1>8, EdgeIn
    <3>3. IsFiniteSet(F) /\ Cardinality(F) = Cardinality(E) + 1
      BY <3>1, <1>7, <1>14, FS_AddElement
    <3>4. Cardinality(F) = MaxEdges - remaining'
      BY <3>1, <3>3, <1>1
    <3>5. QED
      BY <3>1, <3>2, <3>3, <3>4, <1>7, <1>8, <1>14, EdgeIn
  <2>2. \A m \in F : m[1] \in visited' /\ ~InQueue(m[1])' /\ crate.owns[m[1]][m[2]] \in visited'
    <3> TAKE m \in F
    <3>1. CASE m \in E
      <4>1. m[1] \in visited /\ ~InQueue(m[1]) /\ crate.owns[m[1]][m[2]] \in visited
        BY <3>1, <1>3 DEF BudgetOf
      <4>2. QED
        BY <4>1, <1>8, <1>9
    <3>2. CASE m = edge
      <4>1. m[1] = owner.type /\ crate.owns[m[1]][m[2]] = c
        BY <3>2, <1>4, <1>5
      <4>2. ~InQueue(owner.type)
        BY <1>1, <1>3 DEF Distinct
      <4>3. QED
        BY <4>1, <4>2, <1>1, <1>8, <1>9
    <3>3. QED
      BY <3>1, <3>2, <1>14
  <2>3. \A d \in Nat : (\E m \in F : m[1] \notin Within(Start, d)) => EdgesOf(Within(Start, d)) \subseteq F
    <3> SUFFICES ASSUME NEW d \in Nat, NEW m \in F, m[1] \notin Within(Start, d)
                 PROVE  EdgesOf(Within(Start, d)) \subseteq E
      BY <1>14
    <3>1. CASE m \in E
      BY <3>1, <1>3 DEF BudgetOf
    <3>2. CASE m = edge
      BY <3>2, <1>1, <1>3, NearerIsPaid
    <3>3. QED
      BY <3>1, <3>2, <1>14
  <2>4. ASSUME remaining' > 0, NEW t \in visited', Popped(t)', Inner(t)
        PROVE  EdgesOf({t}) \subseteq F
    <3>1. t \in visited /\ Popped(t)
      BY <2>4, <1>1, <1>6, <1>9 DEF Popped
    <3>2. EdgesOf({t}) \subseteq E
      BY <2>4, <3>1, <1>1, <1>3 DEF BudgetOf
    <3>3. QED
      BY <3>2, <1>14
  <2>5. QED
    BY <2>1, <2>2, <2>3, <2>4, <1>1, <1>2 DEF BudgetOf
<1>12. CursorOf(F)'
  <2>1. owned_types(owner.type)' = parts
    BY <1>1 DEF owned_types
  <2>2. /\ Len(owned') = Len(owned) - 1 /\ Len(owned) \in Nat
        /\ \A i \in DOMAIN owned' : i \in Nat /\ i + 1 \in DOMAIN owned /\ owned'[i] = owned[i + 1]
    BY <1>1, TailOf
  <2>3. Len(parts) - Len(owned') = taken + 1 /\ Len(parts) \in Nat
    <3>1. Len(parts) \in Nat
      BY <1>4
    <3>2. QED
      BY <2>2, <3>1
  <2>4. \A i \in DOMAIN owned' : owned'[i] = parts[(taken + 1) + i]
    <3> TAKE i \in DOMAIN owned'
    <3>1. owned'[i] = parts[taken + (i + 1)]
      BY <2>2, <1>3 DEF CursorOf
    <3>2. taken + (i + 1) = (taken + 1) + i
      BY <2>2, <1>4
    <3>3. QED
      BY <3>1, <3>2
  <2>5. \A i \in DOMAIN parts : <<owner.type, i>> \in F <=> i <= taken + 1
    <3> TAKE i \in DOMAIN parts
    <3>1. <<owner.type, i>> \in E <=> i <= taken
      BY <1>3 DEF CursorOf
    <3>2. i \in Nat
      BY <1>4
    <3>3. <<owner.type, i>> = edge <=> i = taken + 1
      OBVIOUS
    <3>4. QED
      BY <3>1, <3>2, <3>3, <1>4, <1>14
  <2> HIDE DEF parts
  <2>6. QED
    BY <2>1, <2>3, <2>4, <2>5, <1>1, <1>4 DEF CursorOf
<1>13. QED
  BY <1>1, <1>10, <1>11, <1>12 DEF BudgetInv

LEMMA BudgetEnd ==
  ASSUME SearchInv, BudgetInv, EndOfEdges
  PROVE  BudgetInv'
<1>1. /\ pc = "edges" /\ pc' = "search" /\ Searching /\ owner' = owner
      /\ remaining' = remaining /\ queue' = queue /\ visited' = visited
      /\ owned = <<>> \/ remaining = 0
  BY DEF EndOfEdges, search, Searching
<1>2. /\ Start' = Start /\ crate' = crate
      /\ \A d : Within(Start, d)' = Within(Start, d)
      /\ \A t : Inner(t)' <=> Inner(t)
      /\ \A S : EdgesOf(S)' = EdgesOf(S)
  BY StartIsFrozen, EdgesAreFrozen DEF EndOfEdges
<1>3. PICK E : Distinct /\ BudgetOf(E) /\ CursorOf(E)
  BY <1>1 DEF BudgetInv
<1>4. ASSUME remaining > 0, NEW t \in visited, Popped(t)', Inner(t)
      PROVE  EdgesOf({t}) \subseteq E
  <2>1. CASE t # owner.type
    BY <2>1, <1>1, <1>3, <1>4 DEF BudgetOf, Popped, InQueue
  <2>2. CASE t = owner.type
    <3> DEFINE parts == owned_types(t)
    <3>1. crate \in Crates /\ t \in Types
      BY <2>2, <1>1 DEF SearchInv, Control, TypeOK, Entries
    <3>2. parts \in Seq(Types)
      BY <3>1, CrateTypes DEF owned_types
    <3>3. Len(owned) = 0
      BY <1>1, <1>4
    <3>4. \A i \in DOMAIN parts : <<t, i>> \in E
      BY <2>2, <3>2, <3>3, <1>3 DEF CursorOf
    <3>5. Drops(t) # {} => parts = crate.owns[t]
      BY DEF owned_types, Drops
    <3> HIDE DEF parts
    <3>6. QED
      BY <3>4, <3>5, EdgeIn
  <2>3. QED
    BY <2>1, <2>2
<1>5. BudgetOf(E)'
  BY <1>1, <1>2, <1>3, <1>4 DEF BudgetOf, InQueue
<1>6. QED
  BY <1>1, <1>3, <1>5 DEF BudgetInv, Distinct

LEMMA BudgetInvHolds ==
  Spec => []BudgetInv
<1>1. Init => BudgetInv
  BY DEF Init, BudgetInv, Searching
<1>2. ASSUME SearchInv, BudgetInv, [Next]_vars PROVE BudgetInv'
  <2>1. CASE StartField
    BY <2>1, <1>2, BudgetStart
  <2>2. CASE StopAtBoundary
    <3>1. Drops(entry.type) = {}
      BY <2>2, <1>2, EntryIsJudged DEF SearchInv, StopAtBoundary
    <3>2. EdgesOf({entry.type}) = {}
      BY <3>1, EdgeIn
    <3>3. QED
      BY <3>2, <2>2, <1>2, BudgetPop DEF StopAtBoundary
  <2>3. CASE LeaveUnexplored
    <3>1. ~(remaining > 0 /\ Inner(entry.type))
      BY <2>3, <1>2, LeftIsOuter
    <3>2. QED
      BY <3>1, <2>3, <1>2, BudgetPop DEF LeaveUnexplored
  <2>4. CASE ExploreType
    BY <2>4, <1>2, BudgetExplore
  <2>5. CASE QueueChild \/ SkipVisited
    BY <2>5, <1>2, BudgetEdge
  <2>6. CASE EndOfEdges
    BY <2>6, <1>2, BudgetEnd
  <2>7. CASE UNCHANGED vars
    <3>1. /\ crate' = crate /\ field' = field /\ queue' = queue /\ visited' = visited
          /\ owner' = owner /\ owned' = owned /\ remaining' = remaining /\ pc' = pc
      BY <2>7 DEF vars, search
    <3>2. /\ Start' = Start
          /\ \A d : Within(Start, d)' = Within(Start, d)
          /\ \A t : Inner(t)' <=> Inner(t)
          /\ \A S : EdgesOf(S)' = EdgesOf(S)
      BY <3>1, StartIsFrozen, EdgesAreFrozen
    <3>3. \A t : owned_types(t)' = owned_types(t)
      BY <3>1 DEF owned_types
    <3>4. (Distinct' <=> Distinct) /\ (Searching' <=> Searching)
      BY <3>1 DEF Distinct, InQueue, Searching
    <3>5. \A E : BudgetOf(E)' <=> BudgetOf(E)
      BY <3>1, <3>2 DEF BudgetOf, InQueue, Popped
    <3>6. \A E : CursorOf(E)' <=> CursorOf(E)
      BY <3>1, <3>3 DEF CursorOf
    <3>7. QED
      BY <1>2, <3>1, <3>4, <3>5, <3>6 DEF BudgetInv
  <2>8. CASE ~Searching'
    BY <2>8 DEF BudgetInv
  <2>9. CASE FindContract \/ FieldIsSilent
    BY <2>8, <2>9 DEF FindContract, FieldIsSilent, NextField, Searching
  <2>10. CASE ExpandAttributes \/ RejectAttribute \/ PassOver \/ ContractOnSelf \/ check_item \/ Emit
    BY <2>8, <2>10 DEF ExpandAttributes, RejectAttribute, PassOver, ContractOnSelf, check_item, Emit, Searching
  <2>11. QED
    BY <1>2, <2>1, <2>2, <2>3, <2>4, <2>5, <2>6, <2>7, <2>9, <2>10 DEF Next, find_thread_affine_type
<1>3. QED
  BY <1>1, <1>2, SearchInvHolds, PTL DEF Spec

\* Once the queue is empty, the field owns no declared type that the limits let
\* the search reach.
LEMMA SilentIsClear ==
  ASSUME SearchInv, BudgetInv, pc = "search", queue = <<>>, NEW d \in 0..MaxDepth,
         d = 0 \/ Cardinality(EdgesOf(Within(Start, d - 1))) <= MaxEdges
  PROVE  ~AffineWithin(Start, d)
<1>1. /\ Searching /\ crate \in Crates /\ Start \in Types /\ Start \in visited
      /\ MaxDepth \in Nat /\ MaxEdges \in Nat /\ remaining \in Nat
  BY BoundsAssumption, CrateTypes
  DEF Searching, SearchInv, Control, InOrder, TypeOK, Start, BoundsAssumption
<1>2. \A t \in visited : Popped(t)
  BY DEF Popped, InQueue
<1>3. Within(Start, d) \subseteq visited
  <2>1. CASE d = 0
    BY <2>1, <1>1, Levels
  <2>2. CASE d # 0
    <3> DEFINE near == Within(Start, d - 1)
    <3>1. d - 1 \in Nat /\ \A e \in Nat : e < d => e \in 0..(MaxDepth - 1) /\ e <= d - 1
      BY <2>2, <1>1
    <3>2. PICK E : BudgetOf(E)
      BY <1>1 DEF BudgetInv
    <3>3. remaining = 0 => EdgesOf(near) \subseteq E
      <4> SUFFICES ASSUME remaining = 0, \A m \in E : m[1] \in near
                   PROVE  EdgesOf(near) = E
        BY <3>1, <3>2 DEF BudgetOf
      <4>1. E \subseteq EdgesOf(near)
        BY <3>2, EdgeIn DEF BudgetOf
      <4>2. IsFiniteSet(EdgesOf(near))
        <5>1. near \subseteq Types /\ IsFiniteSet(near)
          BY <1>1, <3>1, Levels, WithinIsFinite
        <5>2. QED
          BY <5>1, <1>1, EdgesAreFinite
      <4>3. Cardinality(E) = MaxEdges
        BY <3>2, <1>1 DEF BudgetOf
      <4>4. /\ Cardinality(E) <= Cardinality(EdgesOf(near))
            /\ Cardinality(E) = Cardinality(EdgesOf(near)) => E = EdgesOf(near)
        BY <4>1, <4>2, FS_Subset
      <4>5. Cardinality(EdgesOf(near)) \in Nat
        BY <4>2, FS_CardinalityType
      <4>6. QED
        BY <4>3, <4>4, <4>5, <2>2, <1>1
    <3>4. ASSUME NEW e \in Nat, e < d, NEW t \in Within(Start, e), t \in visited, ~Affine(t)
          PROVE  Drops(t) \subseteq visited
      <4>1. CASE remaining > 0
        <5>1. Inner(t)
          BY <3>1, <3>4 DEF Inner
        <5>2. QED
          BY <5>1, <4>1, <3>4, <1>1, <1>2 DEF SearchInv, Settled
      <4>2. CASE remaining = 0
        <5>1. t \in near
          BY <3>1, <3>4, <1>1, WithinGrows
        <5>2. ASSUME NEW x \in Drops(t) PROVE x \in visited
          <6>1. PICK i \in DOMAIN crate.owns[t] : x = crate.owns[t][i]
            BY <5>2 DEF Drops
          <6>2. <<t, i>> \in E
            BY <5>1, <5>2, <3>4, <4>2, <3>3, EdgeIn
          <6>3. QED
            BY <6>1, <6>2, <3>2 DEF BudgetOf
        <5>3. QED
          BY <5>2
      <4>3. QED
        BY <4>1, <4>2, <1>1
    <3>5. QED
      BY <3>1, <3>4, <1>1, ClosedContains
  <2>3. QED
    BY <2>1, <2>2
<1>4. QED
  BY <1>1, <1>2, <1>3 DEF AffineWithin, SearchInv, Settled

\* What the search of the fields before has come to.
Found(f) ==
  \A d \in 0..MaxDepth :
    /\ AffineWithin(crate.fields[f], d)
    /\ d = 0 \/ Cardinality(EdgesOf(Within(crate.fields[f], d - 1))) <= MaxEdges
    => \E n \in DOMAIN hazards : hazards[n].field = f
MissInv ==
  /\ pc \in {"expand", "item"} => field = 1
  /\ pc = "field" \/ Searching =>
       /\ Audited /\ DeclaredReason(crate.self) = {}
       /\ \A f \in DOMAIN crate.fields : f < field => Found(f)
  /\ NothingMissed

LEMMA MissInvKept ==
  ASSUME SearchInv, BudgetInv, MissInv, [Next]_vars
  PROVE  MissInv'
<1>1. crate' = crate
  BY CrateIsFixed
<1>2. /\ \A t, d : AffineWithin(t, d)' <=> AffineWithin(t, d)
      /\ \A t, d : EdgesOf(Within(t, d))' = EdgesOf(Within(t, d))
      /\ DeclaredReason(crate.self)' = DeclaredReason(crate.self)
      /\ Audited' <=> Audited
  BY <1>1, Frozen, EdgesAreFrozen DEF AffineWithin, DeclaredReason, Literals, Configured, Audited
<1>3. crate \in Crates /\ crate.fields \in Seq(Types) /\ field \in Nat
  BY CrateTypes DEF SearchInv, Control, TypeOK
<1>4. \A f : Found(f) /\ (\A n \in DOMAIN hazards : n \in DOMAIN hazards' /\ hazards'[n] = hazards[n]) => Found(f)'
  BY <1>1, <1>2 DEF Found
<1>5. hazards' = hazards => \A f : Found(f) => Found(f)'
  BY <1>4
<1>6. CASE UNCHANGED vars
  BY <1>6, <1>1, <1>2, <1>5 DEF vars, MissInv, NothingMissed, Searching, Found
<1>7. CASE ExpandAttributes \/ RejectAttribute \/ PassOver
  BY <1>7, <1>2
  DEF ExpandAttributes, RejectAttribute, PassOver, MissInv, NothingMissed, Searching
<1>8. CASE ContractOnSelf
  <2> DEFINE h == Hazard(contract_for_adt(crate.self), 0, <<>>)
  <2>1. DeclaredReason(crate.self) # {}
    BY <1>3, <1>8, ContractIsDeclared, CrateTypes, NamesAssumption
    DEF ContractOnSelf, SearchInv, Control, NamesAssumption
  <2>2. hazards' = <<h>> /\ h.field = 0 /\ pc' = "done"
    BY <1>8 DEF ContractOnSelf, Hazard
  <2> HIDE DEF h
  <2>3. Len(hazards') = 1 /\ hazards'[1].field = 0
    BY <2>2
  <2>4. QED
    BY <2>1, <2>2, <2>3, <1>2 DEF MissInv, NothingMissed, Searching
<1>9. CASE check_item
  <2>1. DeclaredReason(crate.self) = {}
    BY <1>3, <1>9, ContractIsDeclared, CrateTypes, NamesAssumption
    DEF check_item, SearchInv, Control, NamesAssumption
  <2>2. pc' = "field" /\ field' = 1 /\ Audited
    BY <1>9 DEF check_item, MissInv
  <2>3. \A f \in DOMAIN crate.fields : ~(f < 1)
    BY <1>3
  <2>4. QED
    BY <2>1, <2>2, <2>3, <1>1, <1>2 DEF MissInv, NothingMissed
<1>10. CASE (pc = "field" \/ Searching) /\ (pc' = "field" \/ Searching') /\ field' = field /\ hazards' = hazards
  BY <1>10, <1>1, <1>2, <1>5 DEF MissInv, NothingMissed, Searching
<1>11. CASE StartField \/ StopAtBoundary \/ LeaveUnexplored \/ ExploreType \/ QueueChild \/ SkipVisited \/ EndOfEdges
  BY <1>10, <1>11
  DEF StartField, StopAtBoundary, LeaveUnexplored, ExploreType, QueueChild, SkipVisited, EndOfEdges,
      TakeEdge, Popping, Searching
<1>12. ASSUME Searching, pc' = "field", field' = field + 1, \A f : f = field => Found(f)',
              \A n \in DOMAIN hazards : n \in DOMAIN hazards' /\ hazards'[n] = hazards[n]
       PROVE  MissInv'
  <2>1. \A f \in DOMAIN crate.fields : f < field + 1 => f < field \/ f = field
    BY <1>3
  <2>2. \A f \in DOMAIN crate.fields : f < field + 1 => Found(f)'
    <3> TAKE f \in DOMAIN crate.fields
    <3>1. CASE f = field
      BY <3>1, <1>12
    <3>2. CASE f # field
      BY <3>2, <2>1, <1>4, <1>12 DEF MissInv
    <3>3. QED
      BY <3>1, <3>2
  <2>3. QED
    BY <2>2, <1>1, <1>2, <1>12 DEF MissInv, NothingMissed
<1>13. CASE FindContract
  <2> DEFINE h == Hazard(ContractOf(entry.type), field, entry.path)
  <2>1. hazards' = Append(hazards, h) /\ h.field = field /\ pc' = "field" /\ field' = field + 1 /\ Searching
    BY <1>13 DEF FindContract, Hazard, NextField, Popping, Searching
  <2>2. hazards \in Seq([path: Adts, reason: Reasons, field: Nat, through: Seq(Adts)])
    BY DEF SearchInv, TypeOK
  <2> HIDE DEF h
  <2>3. /\ \A n \in DOMAIN hazards : n \in DOMAIN hazards' /\ hazards'[n] = hazards[n]
        /\ Len(hazards) + 1 \in DOMAIN hazards' /\ hazards'[Len(hazards) + 1].field = field
    BY <2>1, <2>2
  <2>4. \A f : f = field => Found(f)'
    BY <2>3 DEF Found
  <2>5. QED
    BY <1>12, <2>1, <2>3, <2>4
<1>14. CASE FieldIsSilent
  <2>1. pc = "search" /\ queue = <<>> /\ pc' = "field" /\ field' = field + 1 /\ Searching /\ hazards' = hazards
    BY <1>14 DEF FieldIsSilent, NextField, Searching
  <2>2. \A f : f = field => Found(f)
    BY <2>1, SilentIsClear DEF Found, Start
  <2>3. \A f : f = field => Found(f)'
    BY <1>5, <2>1, <2>2
  <2>4. QED
    BY <1>12, <2>1, <2>3
<1>15. CASE Emit
  <2>1. pc = "field" /\ field > Len(crate.fields) /\ pc' = "done" /\ hazards' = hazards
    BY <1>15 DEF Emit
  <2>2. \A f \in DOMAIN crate.fields : f < field
    BY <2>1, <1>3
  <2>3. DeclaredReason(crate.self) = {} /\ \A f \in DOMAIN crate.fields : Found(f)'
    BY <2>1, <2>2, <1>5 DEF MissInv
  <2>4. QED
    BY <2>1, <2>3, <1>1, <1>2 DEF MissInv, NothingMissed, Found, Searching
<1>16. QED
  BY <1>6, <1>7, <1>8, <1>9, <1>11, <1>13, <1>14, <1>15 DEF Next, find_thread_affine_type

\* The lint is complete up to its limits: it is silent about a field only if the
\* field drops no declared type that is near enough to be looked at within the
\* depth and the edges allowed (unsafe_send_thread_affine_drop.rs:166).
THEOREM NothingIsMissed ==
  Spec => []NothingMissed
<1>1. Init => MissInv
  BY DEF Init, MissInv, Searching, NothingMissed
<1>2. SearchInv /\ BudgetInv /\ MissInv /\ [Next]_vars => MissInv'
  BY MissInvKept
<1>3. MissInv => NothingMissed
  BY DEF MissInv
<1>4. QED
  BY <1>1, <1>2, <1>3, SearchInvHolds, BudgetInvHolds, PTL DEF Spec

=============================================================================
