--------------------- MODULE TopologicalOrderingProofs ---------------------
(***************************************************************************)
(* Proofs about TopologicalOrdering, for every crate.                      *)
(***************************************************************************)
EXTENDS TopologicalOrdering, SequenceTheorems, FiniteSetTheorems, WellFoundedInduction, TLAPS

-----------------------------------------------------------------------------
(***************************************************************************)
(* Facts about the operators.                                              *)
(***************************************************************************)
\* A nonempty set of numbers has a least element.
LEMMA LeastNat ==
  ASSUME NEW S \in SUBSET Nat, S # {}
  PROVE  \E x \in S : \A y \in S : x <= y
<1> DEFINE R == {ss \in Nat \X Nat : ss[1] < ss[2]}
<1>1. IsWellFoundedOn(R, Nat)
  BY NatLessThanWellFounded DEF OpToRel
<1>2. \A x, y \in Nat : <<y, x>> \in R <=> y < x
  OBVIOUS
<1> HIDE DEF R
<1>3. PICK x \in S : \A y \in S : ~ (<<y, x>> \in R)
  BY <1>1, WFMin
<1>4. \A y \in S : ~ (y < x)
  BY <1>2, <1>3, Zenon
<1>5. \A y \in S : x <= y
  BY <1>4
<1>6. QED
  BY <1>5

LEMMA LeastIsIn ==
  ASSUME NEW S \in SUBSET Nat, S # {}
  PROVE  LeastOf(S) \in S /\ \A y \in S : LeastOf(S) <= y
BY LeastNat DEF LeastOf

\* Taking the last element off a sequence.
LEMMA Pop ==
  ASSUME NEW D, NEW p \in Seq(D), p # << >>
  PROVE  /\ Len(p) \in Nat \ {0} /\ DOMAIN p = 1..Len(p)
         /\ Last(p) \in D /\ Last(p) = p[Len(p)] /\ Last(p) \in Range(p)
         /\ Front(p) \in Seq(D) /\ Len(Front(p)) = Len(p) - 1
         /\ DOMAIN Front(p) = 1..(Len(p) - 1)
         /\ \A i \in 1..(Len(p) - 1) : Front(p)[i] = p[i]
         /\ Range(p) = Range(Front(p)) \cup {Last(p)}
<1>1. Len(p) \in Nat \ {0} /\ DOMAIN p = 1..Len(p)
  BY EmptySeq, LenProperties
<1>2. \A i \in 1..Len(p) : p[i] \in D
  BY ElementOfSeq
<1>3. /\ Front(p) \in Seq(D)
      /\ Len(Front(p)) = Len(p) - 1
      /\ \A i \in 1..(Len(p) - 1) : Front(p)[i] = p[i]
  BY <1>1, <1>2, SubSeqProperties DEF Front
<1>4. DOMAIN Front(p) = 1..(Len(p) - 1)
  BY <1>3, LenProperties
<1>5. Last(p) = p[Len(p)] /\ Len(p) \in 1..Len(p)
  BY <1>1 DEF Last
<1>6. Range(p) = Range(Front(p)) \cup {Last(p)}
  <2> DEFINE n == Len(p)
  <2>1. /\ n \in Nat \ {0} /\ DOMAIN p = 1..n /\ DOMAIN Front(p) = 1..(n - 1)
        /\ \A i \in 1..(n - 1) : Front(p)[i] = p[i]
        /\ Last(p) = p[n]
    BY <1>1, <1>3, <1>4, <1>5
  <2> HIDE DEF n
  <2>2. 1..n = (1..(n - 1)) \cup {n}
    BY <2>1
  <2>3. QED
    BY <2>1, <2>2 DEF Range
<1>7. QED
  BY <1>1, <1>2, <1>3, <1>4, <1>5, <1>6

\* Putting an element on a sequence.
LEMMA Push ==
  ASSUME NEW D, NEW p \in Seq(D), NEW n \in D
  PROVE  /\ Append(p, n) \in Seq(D)
         /\ Len(Append(p, n)) = Len(p) + 1
         /\ DOMAIN Append(p, n) = 1..(Len(p) + 1)
         /\ DOMAIN p = 1..Len(p) /\ Len(p) \in Nat
         /\ \A i \in 1..Len(p) : Append(p, n)[i] = p[i]
         /\ Append(p, n)[Len(p) + 1] = n
         /\ Range(Append(p, n)) = Range(p) \cup {n}
<1>1. /\ Append(p, n) \in Seq(D)
      /\ Len(Append(p, n)) = Len(p) + 1
      /\ DOMAIN Append(p, n) = 1..(Len(p) + 1)
      /\ DOMAIN p = 1..Len(p) /\ Len(p) \in Nat
      /\ \A i \in 1..Len(p) : Append(p, n)[i] = p[i]
      /\ Append(p, n)[Len(p) + 1] = n
  BY AppendProperties, LenProperties
<1>2. \A i \in 1..(Len(p) + 1) : i \in 1..Len(p) \/ i = Len(p) + 1
  BY <1>1
<1>3. Len(p) + 1 \in 1..(Len(p) + 1) /\ \A i \in 1..Len(p) : i \in 1..(Len(p) + 1)
  BY <1>1
<1>4. Range(Append(p, n)) = Range(p) \cup {n}
  BY <1>1, <1>2, <1>3 DEF Range
<1>5. QED
  BY <1>1, <1>4

LEMMA ReachesOn ==
  ASSUME NEW D, NEW a \in [D -> SUBSET D]
  PROVE  /\ \A v : Reaches(a, v, v)
         /\ \A u, v, w : Reaches(a, u, v) /\ Reaches(a, v, w) => Reaches(a, u, w)
         /\ \A v \in D : \A w \in a[v] : Reaches(a, v, w)
BY DEF Reaches

\* What is reached from a set that no edge leaves is in it.
LEMMA ReachesStays ==
  ASSUME NEW D, NEW a \in [D -> SUBSET D], NEW S \in SUBSET D, \A u \in S : a[u] \subseteq S,
         NEW v \in S, NEW w, Reaches(a, v, w)
  PROVE  w \in S
BY DEF Reaches

-----------------------------------------------------------------------------
(***************************************************************************)
(* Tarjan's algorithm.                                                     *)
(***************************************************************************)
V      == DOMAIN index
Open   == Range(stack)
Closed == UNION Range(sccs)
Active == Range(calls)
Seen   == {v \in V : index[v] # 0}

SccTypes ==
  /\ \E n \in Nat : V = 1..n
  /\ index \in [V -> Nat] /\ lowlink \in [V -> Nat]
  /\ adj \in [V -> SUBSET V] /\ rest \in [V -> SUBSET V]
  /\ stack \in Seq(V) /\ calls \in Seq(V) /\ sccs \in Seq(SUBSET V)

\* Items are numbered in the order of the calls.
Numbered == \A v \in V : index[v] <= Cardinality(Seen) /\ lowlink[v] <= index[v]

\* The items on the stack and the open calls are in that order.
Stacked ==
  /\ \A i, j \in DOMAIN stack : i < j => index[stack[i]] < index[stack[j]]
  /\ \A i, j \in DOMAIN calls : i < j => index[calls[i]] < index[calls[j]]
  /\ Active \subseteq Open
  /\ Seen = Open \cup Closed /\ Open \cap Closed = {}

\* An item on the stack reaches those above it; the one its lowlink is the index
\* of; and, when its call is over, one below it.
Chain ==
  /\ \A x, y \in Open : index[x] <= index[y] => Reaches(adj, x, y)
  /\ \A x \in Open \ Active : \E y \in Open : index[y] < index[x] /\ Reaches(adj, x, y)
  /\ \A x \in Open : \E y \in Open : index[y] = lowlink[x] /\ Reaches(adj, x, y)

\* The innermost open call for or below x.
Within(x, c) ==
  /\ c \in Active /\ index[c] <= index[x]
  /\ \A d \in Active : index[d] <= index[c] \/ index[x] < index[d]

\* What an item has looked at is numbered; when its call is over it has looked at
\* everything; and a lowlink is not above what the items of its call have seen
\* on the stack.
Explored ==
  /\ \A x \in V : rest[x] \subseteq adj[x]
  /\ \A x \in Seen : adj[x] \ rest[x] \subseteq Seen
  /\ \A x \in Seen \ Active : rest[x] = {}
  /\ \A x \in Open : \A y \in (adj[x] \ rest[x]) \cap Open : \A c : Within(x, c) => lowlink[c] <= index[y]

\* Nothing leaves the components that are closed.
Sealed == \A x \in Closed : adj[x] \subseteq Closed

TarjanInv == SccTypes /\ Numbered /\ Stacked /\ Chain /\ Explored /\ Sealed /\ ComponentsExact

\* The last of the open calls is the innermost.
LEMMA LastIsInnermost ==
  ASSUME SccTypes, Stacked, calls # << >>
  PROVE  /\ Last(calls) \in Active /\ Last(calls) \in V
         /\ \A c \in Active : index[c] <= index[Last(calls)]
         /\ \A c \in Range(Front(calls)) : index[c] < index[Last(calls)]
         /\ Active = Range(Front(calls)) \cup {Last(calls)}
<1>1. calls \in Seq(V) /\ index \in [V -> Nat]
  BY DEF SccTypes
<1> DEFINE n == Len(calls)
<1>2. /\ n \in Nat \ {0} /\ DOMAIN calls = 1..n
      /\ Last(calls) \in V /\ Last(calls) = calls[n] /\ Last(calls) \in Range(calls)
      /\ DOMAIN Front(calls) = 1..(n - 1)
      /\ \A i \in 1..(n - 1) : Front(calls)[i] = calls[i]
      /\ Range(calls) = Range(Front(calls)) \cup {Last(calls)}
  BY <1>1, Pop
<1> HIDE DEF n
<1>3. ASSUME NEW c \in Range(Front(calls)) PROVE index[c] < index[Last(calls)]
  <2>1. PICK i \in 1..(n - 1) : c = calls[i]
    BY <1>2 DEF Range
  <2>2. i \in DOMAIN calls /\ n \in DOMAIN calls /\ i < n
    BY <1>2
  <2>3. QED
    BY <1>2, <2>1, <2>2 DEF Stacked
<1>4. \A c \in Active : index[c] <= index[Last(calls)]
  <2> TAKE c \in Active
  <2>1. c \in V /\ index[c] \in Nat /\ index[Last(calls)] \in Nat
    BY <1>1, <1>2, RangeOfSeq DEF Active
  <2>2. c \in Range(Front(calls)) \/ c = Last(calls)
    BY <1>2 DEF Active
  <2>3. QED
    BY <1>3, <2>1, <2>2
<1>5. QED
  BY <1>2, <1>3, <1>4 DEF Active

\* The items on the stack belong to open calls, and reach the innermost of them.
LEMMA OpenReachLast ==
  ASSUME TarjanInv, NEW x \in Open
  PROVE  calls # << >> /\ Reaches(adj, x, Last(calls))
<1> DEFINE R == {y \in Open : Reaches(adj, x, y)}
           N == {index[y] : y \in R}
<1>1. Open \subseteq V /\ index \in [V -> Nat] /\ adj \in [V -> SUBSET V]
  BY RangeOfSeq DEF TarjanInv, SccTypes, Open
<1>2. x \in R
  BY <1>1, ReachesOn
<1>3. N \in SUBSET Nat /\ N # {}
  BY <1>1, <1>2
<1>4. PICK m \in N : \A k \in N : m <= k
  BY <1>3, LeastNat
<1>5. PICK y \in R : m = index[y]
  BY <1>4
<1>6. y \in Active
  <2> SUFFICES ASSUME y \notin Active PROVE FALSE
    OBVIOUS
  <2>1. PICK z \in Open : index[z] < index[y] /\ Reaches(adj, y, z)
    BY DEF TarjanInv, Chain
  <2>2. Reaches(adj, x, z)
    BY <1>1, <2>1, ReachesOn
  <2>3. index[y] <= index[z]
    BY <1>4, <1>5, <2>1, <2>2
  <2>4. index[y] \in Nat /\ index[z] \in Nat
    BY <1>1, <2>1
  <2>5. QED
    BY <2>1, <2>3, <2>4
<1>7. calls # << >>
  BY <1>6 DEF Active, Range
<1>8. Last(calls) \in Active /\ \A c \in Active : index[c] <= index[Last(calls)]
  BY <1>7, LastIsInnermost DEF TarjanInv
<1>9. Last(calls) \in Open
  BY <1>8 DEF TarjanInv, Stacked
<1>10. Reaches(adj, y, Last(calls))
  BY <1>6, <1>8, <1>9 DEF TarjanInv, Chain
<1>11. QED
  BY <1>1, <1>7, <1>10, ReachesOn

\* A call of strongconnect keeps the invariant: every open item reaches the
\* innermost call, which references the item that is called for.
LEMMA TarjanCall ==
  ASSUME TarjanInv, NEW v \in V, NEW r, Call(v, r), UNCHANGED adj,
         \/ calls = << >> /\ r = rest
         \/ calls # << >> /\ v \in adj[Last(calls)] /\ r = Looked(v)
  PROVE  TarjanInv'
<1> DEFINE k == Cardinality(Seen) + 1
<1>1. /\ index[v] = 0
      /\ index' = [index EXCEPT ![v] = k] /\ lowlink' = [lowlink EXCEPT ![v] = k]
      /\ stack' = Append(stack, v) /\ calls' = Append(calls, v)
      /\ rest' = [r EXCEPT ![v] = adj[v]]
      /\ UNCHANGED <<adj, sccs>>
  BY DEF Call, Seen, V
<1>2. /\ index \in [V -> Nat] /\ lowlink \in [V -> Nat]
      /\ adj \in [V -> SUBSET V] /\ rest \in [V -> SUBSET V]
      /\ stack \in Seq(V) /\ calls \in Seq(V) /\ sccs \in Seq(SUBSET V)
      /\ Open \subseteq V /\ Active \subseteq Open
  BY RangeOfSeq DEF TarjanInv, SccTypes, Stacked, Open, Active
<1>3. IsFiniteSet(Seen) /\ v \notin Seen /\ Cardinality(Seen) \in Nat
  <2>1. PICK n \in Nat : V = 1..n
    BY DEF TarjanInv, SccTypes
  <2>2. IsFiniteSet(V)
    BY <2>1, FS_Interval
  <2>3. QED
    BY <1>1, <2>2, FS_Subset, FS_CardinalityType DEF Seen
<1>4. k \in Nat /\ k # 0 /\ \A x \in V : index[x] < k
  <2>1. \A x \in V : index[x] \in Nat /\ index[x] <= Cardinality(Seen)
    BY <1>2 DEF TarjanInv, Numbered
  <2>2. QED
    BY <1>3, <2>1
<1> HIDE DEF k
<1>5. /\ stack' \in Seq(V) /\ DOMAIN stack' = 1..(Len(stack) + 1) /\ DOMAIN stack = 1..Len(stack)
      /\ Len(stack) \in Nat
      /\ \A i \in 1..Len(stack) : stack'[i] = stack[i]
      /\ stack'[Len(stack) + 1] = v
      /\ Range(stack') = Range(stack) \cup {v}
  BY <1>1, <1>2, Push
<1>6. /\ calls' \in Seq(V) /\ DOMAIN calls' = 1..(Len(calls) + 1) /\ DOMAIN calls = 1..Len(calls)
      /\ Len(calls) \in Nat
      /\ \A i \in 1..Len(calls) : calls'[i] = calls[i]
      /\ calls'[Len(calls) + 1] = v
      /\ Range(calls') = Range(calls) \cup {v}
  BY <1>1, <1>2, Push
<1>7. V' = V /\ index'[v] = k /\ lowlink'[v] = k /\ \A x \in V \ {v} : index'[x] = index[x] /\ lowlink'[x] = lowlink[x]
  BY <1>1, <1>2 DEF V
<1>8. Open' = Open \cup {v} /\ Active' = Active \cup {v} /\ Closed' = Closed /\ Seen' = Seen \cup {v}
  <2>1. Seen' = Seen \cup {v}
    BY <1>4, <1>7 DEF Seen
  <2>2. QED
    BY <1>1, <1>5, <1>6, <2>1 DEF Open, Active, Closed
<1>9. v \notin Open /\ v \notin Closed /\ Open \subseteq V \ {v} /\ Active \subseteq V \ {v}
  BY <1>2, <1>3 DEF TarjanInv, Stacked
<1>10. SccTypes'
  <2>1. r \in [V -> SUBSET V]
    BY <1>2 DEF Looked
  <2>2. rest' \in [V -> SUBSET V]
    BY <1>1, <1>2, <2>1
  <2>3. index' \in [V -> Nat] /\ lowlink' \in [V -> Nat]
    BY <1>1, <1>2, <1>4
  <2>4. QED
    BY <1>1, <1>2, <1>5, <1>6, <1>7, <2>2, <2>3 DEF SccTypes, TarjanInv
<1>11. Numbered'
  <2>1. Cardinality(Seen') = k
    BY <1>3, <1>8, FS_AddElement DEF k
  <2>2. \A x \in V \ {v} : index[x] \in Nat /\ lowlink[x] \in Nat /\ index[x] < k /\ lowlink[x] <= index[x]
    BY <1>2, <1>4 DEF TarjanInv, Numbered
  <2>3. QED
    BY <1>4, <1>7, <2>1, <2>2 DEF Numbered
<1>12. \A x \in Open : Reaches(adj, x, v)
  <2> TAKE x \in Open
  <2>1. calls # << >> /\ Reaches(adj, x, Last(calls))
    BY OpenReachLast
  <2>2. v \in adj[Last(calls)] /\ Last(calls) \in V
    BY <1>2, <2>1, Pop
  <2>3. QED
    BY <1>2, <2>1, <2>2, ReachesOn
<1>13. Stacked'
  <2>1. ASSUME NEW i \in DOMAIN stack', NEW j \in DOMAIN stack', i < j
        PROVE  index'[stack'[i]] < index'[stack'[j]]
    <3>1. i \in 1..Len(stack) /\ (j \in 1..Len(stack) \/ j = Len(stack) + 1)
      BY <1>5, <2>1
    <3>2. stack'[i] = stack[i] /\ stack[i] \in Open
      BY <1>5, <3>1 DEF Open, Range
    <3>3. CASE j \in 1..Len(stack)
      <4>1. stack'[j] = stack[j] /\ stack[j] \in Open /\ index[stack[i]] < index[stack[j]]
        BY <1>5, <2>1, <3>1, <3>3 DEF Open, Range, TarjanInv, Stacked
      <4>2. QED
        BY <1>7, <1>9, <3>2, <4>1
    <3>4. CASE j = Len(stack) + 1
      BY <1>4, <1>5, <1>7, <1>9, <3>2, <3>4
    <3>5. QED
      BY <3>1, <3>3, <3>4
  <2>2. ASSUME NEW i \in DOMAIN calls', NEW j \in DOMAIN calls', i < j
        PROVE  index'[calls'[i]] < index'[calls'[j]]
    <3>1. i \in 1..Len(calls) /\ (j \in 1..Len(calls) \/ j = Len(calls) + 1)
      BY <1>6, <2>2
    <3>2. calls'[i] = calls[i] /\ calls[i] \in Active
      BY <1>6, <3>1 DEF Active, Range
    <3>3. CASE j \in 1..Len(calls)
      <4>1. calls'[j] = calls[j] /\ calls[j] \in Active /\ index[calls[i]] < index[calls[j]]
        BY <1>6, <2>2, <3>1, <3>3 DEF Active, Range, TarjanInv, Stacked
      <4>2. QED
        BY <1>7, <1>9, <3>2, <4>1
    <3>4. CASE j = Len(calls) + 1
      BY <1>4, <1>6, <1>7, <1>9, <3>2, <3>4
    <3>5. QED
      BY <3>1, <3>3, <3>4
  <2>3. Active' \subseteq Open' /\ Seen' = Open' \cup Closed' /\ Open' \cap Closed' = {}
    BY <1>8, <1>9 DEF TarjanInv, Stacked
  <2>4. QED
    BY <2>1, <2>2, <2>3 DEF Stacked
<1>14. Chain'
  <2>1. ASSUME NEW x \in Open', NEW y \in Open', index'[x] <= index'[y]
        PROVE  Reaches(adj, x, y)
    <3>1. CASE y = v
      BY <1>2, <1>8, <1>12, <3>1, ReachesOn
    <3>2. CASE x = v /\ y # v
      <4>1. index[y] \in Nat /\ index[y] < k /\ index'[x] = k /\ index'[y] = index[y]
        BY <1>2, <1>4, <1>7, <1>8, <3>2
      <4>2. QED
        BY <1>4, <2>1, <4>1
    <3>3. CASE x # v /\ y # v
      BY <1>7, <1>8, <1>9, <2>1, <3>3 DEF TarjanInv, Chain
    <3>4. QED
      BY <3>1, <3>2, <3>3
  <2>2. ASSUME NEW x \in Open' \ Active'
        PROVE  \E y \in Open' : index'[y] < index'[x] /\ Reaches(adj, x, y)
    <3>1. x \in Open \ Active
      BY <1>8
    <3>2. PICK y \in Open : index[y] < index[x] /\ Reaches(adj, x, y)
      BY <3>1 DEF TarjanInv, Chain
    <3>3. QED
      BY <1>7, <1>8, <1>9, <3>1, <3>2
  <2>3. ASSUME NEW x \in Open'
        PROVE  \E y \in Open' : index'[y] = lowlink'[x] /\ Reaches(adj, x, y)
    <3>1. CASE x = v
      BY <1>2, <1>7, <1>8, <3>1, ReachesOn
    <3>2. CASE x # v
      <4>1. x \in Open
        BY <1>8, <3>2
      <4>2. PICK y \in Open : index[y] = lowlink[x] /\ Reaches(adj, x, y)
        BY <4>1 DEF TarjanInv, Chain
      <4>3. QED
        BY <1>7, <1>8, <1>9, <4>1, <4>2
    <3>3. QED
      BY <3>1, <3>2
  <2>4. QED
    BY <1>1, <2>1, <2>2, <2>3 DEF Chain
<1>15. /\ rest'[v] = adj[v]
       /\ \A x \in V \ {v} : rest'[x] \subseteq rest[x] /\ \A y \in rest[x] : y \in rest'[x] \/ y = v
       /\ \A x \in V \ {v} : x \notin Active => rest'[x] = rest[x]
  <2>1. CASE r = rest
    BY <1>1, <1>2, <2>1
  <2>2. CASE calls # << >> /\ r = Looked(v)
    <3>1. Last(calls) \in V /\ Last(calls) \in Active
      BY <1>2, <2>2, Pop DEF Active
    <3>2. r = [rest EXCEPT ![Last(calls)] = @ \ {v}]
      BY <2>2 DEF Looked
    <3>3. \A x \in V \ {v} : rest'[x] = r[x]
      BY <1>1, <1>2, <3>2
    <3>4. \A x \in V : r[x] = IF x = Last(calls) THEN rest[x] \ {v} ELSE rest[x]
      BY <1>2, <3>2
    <3>5. rest'[v] = adj[v]
      BY <1>1, <1>2, <3>2
    <3>6. QED
      BY <3>1, <3>3, <3>4, <3>5
  <2>3. QED
    BY <2>1, <2>2
<1>16. Explored'
  <2>1. \A x \in V : rest'[x] \subseteq adj[x]
    BY <1>2, <1>15 DEF TarjanInv, Explored
  <2>2. \A x \in Seen' : adj[x] \ rest'[x] \subseteq Seen'
    <3> TAKE x \in Seen'
    <3>1. CASE x = v
      BY <1>15, <3>1
    <3>2. CASE x # v
      <4>1. x \in Seen /\ x \in V
        BY <1>8, <3>2 DEF Seen
      <4>2. adj[x] \ rest[x] \subseteq Seen
        BY <4>1 DEF TarjanInv, Explored
      <4>3. QED
        BY <1>8, <1>15, <3>2, <4>1, <4>2
    <3>3. QED
      BY <3>1, <3>2
  <2>3. \A x \in Seen' \ Active' : rest'[x] = {}
    <3> TAKE x \in Seen' \ Active'
    <3>1. x \in Seen \ Active /\ x \in V \ {v}
      BY <1>8 DEF Seen
    <3>2. QED
      BY <1>15, <3>1 DEF TarjanInv, Explored
  <2>4. ASSUME NEW x \in Open', NEW y \in (adj[x] \ rest'[x]) \cap Open', NEW c, Within(x, c)'
        PROVE  lowlink'[c] <= index'[y]
    <3>1. x # v
      BY <1>15
    <3>2. x \in Open /\ x \in V \ {v}
      BY <1>8, <1>9, <3>1
    <3>3. c \in Active' /\ index'[c] <= index'[x]
      BY <2>4 DEF Within
    <3>4. c # v
      <4>1. index'[x] < k /\ index[x] \in Nat /\ index'[x] = index[x]
        BY <1>2, <1>4, <1>7, <3>2
      <4>2. QED
        BY <1>4, <1>7, <3>3, <4>1
    <3>5. c \in Active /\ c \in V \ {v}
      BY <1>8, <1>9, <3>3, <3>4
    <3>6. Within(x, c)
      <4>1. \A d \in Active' : index'[d] <= index'[c] \/ index'[x] < index'[d]
        BY <2>4 DEF Within
      <4>2. \A d \in Active : d \in Active' /\ index'[d] = index[d]
        BY <1>7, <1>8, <1>9
      <4>3. index'[c] = index[c] /\ index'[x] = index[x]
        BY <1>7, <3>2, <3>5
      <4>4. QED
        BY <3>3, <3>5, <4>1, <4>2, <4>3 DEF Within
    <3>7. CASE y = v
      <4>1. lowlink'[c] = lowlink[c] /\ lowlink[c] <= index[c] /\ index[c] < k
        BY <1>4, <1>7, <3>5 DEF TarjanInv, Numbered
      <4>2. lowlink[c] \in Nat /\ index[c] \in Nat
        BY <1>2, <3>5
      <4>3. QED
        BY <1>4, <1>7, <3>7, <4>1, <4>2
    <3>8. CASE y # v
      <4>1. y \in Open /\ y \in V
        BY <1>8, <1>9, <3>8
      <4>2. y \in adj[x] \ rest[x]
        BY <1>15, <3>2, <3>8, <4>1
      <4>3. lowlink[c] <= index[y]
        BY <3>2, <3>6, <4>1, <4>2 DEF TarjanInv, Explored
      <4>4. QED
        BY <1>7, <3>5, <3>8, <4>1, <4>3
    <3>9. QED
      BY <3>7, <3>8
  <2>5. QED
    BY <1>1, <1>7, <2>1, <2>2, <2>3, <2>4 DEF Explored
<1>17. Sealed' /\ ComponentsExact'
  BY <1>1, <1>7, <1>8 DEF TarjanInv, Sealed, ComponentsExact, V
<1>18. QED
  BY <1>10, <1>11, <1>13, <1>14, <1>16, <1>17 DEF TarjanInv

\* No two items on the stack have the same number.
LEMMA OpenDiffer ==
  ASSUME SccTypes, Stacked, NEW x \in Open, NEW y \in Open, index[x] = index[y]
  PROVE  x = y
<1>1. PICK i \in DOMAIN stack, j \in DOMAIN stack : x = stack[i] /\ y = stack[j]
  BY DEF Open, Range
<1>2. DOMAIN stack = 1..Len(stack) /\ Len(stack) \in Nat /\ Open \subseteq V /\ index \in [V -> Nat]
  BY LenProperties, RangeOfSeq DEF SccTypes, Open
<1>3. index[x] \in Nat /\ index[y] \in Nat
  BY <1>2
<1>4. ~ (i < j) /\ ~ (j < i)
  BY <1>1, <1>3 DEF Stacked
<1>5. i = j
  BY <1>2, <1>4
<1>6. QED
  BY <1>1, <1>5

\* Looking at an item that has a number.
LEMMA TarjanLook ==
  ASSUME TarjanInv, NEW w \in V, LooksAt(w), index[w] # 0,
         rest' = Looked(w), UNCHANGED <<index, stack, calls, sccs>>,
         \/ w \notin Open /\ UNCHANGED lowlink
         \/ w \in Open /\ lowlink' = Lower(Last(calls), index[w])
  PROVE  TarjanInv'
<1> DEFINE v == Last(calls)
<1>1. calls # << >> /\ w \in rest[v] /\ UNCHANGED adj
  BY DEF LooksAt, InScc
<1>2. /\ index \in [V -> Nat] /\ lowlink \in [V -> Nat]
      /\ adj \in [V -> SUBSET V] /\ rest \in [V -> SUBSET V]
      /\ Open \subseteq V /\ Active \subseteq Open
  BY RangeOfSeq DEF TarjanInv, SccTypes, Stacked, Open
<1>3. v \in Active /\ v \in Open /\ v \in V /\ \A c \in Active : index[c] <= index[v]
  BY <1>1, <1>2, LastIsInnermost DEF TarjanInv
<1>4. rest' = [rest EXCEPT ![v] = @ \ {w}]
  BY DEF Looked
<1> HIDE DEF v
<1>5. /\ lowlink' \in [V -> Nat]
      /\ \A x \in V : lowlink'[x] <= lowlink[x]
      /\ \A x \in V : lowlink'[x] = lowlink[x] \/ (x = v /\ w \in Open /\ lowlink'[x] = index[w])
      /\ w \in Open => lowlink'[v] <= index[w]
  <2>1. CASE UNCHANGED lowlink /\ w \notin Open
    BY <1>2, <2>1
  <2>2. CASE w \in Open /\ lowlink' = Lower(Last(calls), index[w])
    <3>1. lowlink' = [lowlink EXCEPT ![v] = IF index[w] < @ THEN index[w] ELSE @]
      BY <2>2 DEF Lower, v
    <3>2. index[w] \in Nat /\ \A x \in V : lowlink[x] \in Nat
      BY <1>2
    <3>3. \A x \in V : lowlink'[x] = IF x = v /\ index[w] < lowlink[x] THEN index[w] ELSE lowlink[x]
      BY <1>2, <3>1
    <3>4. lowlink' \in [V -> Nat]
      BY <1>2, <3>1, <3>2
    <3>5. QED
      BY <1>3, <2>2, <3>2, <3>3, <3>4
  <2>3. QED
    BY <2>1, <2>2
<1>6. V' = V /\ Open' = Open /\ Closed' = Closed /\ Active' = Active /\ Seen' = Seen
  BY DEF V, Open, Closed, Active, Seen
<1>7. /\ rest' \in [V -> SUBSET V]
      /\ \A x \in V : rest'[x] = IF x = v THEN rest[x] \ {w} ELSE rest[x]
  <2>1. rest[v] \ {w} \in SUBSET V
    BY <1>2, <1>3
  <2>2. rest' \in [V -> SUBSET V]
    BY <1>2, <1>4, <2>1
  <2>3. \A x \in V : rest'[x] = IF x = v THEN rest[x] \ {w} ELSE rest[x]
    BY <1>2, <1>4
  <2>4. QED
    BY <2>2, <2>3
<1>8. SccTypes'
  BY <1>1, <1>5, <1>6, <1>7 DEF SccTypes, TarjanInv
<1>9. Numbered'
  <2> SUFFICES ASSUME NEW x \in V PROVE lowlink'[x] <= index[x]
    BY <1>6 DEF Numbered, TarjanInv
  <2>1. lowlink'[x] \in Nat /\ lowlink[x] \in Nat /\ index[x] \in Nat /\ lowlink'[x] <= lowlink[x]
    BY <1>2, <1>5
  <2>2. lowlink[x] <= index[x]
    BY DEF TarjanInv, Numbered
  <2>3. QED
    BY <2>1, <2>2
<1>10. Stacked'
  BY <1>6 DEF TarjanInv, Stacked
<1>11. w \in adj[v]
  BY <1>1, <1>3 DEF TarjanInv, Explored, v
<1>12. Chain'
  <2>1. ASSUME NEW x \in Open PROVE \E y \in Open : index[y] = lowlink'[x] /\ Reaches(adj, x, y)
    <3>1. CASE lowlink'[x] = lowlink[x]
      BY <3>1 DEF TarjanInv, Chain
    <3>2. CASE x = v /\ w \in Open /\ lowlink'[x] = index[w]
      BY <1>2, <1>3, <1>11, <3>2, ReachesOn
    <3>3. QED
      BY <1>2, <1>5, <3>1, <3>2
  <2>2. QED
    BY <1>1, <1>6, <2>1 DEF TarjanInv, Chain
<1>13. Explored'
  <2>1. \A x \in V : rest'[x] \subseteq adj[x]
    BY <1>7 DEF TarjanInv, Explored
  <2>2. \A x \in Seen : adj[x] \ rest'[x] \subseteq Seen
    <3> TAKE x \in Seen
    <3>1. x \in V /\ w \in Seen /\ adj[x] \ rest[x] \subseteq Seen
      BY DEF Seen, TarjanInv, Explored
    <3>2. QED
      BY <1>7, <3>1
  <2>3. \A x \in Seen \ Active : rest'[x] = {}
    <3> TAKE x \in Seen \ Active
    <3>1. x \in V /\ x # v /\ rest[x] = {}
      BY <1>3 DEF Seen, TarjanInv, Explored
    <3>2. QED
      BY <1>7, <3>1
  <2>4. ASSUME NEW x \in Open, NEW y \in (adj[x] \ rest'[x]) \cap Open, NEW c, Within(x, c)
        PROVE  lowlink'[c] <= index[y]
    <3>1. c \in V /\ c \in Active
      BY <1>2, <2>4 DEF Within
    <3>2. CASE y \notin rest[x]
      <4>1. lowlink[c] <= index[y]
        BY <2>4, <3>2 DEF TarjanInv, Explored
      <4>2. lowlink'[c] <= lowlink[c] /\ lowlink'[c] \in Nat /\ lowlink[c] \in Nat /\ index[y] \in Nat
        BY <1>2, <1>5, <3>1
      <4>3. QED
        BY <4>1, <4>2
    <3>3. CASE y \in rest[x]
      <4>1. x = v /\ y = w
        BY <1>2, <1>7, <3>3
      <4>2. index[c] <= index[v] /\ (index[v] <= index[c] \/ index[v] < index[v])
        BY <1>3, <2>4, <4>1 DEF Within
      <4>3. index[c] \in Nat /\ index[v] \in Nat
        BY <1>2, <1>3, <3>1
      <4>4. index[c] = index[v]
        BY <4>2, <4>3
      <4>5. c = v
        BY <1>2, <1>3, <3>1, <4>4, OpenDiffer DEF TarjanInv
      <4>6. QED
        BY <1>5, <4>1, <4>5
    <3>4. QED
      BY <3>2, <3>3
  <2>5. \A x, c : Within(x, c)' <=> Within(x, c)
    BY <1>6 DEF Within
  <2>6. QED
    BY <1>1, <1>6, <2>1, <2>2, <2>3, <2>4, <2>5 DEF Explored
<1>14. Sealed' /\ ComponentsExact'
  BY <1>1, <1>6 DEF TarjanInv, Sealed, ComponentsExact
<1>15. QED
  BY <1>8, <1>9, <1>10, <1>12, <1>13, <1>14 DEF TarjanInv

\* What a return changes: the call that returns was the innermost, and its caller
\* takes over its lowlink.
LEMMA Returned ==
  ASSUME TarjanInv, Return
  PROVE  LET v == Last(calls)
             C == Range(calls')
         IN  /\ v \in Active /\ v \in Open /\ v \in V /\ rest[v] = {}
             /\ calls' \in Seq(V) /\ Active = C \cup {v}
             /\ \A i, j \in DOMAIN calls' : i < j => index[calls'[i]] < index[calls'[j]]
             /\ \A c \in C : index[c] < index[v]
             /\ lowlink' \in [V -> Nat]
             /\ \A x \in V : lowlink'[x] <= lowlink[x]
             /\ \A x \in V : lowlink'[x] = lowlink[x] \/ (x \in C /\ lowlink'[x] = lowlink[v])
             /\ \A x \in C : (\A c \in C : index[c] <= index[x]) => lowlink'[x] <= lowlink[v]
<1> DEFINE v == Last(calls)
           C == Range(calls')
           n == Len(calls)
<1>1. calls # << >> /\ rest[v] = {} /\ calls' = Front(calls)
  BY DEF Return
<1>2. /\ index \in [V -> Nat] /\ lowlink \in [V -> Nat] /\ calls \in Seq(V)
      /\ Open \subseteq V /\ Active \subseteq Open
  BY RangeOfSeq DEF TarjanInv, SccTypes, Stacked, Open
<1>3. /\ v \in Active /\ v \in V /\ Active = C \cup {v} /\ \A c \in C : index[c] < index[v]
  BY <1>1, LastIsInnermost DEF TarjanInv
<1>4. /\ n \in Nat \ {0} /\ DOMAIN calls = 1..n
      /\ calls' \in Seq(V) /\ Len(calls') = n - 1 /\ DOMAIN calls' = 1..(n - 1)
      /\ \A i \in 1..(n - 1) : calls'[i] = calls[i]
  BY <1>1, <1>2, Pop
<1> HIDE DEF n, v, C
<1>5. ASSUME NEW i \in DOMAIN calls', NEW j \in DOMAIN calls', i < j
      PROVE  index[calls'[i]] < index[calls'[j]]
  <2>1. i \in DOMAIN calls /\ j \in DOMAIN calls
    BY <1>4
  <2>2. QED
    BY <1>4, <1>5, <2>1 DEF TarjanInv, Stacked
<1>6. CASE n = 1
  <2>1. lowlink' = lowlink
    BY <1>6 DEF Return, n
  <2>2. C = {}
    BY <1>4, <1>6 DEF Range, C
  <2>3. \A x \in V : lowlink[x] \in Nat
    BY <1>2
  <2>4. QED
    BY <1>1, <1>2, <1>3, <1>4, <1>5, <2>1, <2>2, <2>3 DEF v, C
<1>7. CASE n # 1
  <2> DEFINE p == Last(Front(calls))
  <2>1. lowlink' = Lower(p, lowlink[v])
    BY <1>7 DEF Return, n, v
  <2>2. lowlink' = [lowlink EXCEPT ![p] = IF lowlink[v] < @ THEN lowlink[v] ELSE @]
    BY <2>1 DEF Lower
  <2>3. p \in C /\ p \in V /\ \A c \in C : index[c] <= index[p]
    <3>1. calls' # << >> /\ p = Last(calls')
      BY <1>1, <1>4, <1>7, EmptySeq
    <3>2. p \in C /\ p \in V /\ p = calls'[n - 1]
      BY <1>4, <3>1, Pop DEF C
    <3>3. ASSUME NEW c \in C PROVE index[c] <= index[p]
      <4>1. PICK i \in 1..(n - 1) : c = calls'[i]
        BY <1>4 DEF Range, C
      <4>2. i = n - 1 \/ (i < n - 1 /\ i \in DOMAIN calls' /\ n - 1 \in DOMAIN calls')
        BY <1>4, <1>7
      <4>3. index[c] \in Nat /\ index[p] \in Nat
        BY <1>2, <1>3, <3>2
      <4>4. index[c] = index[p] \/ index[c] < index[p]
        BY <1>5, <3>2, <4>1, <4>2
      <4>5. QED
        BY <4>3, <4>4
    <3>4. QED
      BY <3>2, <3>3
  <2> HIDE DEF p
  <2>4. lowlink[v] \in Nat /\ \A x \in V : lowlink[x] \in Nat
    BY <1>2, <1>3
  <2>5. \A x \in V : lowlink'[x] = IF x = p /\ lowlink[v] < lowlink[x] THEN lowlink[v] ELSE lowlink[x]
    BY <1>2, <2>2
  <2>6. lowlink' \in [V -> Nat]
    BY <1>2, <2>2, <2>4
  <2>7. \A x \in V : /\ lowlink'[x] <= lowlink[x]
                     /\ lowlink'[x] = lowlink[x] \/ (x \in C /\ lowlink'[x] = lowlink[v])
    BY <2>3, <2>4, <2>5
  <2>8. ASSUME NEW x \in C, \A c \in C : index[c] <= index[x] PROVE lowlink'[x] <= lowlink[v]
    <3>1. index[p] <= index[x] /\ index[x] <= index[p] /\ x \in Open /\ p \in Open /\ x \in V
      BY <1>2, <1>3, <2>3, <2>8
    <3>2. index[p] = index[x]
      BY <1>2, <2>3, <3>1
    <3>3. x = p
      BY <3>1, <3>2, OpenDiffer DEF TarjanInv
    <3>4. QED
      BY <2>3, <2>4, <2>5, <3>3
  <2>9. QED
    BY <1>1, <1>2, <1>3, <1>4, <1>5, <2>6, <2>7, <2>8 DEF v, C
<1>8. QED
  BY <1>6, <1>7

\* A call that returns and leaves its component open keeps the invariant: its
\* item reaches the one its lowlink is the index of, which is below it.
LEMMA TarjanLeaveOpen ==
  ASSUME TarjanInv, LeaveOpen
  PROVE  TarjanInv'
<1> DEFINE v == Last(calls)
           C == Range(calls')
<1>1. /\ Return /\ lowlink[v] # index[v]
      /\ UNCHANGED <<adj, index, stack, rest, sccs>>
  BY DEF LeaveOpen, InScc
<1>2. /\ v \in Active /\ v \in Open /\ v \in V /\ rest[v] = {}
      /\ calls' \in Seq(V) /\ Active = C \cup {v}
      /\ \A i, j \in DOMAIN calls' : i < j => index[calls'[i]] < index[calls'[j]]
      /\ \A c \in C : index[c] < index[v]
      /\ lowlink' \in [V -> Nat]
      /\ \A x \in V : lowlink'[x] <= lowlink[x]
      /\ \A x \in V : lowlink'[x] = lowlink[x] \/ (x \in C /\ lowlink'[x] = lowlink[v])
      /\ \A x \in C : (\A c \in C : index[c] <= index[x]) => lowlink'[x] <= lowlink[v]
  BY <1>1, Returned
<1>3. /\ index \in [V -> Nat] /\ lowlink \in [V -> Nat] /\ adj \in [V -> SUBSET V]
      /\ Open \subseteq V /\ Active \subseteq Open
  BY RangeOfSeq DEF TarjanInv, SccTypes, Stacked, Open
<1>4. V' = V /\ Open' = Open /\ Closed' = Closed /\ Active' = C /\ Seen' = Seen
  BY <1>1 DEF V, Open, Closed, Active, Seen
<1> HIDE DEF v, C
<1>5. SccTypes'
  BY <1>1, <1>2, <1>4 DEF TarjanInv, SccTypes
<1>6. Numbered'
  <2> SUFFICES ASSUME NEW x \in V PROVE lowlink'[x] <= index[x]
    BY <1>1, <1>4 DEF Numbered, TarjanInv
  <2>1. lowlink'[x] \in Nat /\ lowlink[x] \in Nat /\ index[x] \in Nat /\ lowlink'[x] <= lowlink[x]
    BY <1>2, <1>3
  <2>2. lowlink[x] <= index[x]
    BY DEF TarjanInv, Numbered
  <2>3. QED
    BY <2>1, <2>2
<1>7. Stacked'
  BY <1>1, <1>2, <1>3, <1>4 DEF TarjanInv, Stacked
<1>8. lowlink[v] < index[v]
  BY <1>1, <1>2, <1>3 DEF TarjanInv, Numbered
<1>9. PICK u \in Open : index[u] = lowlink[v] /\ Reaches(adj, v, u)
  BY <1>2 DEF TarjanInv, Chain
<1>10. Chain'
  <2>1. ASSUME NEW x \in Open \ C PROVE \E y \in Open : index[y] < index[x] /\ Reaches(adj, x, y)
    <3>1. CASE x = v
      BY <1>8, <1>9, <3>1
    <3>2. CASE x # v
      <4>1. x \in Open \ Active
        BY <1>2, <3>2
      <4>2. QED
        BY <4>1 DEF TarjanInv, Chain
    <3>3. QED
      BY <3>1, <3>2
  <2>2. ASSUME NEW x \in Open PROVE \E y \in Open : index[y] = lowlink'[x] /\ Reaches(adj, x, y)
    <3>1. CASE lowlink'[x] = lowlink[x]
      BY <3>1 DEF TarjanInv, Chain
    <3>2. CASE x \in C /\ lowlink'[x] = lowlink[v]
      <4>1. index[x] <= index[v]
        BY <1>2, <1>3, <3>2
      <4>2. Reaches(adj, x, v)
        BY <1>2, <4>1 DEF TarjanInv, Chain
      <4>3. Reaches(adj, x, u)
        BY <1>3, <1>9, <4>2, ReachesOn
      <4>4. QED
        BY <1>9, <3>2, <4>3
    <3>3. QED
      BY <1>2, <1>3, <3>1, <3>2
  <2>3. QED
    BY <1>1, <1>4, <2>1, <2>2 DEF TarjanInv, Chain
<1>11. Explored'
  <2>1. \A x \in Seen \ C : rest[x] = {}
    BY <1>2 DEF TarjanInv, Explored
  <2>2. ASSUME NEW x \in Open, NEW y \in (adj[x] \ rest[x]) \cap Open, NEW c, Within(x, c)'
        PROVE  lowlink'[c] <= index[y]
    <3>1. c \in C /\ index[c] <= index[x] /\ \A d \in C : index[d] <= index[c] \/ index[x] < index[d]
      BY <1>1, <1>4, <2>2 DEF Within
    <3>2. c \in V /\ index[c] \in Nat /\ index[x] \in Nat /\ index[v] \in Nat /\ index[y] \in Nat
          /\ lowlink[c] \in Nat /\ lowlink[v] \in Nat /\ lowlink'[c] \in Nat
          /\ \A d \in C : index[d] \in Nat
      BY <1>2, <1>3, <3>1
    <3>3. CASE index[x] < index[v]
      <4>1. Within(x, c)
        BY <1>2, <3>1, <3>3 DEF Within
      <4>2. lowlink[c] <= index[y]
        BY <4>1 DEF TarjanInv, Explored
      <4>3. lowlink'[c] <= lowlink[c]
        BY <1>2, <3>2
      <4>4. QED
        BY <3>2, <4>2, <4>3
    <3>4. CASE index[v] <= index[x]
      <4>1. Within(x, v)
        <5>1. \A d \in C \cup {v} : index[d] <= index[v]
          BY <1>2, <3>2
        <5>2. QED
          BY <1>2, <3>4, <5>1 DEF Within
      <4>2. lowlink[v] <= index[y]
        BY <4>1 DEF TarjanInv, Explored
      <4>3. \A d \in C : index[d] <= index[c]
        BY <1>2, <3>1, <3>2, <3>4
      <4>4. lowlink'[c] <= lowlink[v]
        BY <1>2, <3>1, <4>3
      <4>5. QED
        BY <3>2, <4>2, <4>4
    <3>5. QED
      BY <3>2, <3>3, <3>4
  <2>3. QED
    BY <1>1, <1>4, <2>1, <2>2 DEF TarjanInv, Explored
<1>12. Sealed' /\ ComponentsExact'
  BY <1>1, <1>4 DEF TarjanInv, Sealed, ComponentsExact
<1>13. QED
  BY <1>5, <1>6, <1>7, <1>10, <1>11, <1>12 DEF TarjanInv

\* Popping a component keeps the invariant.  The items popped are those numbered
\* from v on: v reaches them and they reach v, and by their lowlinks nothing
\* leaves them but for components that are closed already.
LEMMA TarjanCloseComponent ==
  ASSUME TarjanInv, CloseComponent
  PROVE  TarjanInv'
<1> DEFINE v == Last(calls)
           C == Range(calls')
           at == CHOOSE i \in DOMAIN stack : stack[i] = v
           S == {stack[i] : i \in at..Len(stack)}
<1>1. /\ Return /\ lowlink[v] = index[v]
      /\ sccs' = Append(sccs, S) /\ stack' = SubSeq(stack, 1, at - 1)
      /\ UNCHANGED <<adj, index, rest>>
  BY DEF CloseComponent, InScc
<1>2. /\ v \in Active /\ v \in Open /\ v \in V /\ rest[v] = {}
      /\ calls' \in Seq(V) /\ Active = C \cup {v}
      /\ \A i, j \in DOMAIN calls' : i < j => index[calls'[i]] < index[calls'[j]]
      /\ \A c \in C : index[c] < index[v]
      /\ lowlink' \in [V -> Nat]
      /\ \A x \in V : lowlink'[x] <= lowlink[x]
      /\ \A x \in V : lowlink'[x] = lowlink[x] \/ (x \in C /\ lowlink'[x] = lowlink[v])
  BY <1>1, Returned
<1>3. /\ index \in [V -> Nat] /\ lowlink \in [V -> Nat] /\ adj \in [V -> SUBSET V]
      /\ stack \in Seq(V) /\ sccs \in Seq(SUBSET V)
      /\ Open \subseteq V /\ Active \subseteq Open
  BY RangeOfSeq DEF TarjanInv, SccTypes, Stacked, Open
<1>4. /\ at \in 1..Len(stack) /\ stack[at] = v
      /\ Len(stack) \in Nat /\ DOMAIN stack = 1..Len(stack)
  <2>1. \E i \in DOMAIN stack : stack[i] = v
    BY <1>2 DEF Open, Range
  <2>2. at \in DOMAIN stack /\ stack[at] = v
    BY <2>1
  <2>3. QED
    BY <1>3, <2>2, LenProperties
<1>5. calls # << >> /\ \A c \in Active : index[c] <= index[v]
  BY <1>1, LastIsInnermost DEF Return, TarjanInv
<1> HIDE DEF v, C, at
<1>6. /\ stack' \in Seq(V) /\ DOMAIN stack' = 1..(at - 1)
      /\ \A i \in 1..(at - 1) : stack'[i] = stack[i]
  <2>1. 1 \in 1..(Len(stack) + 1) /\ at - 1 \in 0..Len(stack) /\ at - 1 \in Int
    BY <1>4
  <2>2. \A i \in 1..(at - 1) : stack[i] \in V
    BY <1>3, <1>4, ElementOfSeq
  <2>3. /\ Len(stack') = at - 1 /\ stack' \in Seq(V)
        /\ \A i \in 1..(at - 1) : stack'[i] = stack[i]
    BY <1>1, <1>3, <1>4, <2>1, <2>2, SubSeqProperties
  <2>4. QED
    BY <2>3, LenProperties
<1>7. S = {x \in Open : index[v] <= index[x]}
  <2>1. ASSUME NEW i \in at..Len(stack) PROVE stack[i] \in Open /\ index[v] <= index[stack[i]]
    <3>1. i \in DOMAIN stack /\ at \in DOMAIN stack /\ (i = at \/ at < i)
      BY <1>4
    <3>2. stack[i] \in Open /\ stack[i] \in V
      BY <1>3, <3>1 DEF Open, Range
    <3>3. index[v] \in Nat /\ index[stack[i]] \in Nat
      BY <1>2, <1>3, <3>2
    <3>4. i = at \/ index[v] < index[stack[i]]
      BY <1>4, <3>1 DEF TarjanInv, Stacked
    <3>5. QED
      BY <1>4, <3>2, <3>3, <3>4
  <2>2. ASSUME NEW x \in Open, index[v] <= index[x] PROVE \E i \in at..Len(stack) : x = stack[i]
    <3>1. PICK i \in DOMAIN stack : x = stack[i]
      BY DEF Open, Range
    <3>2. index[v] \in Nat /\ index[x] \in Nat
      BY <1>2, <1>3
    <3>3. ~ (i < at)
      BY <1>4, <2>2, <3>1, <3>2 DEF TarjanInv, Stacked
    <3>4. QED
      BY <1>4, <3>1, <3>3
  <2>3. QED
    BY <2>1, <2>2
<1>8. Open' = {x \in Open : index[x] < index[v]}
  <2>1. ASSUME NEW x \in Open' PROVE x \in Open /\ index[x] < index[v]
    <3>1. PICK i \in 1..(at - 1) : x = stack[i]
      BY <1>6 DEF Open, Range
    <3>2. i \in DOMAIN stack /\ at \in DOMAIN stack /\ i < at
      BY <1>4
    <3>3. QED
      BY <1>4, <3>1, <3>2 DEF Open, Range, TarjanInv, Stacked
  <2>2. ASSUME NEW x \in Open, index[x] < index[v] PROVE x \in Open'
    <3>1. PICK i \in DOMAIN stack : x = stack[i]
      BY DEF Open, Range
    <3>2. index[v] \in Nat /\ index[x] \in Nat
      BY <1>2, <1>3
    <3>3. ~ (at < i) /\ i # at
      BY <1>4, <2>2, <3>1, <3>2 DEF TarjanInv, Stacked
    <3>4. i \in 1..(at - 1)
      BY <1>4, <3>3
    <3>5. QED
      BY <1>6, <3>1, <3>4 DEF Open, Range
  <2>3. QED
    BY <2>1, <2>2
<1> HIDE DEF S
<1>9. /\ V' = V /\ Seen' = Seen /\ Active' = C /\ Closed' = Closed \cup S
      /\ DOMAIN sccs = 1..Len(sccs) /\ Len(sccs) \in Nat
      /\ sccs' \in Seq(SUBSET V) /\ DOMAIN sccs' = 1..(Len(sccs) + 1)
      /\ \A k \in 1..Len(sccs) : sccs'[k] = sccs[k]
      /\ sccs'[Len(sccs) + 1] = S
  <2>1. S \in SUBSET V
    BY <1>3, <1>7
  <2>2. /\ sccs' \in Seq(SUBSET V) /\ DOMAIN sccs' = 1..(Len(sccs) + 1)
        /\ DOMAIN sccs = 1..Len(sccs) /\ Len(sccs) \in Nat
        /\ \A k \in 1..Len(sccs) : sccs'[k] = sccs[k]
        /\ sccs'[Len(sccs) + 1] = S
        /\ Range(sccs') = Range(sccs) \cup {S}
    BY <1>1, <1>3, <2>1, Push
  <2>3. Closed' = Closed \cup S
    BY <2>2 DEF Closed
  <2>4. QED
    BY <1>1, <2>2, <2>3 DEF V, Seen, Active, C
<1>10. /\ \A x \in Open : index[x] \in Nat /\ (x \in S \/ x \in Open') /\ ~ (x \in S /\ x \in Open')
       /\ S \subseteq Open /\ Open' \subseteq Open
  <2>1. \A x \in Open : index[x] \in Nat
    BY <1>3
  <2>2. index[v] \in Nat
    BY <1>2, <1>3
  <2>3. QED
    BY <1>7, <1>8, <2>1, <2>2
<1>11. C \subseteq Open' /\ v \in S
  <2>1. index[v] <= index[v]
    BY <1>2, <1>3
  <2>2. QED
    BY <1>2, <1>3, <1>7, <1>8, <2>1
<1>12. \A x \in V : lowlink'[x] = lowlink[x]
  <2> TAKE x \in V
  <2>1. lowlink[x] \in Nat /\ lowlink'[x] \in Nat /\ index[x] \in Nat /\ index[v] \in Nat
    BY <1>2, <1>3
  <2>2. lowlink'[x] <= lowlink[x] /\ lowlink[x] <= index[x]
    BY <1>2 DEF TarjanInv, Numbered
  <2>3. x \in C => index[x] < index[v]
    BY <1>2
  <2>4. QED
    BY <1>1, <1>2, <2>1, <2>2, <2>3
<1>13. SccTypes'
  BY <1>1, <1>2, <1>6, <1>9 DEF TarjanInv, SccTypes
<1>14. Numbered'
  BY <1>1, <1>9, <1>12 DEF TarjanInv, Numbered
<1>15. Stacked'
  <2>1. \A i, j \in DOMAIN stack' : i < j => index[stack'[i]] < index[stack'[j]]
    <3> TAKE i, j \in DOMAIN stack'
    <3>1. i \in DOMAIN stack /\ j \in DOMAIN stack /\ stack'[i] = stack[i] /\ stack'[j] = stack[j]
      BY <1>4, <1>6
    <3>2. QED
      BY <3>1 DEF TarjanInv, Stacked
  <2>2. Seen = Open' \cup Closed' /\ Open' \cap Closed' = {}
    <3>1. Seen = Open \cup Closed /\ Open \cap Closed = {}
      BY DEF TarjanInv, Stacked
    <3>2. QED
      BY <1>9, <1>10, <3>1
  <2>3. QED
    BY <1>1, <1>2, <1>9, <1>11, <2>1, <2>2 DEF Stacked
<1>16. Chain'
  <2>1. ASSUME NEW x \in Open' \ C PROVE \E y \in Open' : index[y] < index[x] /\ Reaches(adj, x, y)
    <3>1. x \in Open \ Active
      BY <1>2, <1>10, <1>11, <2>1
    <3>2. PICK y \in Open : index[y] < index[x] /\ Reaches(adj, x, y)
      BY <3>1 DEF TarjanInv, Chain
    <3>3. index[y] \in Nat /\ index[x] \in Nat /\ index[v] \in Nat /\ index[x] < index[v]
      BY <1>2, <1>3, <1>8, <3>1
    <3>4. index[y] < index[v]
      BY <3>2, <3>3
    <3>5. QED
      BY <1>8, <3>2, <3>4
  <2>2. ASSUME NEW x \in Open' PROVE \E y \in Open' : index[y] = lowlink'[x] /\ Reaches(adj, x, y)
    <3>1. PICK y \in Open : index[y] = lowlink[x] /\ Reaches(adj, x, y)
      BY <1>10 DEF TarjanInv, Chain
    <3>2. x \in V /\ index[y] \in Nat /\ index[x] \in Nat /\ index[v] \in Nat /\ index[x] < index[v]
      BY <1>2, <1>3, <1>8, <3>1
    <3>3. index[y] <= index[x]
      BY <3>1, <3>2 DEF TarjanInv, Numbered
    <3>4. index[y] < index[v]
      BY <3>2, <3>3
    <3>5. QED
      BY <1>8, <1>12, <3>1, <3>2, <3>4
  <2>3. \A x, y \in Open' : index[x] <= index[y] => Reaches(adj, x, y)
    BY <1>10 DEF TarjanInv, Chain
  <2>4. QED
    BY <1>1, <1>9, <2>1, <2>2, <2>3 DEF Chain
<1>17. Explored'
  <2>1. \A x \in Seen \ C : rest[x] = {}
    BY <1>2 DEF TarjanInv, Explored
  <2>2. ASSUME NEW x \in Open', NEW y \in (adj[x] \ rest[x]) \cap Open', NEW c, Within(x, c)'
        PROVE  lowlink'[c] <= index[y]
    <3>1. c \in C /\ index[c] <= index[x] /\ \A d \in C : index[d] <= index[c] \/ index[x] < index[d]
      BY <1>1, <1>9, <2>2 DEF Within
    <3>2. Within(x, c)
      BY <1>2, <1>8, <3>1 DEF Within
    <3>3. lowlink[c] <= index[y]
      BY <1>10, <3>2 DEF TarjanInv, Explored
    <3>4. QED
      BY <1>2, <1>3, <1>12, <3>1, <3>3
  <2>3. QED
    BY <1>1, <1>9, <2>1, <2>2 DEF TarjanInv, Explored
<1>18. \A x \in S : adj[x] \subseteq Closed \cup S
  <2> SUFFICES ASSUME NEW x \in S, NEW y \in adj[x], y \notin Closed PROVE y \in S
    OBVIOUS
  <2>1. x \in Open /\ x \in Seen /\ index[v] <= index[x]
    BY <1>7 DEF TarjanInv, Stacked
  <2>2. rest[x] = {}
    <3>1. x \notin C
      BY <1>10, <1>11, <2>1
    <3>2. QED
      BY <1>2, <2>1, <3>1 DEF TarjanInv, Explored
  <2>3. y \in Open /\ y \in adj[x] \ rest[x]
    BY <2>1, <2>2 DEF TarjanInv, Explored, Stacked
  <2>4. Within(x, v)
    BY <1>2, <1>5, <2>1 DEF Within
  <2>5. lowlink[v] <= index[y]
    BY <2>1, <2>3, <2>4 DEF TarjanInv, Explored
  <2>6. QED
    BY <1>1, <1>7, <2>3, <2>5
<1>19. Sealed'
  BY <1>1, <1>9, <1>18 DEF TarjanInv, Sealed
<1>20. ASSUME NEW x \in S PROVE S = {w \in V : Mutual(adj, x, w)}
  <2>1. \A y \in S : Reaches(adj, v, y) /\ Reaches(adj, y, v)
    <3> TAKE y \in S
    <3>1. y \in Open /\ index[v] <= index[y]
      BY <1>7
    <3>2. Reaches(adj, v, y)
      BY <1>2, <3>1 DEF TarjanInv, Chain
    <3>3. Reaches(adj, y, v)
      BY <3>1, OpenReachLast DEF v
    <3>4. QED
      BY <3>2, <3>3
  <2>2. \A w \in S : Mutual(adj, x, w)
    BY <1>3, <2>1, ReachesOn DEF Mutual
  <2>3. ASSUME NEW w \in V, Mutual(adj, x, w) PROVE w \in S
    <3>1. Closed \in SUBSET V /\ S \in SUBSET V
      BY <1>3, <1>10, RangeOfSeq DEF Closed
    <3>2. w \in Closed \cup S
      <4>1. Closed \cup S \in SUBSET V /\ \A u \in Closed \cup S : adj[u] \subseteq Closed \cup S
        BY <1>18, <3>1 DEF TarjanInv, Sealed
      <4>2. QED
        BY <1>3, <2>3, <4>1, ReachesStays DEF Mutual
    <3>3. w \notin Closed
      <4> SUFFICES ASSUME w \in Closed PROVE FALSE
        OBVIOUS
      <4>1. x \in Closed
        BY <1>3, <2>3, <3>1, ReachesStays DEF Mutual, TarjanInv, Sealed
      <4>2. QED
        BY <1>10, <4>1 DEF TarjanInv, Stacked
    <3>4. QED
      BY <3>2, <3>3
  <2>4. QED
    BY <1>3, <1>10, <2>2, <2>3
<1>21. ComponentsExact'
  <2> DEFINE n == Len(sccs)
  <2>1. \A k \in 1..(n + 1) : k \in 1..n \/ k = n + 1
    BY <1>9
  <2>2. \A k \in 1..n : k \in DOMAIN sccs /\ sccs[k] \subseteq Closed /\ sccs'[k] = sccs[k]
    BY <1>9 DEF Closed, Range
  <2>3. \A k \in 1..n : sccs[k] \cap S = {}
    BY <1>10, <2>2 DEF TarjanInv, Stacked
  <2>4. \A k \in DOMAIN sccs' : \A x \in sccs'[k] : sccs'[k] = {w \in V : Mutual(adj, x, w)}
    BY <1>9, <1>20, <2>1, <2>2 DEF TarjanInv, ComponentsExact, V
  <2>5. \A k, l \in DOMAIN sccs' : k # l => sccs'[k] \cap sccs'[l] = {}
    BY <1>9, <2>1, <2>2, <2>3 DEF TarjanInv, ComponentsExact
  <2>6. QED
    BY <1>1, <1>9, <2>4, <2>5 DEF ComponentsExact, V
<1>22. QED
  BY <1>13, <1>14, <1>15, <1>16, <1>17, <1>19, <1>21 DEF TarjanInv

-----------------------------------------------------------------------------
(***************************************************************************)
(* The walk and the modules that are judged after it.                      *)
(***************************************************************************)
Items == [def : DOMAIN hir.chain, impl_self_ty : DOMAIN hir.chain \cup {None}]

\* The k-th thing of the walk is a reference that counts, and is collected so.
Counted(k) ==
  enabled /\ hir.walk[k].event = "ref" /\ hir.walk[k].counts /\ hir.walk[k].target # None

RawRef(k) == [owner |-> hir.walk[k].owner, target |-> hir.walk[k].target, span |-> k]

\* The k-th thing of the walk is an item, and is collected so.
IsItem(k, item) ==
  /\ hir.walk[k].event = "item"
  /\ hir.walk[k].def = item.def /\ hir.walk[k].impl_self_ty = item.impl_self_ty

\* The items of a module are of it, were visited, and are all different.
Collected(m) ==
  /\ modules[m] \in Seq(Items)
  /\ \A i \in DOMAIN modules[m] :
       /\ hir.chain[modules[m][i].def][2] = m
       /\ \E k \in 1..visited : IsItem(k, modules[m][i])
  /\ \A i, j \in DOMAIN modules[m] : modules[m][i].def = modules[m][j].def => i = j

WalkInv ==
  /\ \E c \in CrateIds : hir = Crate(c)
  /\ visited \in 0..Len(hir.walk)
  /\ DOMAIN modules \subseteq hir.mods
  /\ \A m \in DOMAIN modules : Collected(m)
  /\ raw_refs = {RawRef(k) : k \in {k \in 1..visited : Counted(k)}}

\* While Tarjan's algorithm runs, its graph is that of the module.
JudgeInv ==
  /\ phase \in {"walk", "next", "scc", "done"}
  /\ todo \subseteq DOMAIN modules
  /\ phase = "walk" => reported = {} /\ todo = {}
  /\ phase # "walk" => visited = Len(hir.walk)
  /\ phase = "done" => todo = {}
  /\ phase = "scc" =>
       /\ module \in DOMAIN modules /\ module \notin todo
       /\ V = DOMAIN modules[module]
       /\ refs = remap_impl_refs(modules[module], module_refs(module))
       /\ adj = build_adj_list(modules[module], refs)
  /\ reported \subseteq [kind: {"order", "group"}, def: DOMAIN hir.chain]

\* What stands for an item of a module: its self type, if that is one of them.
Stand(m, i) ==
  LET t == PlacesOf(modules[m], modules[m][i].impl_self_ty)
  IN  IF t = {} THEN i ELSE LeastOf(t)

\* What an item stands for is an item, that of its unit.
LEMMA StandIsPlace ==
  ASSUME NEW m, modules[m] \in Seq(Items), NEW i \in DOMAIN modules[m]
  PROVE  Stand(m, i) \in DOMAIN modules[m] /\ modules[m][Stand(m, i)].def = Unit(m, i)
<1> DEFINE t == PlacesOf(modules[m], modules[m][i].impl_self_ty)
<1>1. CASE t = {}
  BY <1>1 DEF Stand, Unit
<1>2. CASE t # {}
  <2>1. t \in SUBSET Nat
    <3>1. DOMAIN modules[m] = 1..Len(modules[m]) /\ Len(modules[m]) \in Nat
      BY LenProperties
    <3>2. QED
      BY <3>1 DEF PlacesOf
  <2>2. LeastOf(t) \in t
    BY <1>2, <2>1, LeastIsIn
  <2>3. Stand(m, i) = LeastOf(t) /\ Unit(m, i) = modules[m][i].impl_self_ty
    BY <1>2 DEF Stand, Unit
  <2>4. LeastOf(t) \in DOMAIN modules[m] /\ modules[m][LeastOf(t)].def = modules[m][i].impl_self_ty
    BY <2>2 DEF PlacesOf
  <2>5. QED
    BY <2>3, <2>4
<1>3. QED
  BY <1>1, <1>2

LEMMA FoundInModule ==
  ASSUME NEW m, NEW d
  PROVE  find_module_item(m, d) \subseteq DOMAIN modules[m]
BY DEF find_module_item, PlacesOf

LEMMA RefsStay ==
  ASSUME NEW m, UNCHANGED <<hir, modules, raw_refs>>
  PROVE  module_refs(m)' = module_refs(m) /\ \A d : find_module_item(m, d)' = find_module_item(m, d)
<1>1. \A d : find_module_item(m, d)' = find_module_item(m, d)
  BY DEF find_module_item, PlacesOf
<1>2. module_refs(m)' = module_refs(m)
  BY <1>1 DEF module_refs
<1>3. QED
  BY <1>1, <1>2

\* The references of a module are those between its items, put on what these
\* stand for.
LEMMA RemappedRefs ==
  ASSUME NEW m
  PROVE  \A x : x \in remap_impl_refs(modules[m], module_refs(m)) <=>
           \E r \in raw_refs : \E i \in find_module_item(m, r.owner) :
             \E j \in find_module_item(m, r.target) :
               /\ x = [from |-> Stand(m, i), to |-> Stand(m, j), span |-> r.span]
               /\ Stand(m, i) # Stand(m, j)
<1> DEFINE R == module_refs(m)
           F(s) == [from |-> Stand(m, s.from), to |-> Stand(m, s.to), span |-> s.span]
<1>1. remap_impl_refs(modules[m], R) = {r \in {F(s) : s \in R} : r.from # r.to}
  BY DEF remap_impl_refs, Stand
<1>2. \A s : s \in R <=>
        \E r \in raw_refs : \E i \in find_module_item(m, r.owner) :
          \E j \in find_module_item(m, r.target) : s = [from |-> i, to |-> j, span |-> r.span]
  BY DEF module_refs
<1> HIDE DEF R
<1>3. \A i, j, k : F([from |-> i, to |-> j, span |-> k]) = [from |-> Stand(m, i), to |-> Stand(m, j), span |-> k]
  OBVIOUS
<1> HIDE DEF F
<1>4. \A x : x \in {F(s) : s \in R} <=>
        \E r \in raw_refs : \E i \in find_module_item(m, r.owner) :
          \E j \in find_module_item(m, r.target) :
            x = [from |-> Stand(m, i), to |-> Stand(m, j), span |-> r.span]
  <2> SUFFICES ASSUME NEW x
               PROVE  (\E s \in R : x = F(s)) <=>
                 \E r \in raw_refs : \E i \in find_module_item(m, r.owner) :
                   \E j \in find_module_item(m, r.target) :
                     x = [from |-> Stand(m, i), to |-> Stand(m, j), span |-> r.span]
    OBVIOUS
  <2>1. ASSUME NEW s \in R, x = F(s)
        PROVE  \E r \in raw_refs : \E i \in find_module_item(m, r.owner) :
                 \E j \in find_module_item(m, r.target) :
                   x = [from |-> Stand(m, i), to |-> Stand(m, j), span |-> r.span]
    <3>1. PICK r \in raw_refs :
            \E i \in find_module_item(m, r.owner) : \E j \in find_module_item(m, r.target) :
              s = [from |-> i, to |-> j, span |-> r.span]
      BY <1>2
    <3>2. PICK i \in find_module_item(m, r.owner), j \in find_module_item(m, r.target) :
            s = [from |-> i, to |-> j, span |-> r.span]
      BY <3>1
    <3>3. x = [from |-> Stand(m, i), to |-> Stand(m, j), span |-> r.span]
      BY <1>3, <2>1, <3>2
    <3>4. QED
      BY <3>2, <3>3
  <2>2. ASSUME NEW r \in raw_refs, NEW i \in find_module_item(m, r.owner),
               NEW j \in find_module_item(m, r.target),
               x = [from |-> Stand(m, i), to |-> Stand(m, j), span |-> r.span]
        PROVE  \E s \in R : x = F(s)
    <3>1. [from |-> i, to |-> j, span |-> r.span] \in R
      BY <1>2
    <3>2. QED
      BY <1>3, <2>2, <3>1
  <2>3. QED
    BY <2>1, <2>2, Zenon
<1>5. \A i, j, k : [from |-> Stand(m, i), to |-> Stand(m, j), span |-> k].from = Stand(m, i)
                /\ [from |-> Stand(m, i), to |-> Stand(m, j), span |-> k].to = Stand(m, j)
  OBVIOUS
<1>6. \A x : x \in remap_impl_refs(modules[m], R) <=> x \in {F(s) : s \in R} /\ x.from # x.to
  BY <1>1
<1>7. QED
  BY <1>4, <1>5, <1>6 DEF R

LEMMA RefsAreBetweenItems ==
  ASSUME NEW m, modules[m] \in Seq(Items), NEW x \in remap_impl_refs(modules[m], module_refs(m))
  PROVE  x.from \in DOMAIN modules[m] /\ x.to \in DOMAIN modules[m]
<1>1. PICK r \in raw_refs :
         \E i \in find_module_item(m, r.owner) : \E j \in find_module_item(m, r.target) :
             /\ x = [from |-> Stand(m, i), to |-> Stand(m, j), span |-> r.span]
             /\ Stand(m, i) # Stand(m, j)
  BY RemappedRefs
<1>5. PICK i \in find_module_item(m, r.owner), j \in find_module_item(m, r.target) :
         x = [from |-> Stand(m, i), to |-> Stand(m, j), span |-> r.span]
  BY <1>1
<1>2. i \in DOMAIN modules[m] /\ j \in DOMAIN modules[m]
  BY FoundInModule
<1>3. Stand(m, i) \in DOMAIN modules[m] /\ Stand(m, j) \in DOMAIN modules[m]
  BY <1>2, StandIsPlace
<1>4. QED
  BY <1>5, <1>3

\* The walk collects what it visits.
LEMMA WalkStep ==
  ASSUME WalkInv, Next \/ UNCHANGED vars
  PROVE  WalkInv'
<1> DEFINE k == visited + 1
           w == hir.walk[k]
<1>1. /\ hir.walk \in Seq(Range(hir.walk)) /\ Len(hir.walk) \in Nat
      /\ DOMAIN hir.walk = 1..Len(hir.walk)
      /\ \A i \in DOMAIN hir.walk : hir.walk[i].event = "item" =>
           /\ hir.walk[i].def \in DOMAIN hir.chain
           /\ hir.walk[i].impl_self_ty \in DOMAIN hir.chain \cup {None}
      /\ \A i, j \in DOMAIN hir.walk :
           hir.walk[i].event = "item" /\ hir.walk[j].event = "item"
             /\ hir.walk[i].def = hir.walk[j].def => i = j
  <2>1. PICK c \in CrateIds : hir = Crate(c)
    BY DEF WalkInv
  <2>2. /\ hir.walk \in Seq(Range(hir.walk))
        /\ \A i \in DOMAIN hir.walk :
             \/ /\ hir.walk[i].event = "item"
                /\ hir.walk[i].def \in DOMAIN hir.chain
                /\ hir.walk[i].impl_self_ty \in DOMAIN hir.chain \cup {None}
             \/ hir.walk[i].event = "ref"
        /\ \A i, j \in DOMAIN hir.walk :
             hir.walk[i].event = "item" /\ hir.walk[j].event = "item"
               /\ hir.walk[i].def = hir.walk[j].def => i = j
    BY <2>1, CratesAssumption, ZenonT(60) DEF CratesAssumption
  <2>3. QED
    BY <2>2, LenProperties
<1>8. ASSUME NEW m, hir' = hir, 1..visited \subseteq 1..visited', modules'[m] = modules[m], Collected(m)
      PROVE  Collected(m)'
  <2>1. Items' = Items
    BY <1>8 DEF Items
  <2>2. modules'[m] \in Seq(Items)'
    BY <1>8, <2>1 DEF Collected
  <2>3. \A i \in DOMAIN modules'[m] :
          /\ hir'.chain[modules'[m][i].def][2] = m
          /\ \E j \in 1..visited' : IsItem(j, modules[m][i])'
    BY <1>8 DEF Collected, IsItem
  <2>4. \A i, j \in DOMAIN modules'[m] : modules'[m][i].def = modules'[m][j].def => i = j
    BY <1>8 DEF Collected
  <2>5. QED
    BY <2>2, <2>3, <2>4 DEF Collected
<1>2. CASE UNCHANGED walkVars
  <2>1. UNCHANGED <<hir, visited, modules, raw_refs>>
    BY <1>2 DEF walkVars
  <2>2. \A i : Counted(i)' = Counted(i) /\ RawRef(i)' = RawRef(i)
    BY <2>1 DEF Counted, RawRef, enabled
  <2>3. \A m \in DOMAIN modules : Collected(m)'
    BY <1>8, <2>1 DEF WalkInv
  <2>4. raw_refs' = {RawRef(i)' : i \in {i \in 1..visited' : Counted(i)'}}
    BY <2>1, <2>2 DEF WalkInv
  <2>5. QED
    BY <2>1, <2>3, <2>4 DEF WalkInv
<1>3. ASSUME visited \in Nat, visited < Len(hir.walk), visited' = k, hir' = hir
      PROVE  /\ k \in DOMAIN hir.walk /\ visited' \in 0..Len(hir'.walk)
             /\ 1..visited' = (1..visited) \cup {k} /\ k \notin 1..visited
             /\ \A i \in 1..visited : i \in DOMAIN hir.walk /\ i # k
             /\ \A i : Counted(i)' = Counted(i) /\ RawRef(i)' = RawRef(i)
  <2>1. /\ k \in DOMAIN hir.walk /\ visited' \in 0..Len(hir'.walk)
        /\ 1..visited' = (1..visited) \cup {k} /\ k \notin 1..visited
        /\ \A i \in 1..visited : i \in DOMAIN hir.walk /\ i # k
    BY <1>1, <1>3
  <2>2. \A i : Counted(i)' = Counted(i) /\ RawRef(i)' = RawRef(i)
    BY <1>3 DEF Counted, RawRef, enabled
  <2>3. QED
    BY <2>1, <2>2
<1>4. CASE record_ref
  <2>1. /\ visited \in Nat /\ visited < Len(hir.walk) /\ visited' = k /\ hir' = hir /\ modules' = modules
        /\ w.event = "ref"
        /\ raw_refs' = IF enabled /\ w.counts /\ w.target # None
                       THEN raw_refs \cup {RawRef(k)} ELSE raw_refs
    BY <1>1, <1>4 DEF record_ref, Visit, WalkInv, RawRef
  <2>2. /\ k \in DOMAIN hir.walk /\ visited' \in 0..Len(hir'.walk)
        /\ 1..visited' = (1..visited) \cup {k}
        /\ \A i : Counted(i)' = Counted(i) /\ RawRef(i)' = RawRef(i)
    BY <1>3, <2>1
  <2>3. raw_refs' = IF Counted(k) THEN raw_refs \cup {RawRef(k)} ELSE raw_refs
    BY <2>1 DEF Counted
  <2> HIDE DEF k, w
  <2>4. raw_refs' = {RawRef(i)' : i \in {i \in 1..visited' : Counted(i)'}}
    BY <2>2, <2>3 DEF WalkInv
  <2>5. \A m \in DOMAIN modules : Collected(m)'
    BY <1>8, <2>1, <2>2 DEF WalkInv
  <2>6. QED
    BY <2>1, <2>2, <2>4, <2>5 DEF WalkInv
<1>5. CASE check_item
  <2> DEFINE p == hir.chain[w.def][2]
             new == [def |-> w.def, impl_self_ty |-> w.impl_self_ty]
             before == IF p \in DOMAIN modules THEN modules[p] ELSE << >>
  <2>1. /\ visited \in Nat /\ visited < Len(hir.walk) /\ visited' = k /\ hir' = hir
        /\ raw_refs' = raw_refs /\ w.event = "item"
    BY SMTT(30), <1>1, <1>5 DEF check_item, Visit, WalkInv
  <2>2. /\ k \in DOMAIN hir.walk /\ visited' \in 0..Len(hir'.walk)
        /\ 1..visited' = (1..visited) \cup {k}
        /\ \A i \in 1..visited : i \in DOMAIN hir.walk /\ i # k
        /\ \A i : Counted(i)' = Counted(i) /\ RawRef(i)' = RawRef(i)
    BY <1>3, <2>1
  <2>3. modules' = modules \/
          /\ p \in hir.mods
          /\ DOMAIN modules' = DOMAIN modules \cup {p}
          /\ modules'[p] = Append(before, new)
          /\ \A m \in DOMAIN modules \ {p} : modules'[m] = modules[m]
    <3>1. modules' = IF enabled /\ w.counts /\ p \in hir.mods
                     THEN [m \in DOMAIN modules \cup {p} |->
                             LET b == IF m \in DOMAIN modules THEN modules[m] ELSE << >>
                             IN  IF m = p THEN Append(b, new) ELSE b]
                     ELSE modules
      BY <1>5 DEF check_item
    <3> HIDE DEF new, p
    <3>2. QED
      BY <3>1
  <2>4. new \in Items /\ ~ Counted(k)
    BY <1>1, <2>1, <2>2 DEF Items, Counted
  <2>5. before \in Seq(Items)
        /\ \A i \in DOMAIN before :
             /\ hir.chain[before[i].def][2] = p
             /\ \E j \in 1..visited : IsItem(j, before[i])
        /\ \A a, b \in DOMAIN before : before[a].def = before[b].def => a = b
    <3>1. CASE p \in DOMAIN modules
      <4>1. before = modules[p] /\ Collected(p)
        BY <3>1 DEF WalkInv
      <4> HIDE DEF before, p
      <4>2. QED
        BY <4>1 DEF Collected
    <3>2. CASE p \notin DOMAIN modules
      <4>1. before = << >> /\ DOMAIN before = {} /\ before \in Seq(Items)
        BY <3>2, EmptySeq
      <4> HIDE DEF before, p
      <4>2. QED
        BY <4>1
    <3>3. QED
      BY <3>1, <3>2
  <2>6. new.def = w.def /\ new.impl_self_ty = w.impl_self_ty
    OBVIOUS
  <2> HIDE DEF k, w, before, new, p
  <2>7. raw_refs' = {RawRef(i)' : i \in {j \in 1..visited' : Counted(j)'}}
    BY <2>1, <2>2, <2>4 DEF WalkInv
  <2>8. \A m \in DOMAIN modules : modules'[m] = modules[m] => Collected(m)'
    BY <1>8, <2>1, <2>2 DEF WalkInv
  <2>9. ASSUME NEW q, q = p, modules'[q] = Append(before, new) PROVE Collected(q)'
    <3> DEFINE n == Len(before)
               s == Append(before, new)
    <3>1. /\ s \in Seq(Items) /\ DOMAIN s = 1..(n + 1) /\ DOMAIN before = 1..n /\ n \in Nat
          /\ \A i \in 1..n : s[i] = before[i]
          /\ s[n + 1] = new
      BY <2>4, <2>5, Push
    <3> HIDE DEF n, s
    <3>2. \A i \in DOMAIN s : (i \in DOMAIN before /\ s[i] = before[i]) \/ (i = n + 1 /\ s[i] = new)
      BY <3>1
    <3>3. \A i \in DOMAIN s :
             /\ hir.chain[s[i].def][2] = q
             /\ \E j \in 1..visited' : IsItem(j, s[i])
      <4>1. hir.chain[new.def][2] = q
        BY <2>6, <2>9 DEF p
      <4>2. k \in 1..visited' /\ IsItem(k, new)
        BY <2>1, <2>2, <2>6 DEF w, IsItem
      <4>3. QED
        BY <2>2, <2>5, <2>9, <3>2, <4>1, <4>2
    <3>4. \A i \in DOMAIN before : before[i].def # new.def
      <4> TAKE i \in DOMAIN before
      <4>1. PICK j \in 1..visited : hir.walk[j].event = "item" /\ hir.walk[j].def = before[i].def
        BY <2>5 DEF IsItem
      <4>2. j \in DOMAIN hir.walk /\ j # k /\ k \in DOMAIN hir.walk
        BY <2>2
      <4>3. hir.walk[j].def # hir.walk[k].def
        BY <1>1, <2>1, <4>1, <4>2 DEF w
      <4>4. QED
        BY <2>6, <4>1, <4>3 DEF w
    <3>5. \A i, j \in DOMAIN s : s[i].def = s[j].def => i = j
      BY <2>5, <3>2, <3>4
    <3>6. Items' = Items
      BY <2>1 DEF Items
    <3>7. hir' = hir /\ modules'[q] = s
      BY <2>1, <2>9 DEF s
    <3>8. QED
      BY <3>1, <3>3, <3>5, <3>6, <3>7 DEF Collected, IsItem
  <2>10. \A m \in DOMAIN modules' : Collected(m)'
    BY <2>3, <2>8, <2>9
  <2>11. DOMAIN modules' \subseteq hir'.mods
    BY <2>1, <2>3 DEF WalkInv
  <2>12. QED
    BY <2>1, <2>2, <2>7, <2>10, <2>11 DEF WalkInv
<1>6. check_item \/ record_ref \/ UNCHANGED walkVars
  BY DEF Next, check_crate_post, StartModule, CallRoot, strongconnect, Recurse, MeetOpen, MeetClosed,
         LooksAt, InScc, CloseComponent, LeaveOpen, ReportModule, Finish, vars
<1>7. QED
  BY <1>2, <1>4, <1>5, <1>6

\* Tarjan's algorithm begins with no item numbered.
Fresh ==
  /\ \E n \in Nat : V = 1..n
  /\ adj \in [V -> SUBSET V]
  /\ index = [v \in V |-> 0] /\ lowlink = [v \in V |-> 0] /\ rest = [v \in V |-> {}]
  /\ stack = << >> /\ calls = << >> /\ sccs = << >>

LEMMA FreshTarjan == Fresh => TarjanInv
<1> SUFFICES ASSUME Fresh PROVE TarjanInv
  OBVIOUS
<1>1. /\ index \in [V -> Nat] /\ lowlink \in [V -> Nat]
      /\ adj \in [V -> SUBSET V] /\ rest \in [V -> SUBSET V]
      /\ \A v \in V : index[v] = 0 /\ lowlink[v] = 0 /\ rest[v] = {}
  BY DEF Fresh
<1>2. stack = << >> /\ calls = << >> /\ sccs = << >>
  BY DEF Fresh
<1>3. SccTypes
  BY <1>1, <1>2, EmptySeq DEF Fresh, SccTypes
<1>4. /\ Open = {} /\ Active = {} /\ Closed = {}
      /\ DOMAIN stack = {} /\ DOMAIN calls = {} /\ DOMAIN sccs = {}
  BY <1>2 DEF Open, Active, Closed, Range
<1>5. Seen = {}
  BY <1>1 DEF Seen
<1>6. Numbered
  BY <1>1, <1>5, FS_EmptySet DEF Numbered
<1>7. Stacked /\ Chain /\ Sealed /\ ComponentsExact
  BY <1>4, <1>5 DEF Stacked, Chain, Sealed, ComponentsExact
<1>8. Explored
  BY <1>1, <1>4, <1>5 DEF Explored
<1>9. QED
  BY <1>3, <1>6, <1>7, <1>8 DEF TarjanInv

LEMMA TarjanStays ==
  ASSUME TarjanInv, UNCHANGED <<adj, index, lowlink, stack, calls, rest, sccs>>
  PROVE  TarjanInv'
<1>1. V' = V /\ Open' = Open /\ Closed' = Closed /\ Active' = Active /\ Seen' = Seen
  BY DEF V, Open, Closed, Active, Seen
<1>2. \A x, c : Within(x, c)' <=> Within(x, c)
  BY <1>1 DEF Within
<1>3. SccTypes' /\ Numbered' /\ Stacked'
  BY <1>1 DEF TarjanInv, SccTypes, Numbered, Stacked
<1>4. Chain' /\ Explored' /\ Sealed'
  BY <1>1, <1>2 DEF TarjanInv, Chain, Explored, Sealed
<1>5. ComponentsExact'
  BY <1>1 DEF TarjanInv, ComponentsExact
<1>6. QED
  BY <1>3, <1>4, <1>5 DEF TarjanInv

\* Every step of the lint keeps the invariant of the algorithm.
LEMMA TarjanStep ==
  ASSUME WalkInv, JudgeInv, TarjanInv, Next \/ UNCHANGED vars
  PROVE  TarjanInv'
<1>1. CASE UNCHANGED sccVars
  BY <1>1, TarjanStays DEF sccVars
<1>2. ASSUME NEW m \in todo, StartModule(m) PROVE TarjanInv'
  <2>1. modules[m] \in Seq(Items)
    BY DEF JudgeInv, WalkInv, Collected
  <2>2. /\ adj' = build_adj_list(modules[m], refs')
        /\ index' = [v \in DOMAIN modules[m] |-> 0]
        /\ lowlink' = [v \in DOMAIN modules[m] |-> 0]
        /\ rest' = [v \in DOMAIN modules[m] |-> {}]
        /\ stack' = << >> /\ calls' = << >> /\ sccs' = << >>
    BY <1>2 DEF StartModule
  <2>3. V' = DOMAIN modules[m]
    BY <2>2 DEF V
  <2>4. adj' \in [V' -> SUBSET V']
    BY <2>2, <2>3 DEF build_adj_list
  <2>5. V' = 1..Len(modules[m]) /\ Len(modules[m]) \in Nat
    BY <2>1, <2>3, LenProperties
  <2>6. Fresh'
    BY <2>2, <2>3, <2>4, <2>5 DEF Fresh
  <2>7. QED
    BY <2>6, FreshTarjan, PTL
<1>3. ASSUME NEW v \in V, CallRoot(v) PROVE TarjanInv'
  BY <1>3, TarjanCall DEF CallRoot, InScc
<1>4. ASSUME NEW w \in V, Recurse(w) PROVE TarjanInv'
  <2>1. /\ calls # << >> /\ w \in rest[Last(calls)] /\ UNCHANGED adj /\ Call(w, Looked(w))
    BY <1>4 DEF Recurse, LooksAt, InScc
  <2>2. Last(calls) \in V
    BY <2>1, LastIsInnermost DEF TarjanInv
  <2>3. w \in adj[Last(calls)]
    BY <2>1, <2>2 DEF TarjanInv, Explored
  <2>4. QED
    BY <2>1, <2>3, TarjanCall
<1>5. ASSUME NEW w \in V, MeetOpen(w) PROVE TarjanInv'
  BY <1>5, TarjanLook DEF MeetOpen, Open
<1>6. ASSUME NEW w \in V, MeetClosed(w) PROVE TarjanInv'
  BY <1>6, TarjanLook DEF MeetClosed, Open
<1>7. check_item \/ record_ref \/ check_crate_post \/ ReportModule \/ Finish \/ UNCHANGED vars => UNCHANGED sccVars
  BY DEF check_item, record_ref, Visit, check_crate_post, ReportModule, Finish, vars
<1>8. QED
  BY <1>1, <1>2, <1>3, <1>4, <1>5, <1>6, <1>7, TarjanCloseComponent, TarjanLeaveOpen
     DEF Next, strongconnect, V

\* The references of the module whose order is judged are between its items.
LEMMA JudgeStep ==
  ASSUME WalkInv, JudgeInv, Next \/ UNCHANGED vars
  PROVE  JudgeInv'
<1>1. CASE check_item \/ record_ref
  <2>1. /\ phase = "walk" /\ UNCHANGED <<hir, phase, todo, reported>>
    BY <1>1 DEF check_item, record_ref, Visit
  <2>2. QED
    BY <2>1 DEF JudgeInv
<1>2. CASE check_crate_post
  BY <1>2 DEF check_crate_post, JudgeInv, walkVars
<1>3. ASSUME NEW m \in todo, StartModule(m) PROVE JudgeInv'
  <2>1. /\ phase = "next" /\ phase' = "scc" /\ todo' = todo \ {m} /\ module' = m
        /\ refs' = remap_impl_refs(modules[m], module_refs(m))
        /\ adj' = build_adj_list(modules[m], refs')
        /\ index' = [v \in DOMAIN modules[m] |-> 0]
        /\ UNCHANGED <<hir, visited, modules, raw_refs, reported>>
    BY <1>3 DEF StartModule, walkVars
  <2>2. V' = DOMAIN modules[m]
    BY <2>1 DEF V
  <2>3. module_refs(m)' = module_refs(m)
    BY <2>1, RefsStay
  <2>4. refs' = remap_impl_refs(modules'[m], module_refs(m)')
    BY <2>1, <2>3
  <2>5. (module_refs(module))' = module_refs(m)'
    BY <2>1
  <2>6. QED
    BY <2>1, <2>2, <2>4, <2>5 DEF JudgeInv
<1>4. ASSUME UNCHANGED <<walkVars, phase, todo, module, refs, adj, reported>>, V' = V
      PROVE  JudgeInv'
  <2>1. UNCHANGED <<hir, visited, modules, raw_refs, phase, todo, module, refs, adj, reported>>
    BY <1>4 DEF walkVars
  <2>2. (module_refs(module))' = module_refs(module)
    BY <2>1 DEF module_refs, find_module_item, PlacesOf
  <2>3. QED
    BY <1>4, <2>1, <2>2 DEF JudgeInv
<1>5. (\E v \in V : CallRoot(v)) \/ strongconnect \/ UNCHANGED vars
        => UNCHANGED <<walkVars, phase, todo, module, refs, adj, reported>> /\ V' = V
  BY DEF V, CallRoot, strongconnect, Recurse, MeetOpen, MeetClosed, LooksAt, CloseComponent, LeaveOpen,
         InScc, Call, vars, sccVars
<1>6. CASE ReportModule
  <2> DEFINE items == modules[module]
             ordering == find_ordering_violations(refs, item_to_scc)
             grouping == check_impl_grouping(items)
             new == emit_module_diagnostic(items, ordering, grouping)
  <2>1. /\ phase = "scc" /\ phase' = "next" /\ reported' = reported \cup new
        /\ UNCHANGED <<hir, visited, modules, todo>>
    BY <1>6 DEF ReportModule, walkVars
  <2>2. module \in DOMAIN modules /\ items \in Seq(Items)
        /\ refs = remap_impl_refs(items, module_refs(module))
    BY <2>1 DEF JudgeInv, WalkInv, Collected
  <2>3. \A i \in DOMAIN items : items[i].def \in DOMAIN hir.chain
    <3>1. \A i \in DOMAIN items : items[i] \in Items
      BY <2>2, ElementOfSeq, LenProperties
    <3>2. QED
      BY <3>1 DEF Items
  <2>4. \A r \in ordering : r.from \in DOMAIN items
    BY <2>2, RefsAreBetweenItems DEF find_ordering_violations
  <2>5. grouping \subseteq DOMAIN items
    BY DEF check_impl_grouping
  <2> HIDE DEF items, ordering, grouping
  <2>6. new \subseteq [kind : {"order", "group"}, def : DOMAIN hir.chain]
    <3>1. new \subseteq {[kind |-> "order", def |-> items[r.from].def] : r \in ordering}
                          \cup {[kind |-> "group", def |-> items[i].def] : i \in grouping}
      BY DEF emit_module_diagnostic
    <3>2. QED
      BY <2>3, <2>4, <2>5, <3>1
  <2> HIDE DEF new
  <2>7. QED
    BY <2>1, <2>6 DEF JudgeInv
<1>7. CASE Finish
  BY <1>7 DEF Finish, JudgeInv, walkVars
<1>8. QED
  BY <1>1, <1>2, <1>3, <1>4, <1>5, <1>6, <1>7 DEF Next, V

LintInv == WalkInv /\ JudgeInv /\ TarjanInv

LEMMA LintInvHolds == Spec => []LintInv
<1>1. Init => LintInv
  <2> SUFFICES ASSUME Init PROVE LintInv
    OBVIOUS
  <2>1. PICK c \in CrateIds : hir = Crate(c)
    BY DEF Init
  <2>2. Len(hir.walk) \in Nat
    BY <2>1, CratesAssumption, LenProperties DEF CratesAssumption
  <2>3. visited = 0 /\ modules = << >> /\ raw_refs = {} /\ 1..visited = {} /\ DOMAIN modules = {}
    BY DEF Init
  <2>4. WalkInv
    BY <2>1, <2>2, <2>3 DEF WalkInv
  <2>5. JudgeInv
    BY <2>3 DEF Init, JudgeInv
  <2>6. Fresh
    <3>1. V = {} /\ 1..0 = {} /\ 0 \in Nat
      BY DEF Init, V
    <3>2. << >> = [v \in {} |-> 0] /\ << >> = [v \in {} |-> {}] /\ << >> \in [{} -> SUBSET {}]
      OBVIOUS
    <3>3. QED
      BY <3>1, <3>2 DEF Init, Fresh
  <2>7. QED
    BY <2>4, <2>5, <2>6, FreshTarjan DEF LintInv
<1>2. LintInv /\ [Next]_vars => LintInv'
  BY WalkStep, JudgeStep, TarjanStep DEF LintInv
<1>3. QED
  BY <1>1, <1>2, PTL DEF Spec

\* What the invariant says about the stack, place by place.
LEMMA StackShape == TarjanInv => StackIsChain
<1> SUFFICES ASSUME TarjanInv PROVE StackIsChain
  OBVIOUS
<1>1. /\ index \in [V -> Nat] /\ stack \in Seq(V) /\ Open \subseteq V
      /\ DOMAIN stack = 1..Len(stack) /\ Len(stack) \in Nat
  BY RangeOfSeq, LenProperties DEF TarjanInv, SccTypes, Open
<1>2. /\ {v \in DOMAIN index : index[v] # 0} = Range(stack) \cup UNION Range(sccs)
      /\ Range(stack) \cap UNION Range(sccs) = {}
  BY DEF TarjanInv, Stacked, Seen, V, Open, Closed
<1>3. \A j \in DOMAIN stack : stack[j] \in Open /\ index[stack[j]] \in Nat
  BY <1>1 DEF Open, Range
<1>4. \A i, j \in DOMAIN stack : i < j =>
        index[stack[i]] < index[stack[j]] /\ Reaches(adj, stack[i], stack[j])
  <2> SUFFICES ASSUME NEW i \in DOMAIN stack, NEW j \in DOMAIN stack, i < j
               PROVE  index[stack[i]] < index[stack[j]] /\ Reaches(adj, stack[i], stack[j])
    OBVIOUS
  <2>1. index[stack[i]] < index[stack[j]]
    BY DEF TarjanInv, Stacked
  <2>2. index[stack[i]] <= index[stack[j]]
    BY <1>3, <2>1
  <2>3. QED
    BY <1>3, <2>1, <2>2 DEF TarjanInv, Chain
<1>5. ASSUME NEW j \in DOMAIN stack, stack[j] \notin Range(calls)
      PROVE  \E i \in 1..(j-1) : Reaches(adj, stack[j], stack[i])
  <2>1. PICK y \in Open : index[y] < index[stack[j]] /\ Reaches(adj, stack[j], y)
    BY <1>3, <1>5 DEF TarjanInv, Chain, Active
  <2>2. PICK i \in DOMAIN stack : y = stack[i]
    BY DEF Open, Range
  <2>3. ~ (j < i) /\ i # j
    BY <1>3, <1>4, <2>1, <2>2
  <2>4. i \in 1..(j-1)
    BY <1>1, <2>3
  <2>5. QED
    BY <2>1, <2>2, <2>4
<1>6. QED
  BY <1>2, <1>4, <1>5 DEF StackIsChain

LEMMA TypesHold == LintInv => TypeOK
<1> SUFFICES ASSUME LintInv PROVE TypeOK
  OBVIOUS
<1>1. WalkInv /\ JudgeInv /\ TarjanInv
  BY DEF LintInv
<1>2. /\ index \in [V -> Nat] /\ lowlink \in [V -> Nat] /\ rest \in [V -> SUBSET V]
      /\ stack \in Seq(V) /\ calls \in Seq(V) /\ sccs \in Seq(SUBSET V)
  BY <1>1 DEF TarjanInv, SccTypes
<1>3. /\ index \in [V -> 0..Cardinality(V)] /\ lowlink \in [V -> 0..Cardinality(V)]
  <2>1. PICK n \in Nat : V = 1..n
    BY <1>1 DEF TarjanInv, SccTypes
  <2>2. IsFiniteSet(V)
    BY <2>1, FS_Interval
  <2>3. Cardinality(V) \in Nat /\ Cardinality(Seen) \in Nat /\ Cardinality(Seen) <= Cardinality(V)
    BY <2>2, FS_Subset, FS_CardinalityType DEF Seen
  <2>4. ASSUME NEW v \in V PROVE index[v] \in 0..Cardinality(V) /\ lowlink[v] \in 0..Cardinality(V)
    <3>1. index[v] \in Nat /\ lowlink[v] \in Nat
      BY <1>2
    <3>2. index[v] <= Cardinality(Seen) /\ lowlink[v] <= index[v]
      BY <1>1 DEF TarjanInv, Numbered
    <3>3. QED
      BY <2>3, <3>1, <3>2
  <2>5. QED
    BY <1>2, <2>4
<1>4. Range(stack) \cup Range(calls) \subseteq V /\ \A k \in DOMAIN sccs : sccs[k] \subseteq V
  <2>1. Range(stack) \subseteq V /\ Range(calls) \subseteq V
    BY <1>2, RangeOfSeq
  <2>2. \A k \in DOMAIN sccs : sccs[k] \in SUBSET V
    BY <1>2, ElementOfSeq, LenProperties
  <2>3. QED
    BY <2>1, <2>2
<1>5. \A r \in raw_refs : {r.owner, r.target} \subseteq DOMAIN hir.chain /\ r.span <= visited
  <2> TAKE r \in raw_refs
  <2>1. PICK k \in 1..visited : Counted(k) /\ r = RawRef(k)
    BY <1>1 DEF WalkInv
  <2>2. visited \in Nat /\ k <= visited /\ k \in DOMAIN hir.walk
    <3>1. DOMAIN hir.walk = 1..Len(hir.walk) /\ Len(hir.walk) \in Nat
      BY <1>1, CratesAssumption, LenProperties DEF CratesAssumption, WalkInv
    <3>2. QED
      BY <1>1, <3>1 DEF WalkInv
  <2>3. hir.walk[k].event = "ref" /\ hir.walk[k].target # None
    BY <2>1 DEF Counted
  <2>4. hir.walk[k].owner \in DOMAIN hir.chain /\ hir.walk[k].target \in DOMAIN hir.chain
    <3>1. PICK c \in CrateIds : hir = Crate(c)
      BY <1>1 DEF WalkInv
    <3>2. \/ hir.walk[k].event = "item"
          \/ /\ hir.walk[k].owner \in DOMAIN hir.chain
             /\ hir.walk[k].target \in DOMAIN hir.chain \cup {None}
      BY <2>2, <3>1, CratesAssumption, ZenonT(60) DEF CratesAssumption
    <3>3. QED
      BY <2>3, <3>2
  <2>5. r.owner = hir.walk[k].owner /\ r.target = hir.walk[k].target /\ r.span = k
    BY <2>1 DEF RawRef
  <2>6. QED
    BY <2>2, <2>4, <2>5
<1>6. /\ visited \in 0..Len(hir.walk)
      /\ DOMAIN modules \subseteq hir.mods
      /\ \A m \in DOMAIN modules :
           \A i \in DOMAIN modules[m] : hir.chain[modules[m][i].def][2] = m
      /\ phase \in {"walk", "next", "scc", "done"}
      /\ todo \subseteq DOMAIN modules
      /\ reported \subseteq [kind: {"order", "group"}, def: DOMAIN hir.chain]
  BY <1>1 DEF WalkInv, JudgeInv, Collected
<1>7. QED
  BY <1>2, <1>3, <1>4, <1>5, <1>6 DEF TypeOK, V

\* Whatever crate is checked, at every moment of strongconnect: the variables have
\* their types, the stack is a chain, and each component that has been popped is a
\* strongly connected component of the references between items.
THEOREM TarjanExact == Spec => []TarjanIsExact
<1>1. LintInv => TarjanIsExact
  BY TypesHold, StackShape DEF LintInv, TarjanIsExact, TarjanInv
<1>2. QED
  BY <1>1, LintInvHolds, PTL

-----------------------------------------------------------------------------
(***************************************************************************)
(* The diagnostics are about the units a user sees.                        *)
(***************************************************************************)
\* When the walk is over, what a unit uses is what the collected references say.
LEMMA UsesAreCollected ==
  ASSUME WalkInv, enabled, visited = Len(hir.walk), NEW m, NEW d, NEW e
  PROVE  UnitUses(m, d, e) <=>
           \E r \in raw_refs : /\ \E i \in find_module_item(m, r.owner) : Unit(m, i) = d
                               /\ \E j \in find_module_item(m, r.target) : Unit(m, j) = e
<1>1. DOMAIN hir.walk = 1..visited
  <2>1. PICK c \in CrateIds : hir = Crate(c)
    BY DEF WalkInv
  <2>2. QED
    BY <2>1, CratesAssumption, LenProperties DEF CratesAssumption
<1>2. \A k : Counted(k) <=> hir.walk[k].event = "ref" /\ hir.walk[k].counts /\ hir.walk[k].target # None
  BY DEF Counted
<1>3. \A k : RawRef(k).owner = hir.walk[k].owner /\ RawRef(k).target = hir.walk[k].target
  BY DEF RawRef
<1>4. ASSUME UnitUses(m, d, e)
      PROVE  \E r \in raw_refs : /\ \E i \in find_module_item(m, r.owner) : Unit(m, i) = d
                                 /\ \E j \in find_module_item(m, r.target) : Unit(m, j) = e
  <2>1. PICK k \in DOMAIN hir.walk :
          /\ Counted(k)
          /\ \E i \in find_module_item(m, hir.walk[k].owner) : Unit(m, i) = d
          /\ \E j \in find_module_item(m, hir.walk[k].target) : Unit(m, j) = e
    BY <1>2, <1>4 DEF UnitUses
  <2>2. RawRef(k) \in raw_refs
    BY <1>1, <2>1 DEF WalkInv
  <2>3. /\ \E i \in find_module_item(m, RawRef(k).owner) : Unit(m, i) = d
        /\ \E j \in find_module_item(m, RawRef(k).target) : Unit(m, j) = e
    BY <1>3, <2>1
  <2>4. QED
    BY <2>2, <2>3
<1>5. ASSUME NEW r \in raw_refs, \E i \in find_module_item(m, r.owner) : Unit(m, i) = d,
             \E j \in find_module_item(m, r.target) : Unit(m, j) = e
      PROVE  UnitUses(m, d, e)
  <2>1. PICK k \in 1..visited : Counted(k) /\ r = RawRef(k)
    BY DEF WalkInv
  <2>2. /\ \E i \in find_module_item(m, hir.walk[k].owner) : Unit(m, i) = d
        /\ \E j \in find_module_item(m, hir.walk[k].target) : Unit(m, j) = e
    BY <1>3, <1>5, <2>1
  <2>3. k \in DOMAIN hir.walk
    BY <1>1, <2>1
  <2>4. QED
    BY <1>2, <2>1, <2>2, <2>3 DEF UnitUses
<1>6. QED
  BY <1>4, <1>5

\* What the algorithm makes of the references of a module.
GraphOf(m) == build_adj_list(modules[m], remap_impl_refs(modules[m], module_refs(m)))

\* An item references another in the graph when its unit uses that of the other.
LEMMA GraphIsUse ==
  ASSUME WalkInv, enabled, visited = Len(hir.walk), NEW m \in DOMAIN modules,
         NEW p \in DOMAIN modules[m], NEW q \in DOMAIN modules[m]
  PROVE  q \in GraphOf(m)[p] <=> p # q /\ UnitUses(m, modules[m][p].def, modules[m][q].def)
<1> DEFINE D == DOMAIN modules[m]
           rs == remap_impl_refs(modules[m], module_refs(m))
           d == modules[m][p].def
           e == modules[m][q].def
<1>1. Collected(m)
  BY DEF WalkInv
<1>2. \A i \in D : Stand(m, i) \in D /\ modules[m][Stand(m, i)].def = Unit(m, i)
  BY <1>1, StandIsPlace DEF Collected
<1>3. \A i \in D, x \in D : Unit(m, i) = modules[m][x].def => Stand(m, i) = x
  BY <1>1, <1>2 DEF Collected
<1>4. q \in GraphOf(m)[p] <=> \E r \in rs : r.from = p /\ r.to = q
  BY DEF GraphOf, build_adj_list
<1>5. \A x : x \in rs <=>
        \E r \in raw_refs : \E i \in find_module_item(m, r.owner) :
          \E j \in find_module_item(m, r.target) :
            /\ x = [from |-> Stand(m, i), to |-> Stand(m, j), span |-> r.span]
            /\ Stand(m, i) # Stand(m, j)
  BY RemappedRefs
<1>6. UnitUses(m, d, e) <=>
        \E r \in raw_refs : /\ \E i \in find_module_item(m, r.owner) : Unit(m, i) = d
                            /\ \E j \in find_module_item(m, r.target) : Unit(m, j) = e
  BY UsesAreCollected
<1>7. \A k : find_module_item(m, k) \subseteq D
  BY FoundInModule
<1> HIDE DEF rs
<1>8. ASSUME NEW x \in rs, x.from = p, x.to = q
      PROVE  p # q /\ UnitUses(m, d, e)
  <2>1. PICK r \in raw_refs :
          \E i \in find_module_item(m, r.owner) : \E j \in find_module_item(m, r.target) :
            /\ x = [from |-> Stand(m, i), to |-> Stand(m, j), span |-> r.span]
            /\ Stand(m, i) # Stand(m, j)
    BY <1>5
  <2>2. PICK i \in find_module_item(m, r.owner), j \in find_module_item(m, r.target) :
            /\ x = [from |-> Stand(m, i), to |-> Stand(m, j), span |-> r.span]
            /\ Stand(m, i) # Stand(m, j)
    BY <2>1
  <2>3. p = Stand(m, i) /\ q = Stand(m, j) /\ i \in D /\ j \in D
    BY <1>7, <1>8, <2>2
  <2>4. Unit(m, i) = d /\ Unit(m, j) = e
    BY <1>2, <2>3
  <2>5. QED
    BY <1>6, <2>2, <2>3, <2>4
<1>9. ASSUME p # q, UnitUses(m, d, e)
      PROVE  \E x \in rs : x.from = p /\ x.to = q
  <2>1. PICK r \in raw_refs : /\ \E i \in find_module_item(m, r.owner) : Unit(m, i) = d
                              /\ \E j \in find_module_item(m, r.target) : Unit(m, j) = e
    BY <1>6, <1>9
  <2>2. PICK i \in find_module_item(m, r.owner) : Unit(m, i) = d
    BY <2>1
  <2>3. PICK j \in find_module_item(m, r.target) : Unit(m, j) = e
    BY <2>1
  <2>4. Stand(m, i) = p /\ Stand(m, j) = q
    BY <1>3, <1>7, <2>2, <2>3
  <2>5. [from |-> Stand(m, i), to |-> Stand(m, j), span |-> r.span] \in rs
    BY <1>5, <1>9, <2>4
  <2>6. QED
    BY <2>4, <2>5
<1>10. QED
  BY <1>4, <1>8, <1>9

\* So the graph of the items, which the algorithm sees, and that of the units are
\* one: an item that references another reaches it as their units do.
LEMMA GraphIsUses ==
  ASSUME WalkInv, enabled, visited = Len(hir.walk), NEW m \in DOMAIN modules,
         NEW p \in DOMAIN modules[m], NEW q \in DOMAIN modules[m]
  PROVE  LET d == modules[m][p].def
             e == modules[m][q].def
         IN  /\ q \in GraphOf(m)[p] <=> d \in DOMAIN Uses(m) /\ e \in Uses(m)[d]
             /\ q \in GraphOf(m)[p] =>
                  (Reaches(GraphOf(m), q, p) <=> Reaches(Uses(m), e, d))
<1> DEFINE D == DOMAIN modules[m]
           Def(x) == modules[m][x].def
           G == GraphOf(m)
           U == Uses(m)
           Units == {Unit(m, i) : i \in D}
<1>1. Collected(m)
  BY DEF WalkInv
<1>2. \A x, y \in D : Def(x) = Def(y) => x = y
  BY <1>1 DEF Collected
<1>3. \A d \in Units : \E x \in D : d = Def(x)
  BY <1>1, StandIsPlace DEF Collected
<1>4. DOMAIN G = D /\ \A x \in D : G[x] \subseteq D
  BY DEF GraphOf, build_adj_list
<1>5. DOMAIN U = Units /\ \A d \in Units : U[d] = {e \in Units \ {d} : UnitUses(m, d, e)}
  BY DEF Uses
<1>6. \A d, e : UnitUses(m, d, e) => d \in Units /\ e \in Units
  <2> SUFFICES ASSUME NEW d, NEW e, UnitUses(m, d, e) PROVE d \in Units /\ e \in Units
    OBVIOUS
  <2>1. PICK r \in raw_refs : /\ \E i \in find_module_item(m, r.owner) : Unit(m, i) = d
                              /\ \E j \in find_module_item(m, r.target) : Unit(m, j) = e
    BY UsesAreCollected
  <2>2. QED
    BY <2>1, FoundInModule
<1>7. \A x, y \in D : y \in G[x] <=> x # y /\ UnitUses(m, Def(x), Def(y))
  BY GraphIsUse
<1> HIDE DEF G, U, Units, Def
<1>8. \A x, y \in D : y \in G[x] <=> Def(x) \in Units /\ Def(y) \in U[Def(x)]
  <2> TAKE x, y \in D
  <2>1. Def(x) = Def(y) <=> x = y
    BY <1>2
  <2>2. QED
    BY <1>5, <1>6, <1>7, <2>1
<1>9. ASSUME q \in G[p], Reaches(G, q, p) PROVE Reaches(U, Def(q), Def(p))
  <2> SUFFICES ASSUME NEW T \in SUBSET Units, Def(q) \in T, \A d \in T : U[d] \subseteq T
               PROVE  Def(p) \in T
    BY <1>5 DEF Reaches
  <2> DEFINE S == {x \in D : Def(x) \in T}
  <2>1. \A x \in S : G[x] \subseteq S
    BY <1>4, <1>8
  <2>2. S \in SUBSET DOMAIN G /\ q \in S
    BY <1>4
  <2> HIDE DEF S
  <2>3. p \in S
    BY <1>9, <2>1, <2>2 DEF Reaches
  <2>4. QED
    BY <2>3 DEF S
<1>10. ASSUME q \in G[p], Reaches(U, Def(q), Def(p)) PROVE Reaches(G, q, p)
  <2> SUFFICES ASSUME NEW S \in SUBSET D, q \in S, \A x \in S : G[x] \subseteq S
               PROVE  p \in S
    BY <1>4 DEF Reaches
  <2> DEFINE T == {d \in Units : \E x \in S : d = Def(x)}
  <2>1. ASSUME NEW d \in T, NEW e \in U[d] PROVE e \in T
    <3>1. PICK x \in S : d = Def(x)
      OBVIOUS
    <3>2. e \in Units
      BY <1>5
    <3>3. PICK y \in D : e = Def(y)
      BY <1>3, <3>2
    <3>4. y \in G[x]
      BY <1>8, <3>1, <3>3
    <3>5. QED
      BY <3>1, <3>2, <3>3, <3>4
  <2>2. Def(q) \in T /\ T \in SUBSET DOMAIN U
    <3>1. Def(q) \in Units
      BY <1>6, <1>7, <1>10
    <3>2. QED
      BY <1>5, <3>1
  <2> HIDE DEF T
  <2>3. Def(p) \in T
    BY <1>10, <2>1, <2>2 DEF Reaches
  <2>4. PICK x \in S : Def(p) = Def(x)
    BY <2>3 DEF T
  <2>5. QED
    BY <1>2, <2>4
<1>11. (q \in G[p] <=> Def(p) \in DOMAIN U /\ Def(q) \in U[Def(p)])
       /\ (q \in G[p] => (Reaches(G, q, p) <=> Reaches(U, Def(q), Def(p))))
  BY <1>5, <1>8, <1>9, <1>10
<1>12. QED
  BY <1>11 DEF G, U, Def

\* When every item is numbered and no call is open, two are in one component
\* exactly if each reaches the other.
LEMMA SameComponent ==
  ASSUME TarjanInv, calls = << >>, \A v \in V : index[v] # 0, NEW v \in V, NEW w \in V
  PROVE  item_to_scc[v] = item_to_scc[w] <=> Mutual(adj, v, w)
<1>1. adj \in [V -> SUBSET V]
  BY DEF TarjanInv, SccTypes
<1>2. \A x \in V : x \in Closed
  <2> TAKE x \in V
  <2>1. x \in Open \cup Closed
    BY DEF TarjanInv, Stacked, Seen
  <2>2. x \notin Open
    BY OpenReachLast
  <2>3. QED
    BY <2>1, <2>2
<1>3. \A x \in V : item_to_scc[x] \in DOMAIN sccs /\ x \in sccs[item_to_scc[x]]
  <2> TAKE x \in V
  <2>1. \E k \in DOMAIN sccs : x \in sccs[k]
    BY <1>2 DEF Closed, Range
  <2>2. item_to_scc[x] = CHOOSE k \in DOMAIN sccs : x \in sccs[k]
    BY DEF item_to_scc, V
  <2>3. QED
    BY <2>1, <2>2
<1>4. /\ \A k \in DOMAIN sccs : \A x \in sccs[k] : sccs[k] = {y \in V : Mutual(adj, x, y)}
      /\ \A k, l \in DOMAIN sccs : k # l => sccs[k] \cap sccs[l] = {}
  BY DEF TarjanInv, ComponentsExact, V
<1>5. item_to_scc[v] = item_to_scc[w] => Mutual(adj, v, w)
  BY <1>3, <1>4
<1>6. ASSUME Mutual(adj, v, w) PROVE item_to_scc[v] = item_to_scc[w]
  <2>1. w \in sccs[item_to_scc[v]]
    BY <1>3, <1>4, <1>6
  <2>2. QED
    BY <1>3, <1>4, <2>1
<1>7. QED
  BY <1>5, <1>6

\* The references that are reported when a module has been searched begin at the
\* items that come too early.
LEMMA OrderingFound ==
  ASSUME LintInv, enabled, phase = "scc", calls = << >>, \A v \in V : index[v] # 0
  PROVE  \A p : p \in TooEarly(module) <=>
           \E r \in find_ordering_violations(refs, item_to_scc) : r.from = p
<1> DEFINE m == module
           D == DOMAIN modules[m]
           Def(x) == modules[m][x].def
           U == Uses(m)
<1>1. WalkInv /\ JudgeInv /\ TarjanInv /\ adj \in [V -> SUBSET V]
  BY DEF LintInv, TarjanInv, SccTypes
<1>2. /\ visited = Len(hir.walk) /\ m \in DOMAIN modules /\ V = D
      /\ refs = remap_impl_refs(modules[m], module_refs(m))
      /\ adj = build_adj_list(modules[m], refs)
  BY <1>1 DEF JudgeInv
<1>3. adj = GraphOf(m)
  BY <1>2 DEF GraphOf
<1>4. ASSUME NEW p \in D, NEW q \in D
      PROVE  /\ q \in adj[p] <=> \E r \in refs : r.from = p /\ r.to = q
             /\ q \in adj[p] <=> Def(p) \in DOMAIN U /\ Def(q) \in U[Def(p)]
             /\ q \in adj[p] => (Reaches(adj, q, p) <=> Reaches(U, Def(q), Def(p)))
             /\ q \in adj[p] => (item_to_scc[p] # item_to_scc[q] <=> ~ Reaches(adj, q, p))
  <2>1. q \in adj[p] <=> \E r \in refs : r.from = p /\ r.to = q
    BY <1>2 DEF build_adj_list
  <2>2. /\ q \in adj[p] <=> Def(p) \in DOMAIN U /\ Def(q) \in U[Def(p)]
        /\ q \in adj[p] => (Reaches(adj, q, p) <=> Reaches(U, Def(q), Def(p)))
    BY <1>1, <1>2, <1>3, GraphIsUses
  <2>3. item_to_scc[p] = item_to_scc[q] <=> Mutual(adj, p, q)
    BY <1>1, <1>2, SameComponent
  <2>4. q \in adj[p] => Reaches(adj, p, q)
    BY <1>1, <1>2, ReachesOn
  <2>5. QED
    BY <2>1, <2>2, <2>3, <2>4 DEF Mutual
<1>5. \A r \in refs : r.from \in D /\ r.to \in D
  BY <1>1, <1>2, RefsAreBetweenItems DEF WalkInv, Collected
<1>6. \A p : p \in TooEarly(m) <=>
        p \in D /\ \E q \in D : /\ p < q /\ Def(p) \in DOMAIN U /\ Def(q) \in U[Def(p)]
                                /\ ~ Reaches(U, Def(q), Def(p))
  BY DEF TooEarly
<1>7. \A r : r \in find_ordering_violations(refs, item_to_scc) <=>
        r \in refs /\ item_to_scc[r.from] # item_to_scc[r.to] /\ r.from < r.to
  BY DEF find_ordering_violations
<1> HIDE DEF m, D, Def, U
<1>8. ASSUME NEW p \in TooEarly(m)
      PROVE  \E r \in find_ordering_violations(refs, item_to_scc) : r.from = p
  <2>1. PICK q \in D : p < q /\ q \in adj[p] /\ ~ Reaches(U, Def(q), Def(p)) /\ p \in D
    BY <1>4, <1>6
  <2>2. PICK r \in refs : r.from = p /\ r.to = q
    BY <1>4, <2>1
  <2>3. item_to_scc[p] # item_to_scc[q]
    BY <1>4, <2>1
  <2>4. QED
    BY <1>7, <2>1, <2>2, <2>3
<1>9. ASSUME NEW r \in find_ordering_violations(refs, item_to_scc)
      PROVE  r.from \in TooEarly(m)
  <2>1. r \in refs /\ r.from \in D /\ r.to \in D /\ r.from < r.to
        /\ item_to_scc[r.from] # item_to_scc[r.to]
    BY <1>5, <1>7
  <2>2. r.to \in adj[r.from]
    BY <1>4, <2>1
  <2>3. ~ Reaches(U, Def(r.to), Def(r.from)) /\ Def(r.from) \in DOMAIN U /\ Def(r.to) \in U[Def(r.from)]
    BY <1>4, <2>1, <2>2
  <2>4. QED
    BY <1>6, <2>1, <2>3
<1>10. QED
  BY <1>8, <1>9 DEF m

OrderReports(m) == {d \in reported : d.kind = "order" /\ hir.chain[d.def][2] = m}

DueOrder(m) == {[kind |-> "order", def |-> modules[m][i].def] : i \in TooEarly(m)}

Waiting(m) == phase = "walk" \/ m \in todo \/ (phase = "scc" /\ m = module)

\* The modules that have been judged have their reports, and the others none.
OrderInv ==
  hir.allowed = {} =>
    \A m \in DOMAIN modules : OrderReports(m) = IF Waiting(m) THEN {} ELSE DueOrder(m)

LEMMA DueStays ==
  ASSUME NEW m, UNCHANGED <<hir, modules, raw_refs>>
  PROVE  DueOrder(m)' = DueOrder(m)
<1>1. \A i : Unit(m, i)' = Unit(m, i)
  BY DEF Unit, PlacesOf
<1>2. \A d, e : UnitUses(m, d, e)' = UnitUses(m, d, e)
  BY <1>1, RefsStay DEF UnitUses
<1>3. Uses(m)' = Uses(m)
  BY <1>1, <1>2 DEF Uses
<1>4. TooEarly(m)' = TooEarly(m)
  BY <1>3 DEF TooEarly, Reaches
<1>5. QED
  BY <1>4 DEF DueOrder

LEMMA OrderStep ==
  ASSUME LintInv, OrderInv, LintInv', Next \/ UNCHANGED vars
  PROVE  OrderInv'
<1>1. WalkInv /\ JudgeInv /\ TarjanInv
  BY DEF LintInv
<1>2. CASE check_item \/ record_ref
  <2>1. phase' = "walk" /\ reported' = {}
    BY <1>1, <1>2 DEF check_item, record_ref, Visit, JudgeInv
  <2>2. QED
    BY <2>1 DEF OrderInv, OrderReports, Waiting
<1>3. ASSUME UNCHANGED <<hir, modules, raw_refs, reported>>, \A m \in DOMAIN modules : Waiting(m)' = Waiting(m)
      PROVE  OrderInv'
  <2>1. \A m : OrderReports(m)' = OrderReports(m)
    BY <1>3 DEF OrderReports
  <2>2. \A m : DueOrder(m)' = DueOrder(m)
    BY <1>3, DueStays
  <2>3. QED
    BY <1>3, <2>1, <2>2 DEF OrderInv
<1>4. CASE check_crate_post
  <2>1. /\ UNCHANGED <<hir, modules, raw_refs, reported>> /\ phase' = "next" /\ reported = {}
        /\ todo' = {m \in DOMAIN modules : Len(modules[m]) > 1}
    BY <1>1, <1>4 DEF check_crate_post, walkVars, JudgeInv
  <2>2. ASSUME NEW m \in DOMAIN modules, ~ Waiting(m)' PROVE DueOrder(m)' = {}
    <3>1. ~ (Len(modules[m]) > 1)
      BY <2>1, <2>2 DEF Waiting
    <3>2. DOMAIN modules[m] = 1..Len(modules[m]) /\ Len(modules[m]) \in Nat
      BY <1>1, LenProperties DEF WalkInv, Collected
    <3>3. \A i, j \in DOMAIN modules[m] : ~ (i < j)
      BY <3>1, <3>2
    <3>4. TooEarly(m) = {}
      BY <3>3 DEF TooEarly
    <3>5. DueOrder(m) = {}
      BY <3>4 DEF DueOrder
    <3>6. QED
      BY <2>1, <3>5, DueStays
  <2>3. \A m : OrderReports(m)' = {}
    BY <2>1 DEF OrderReports
  <2>4. QED
    BY <2>1, <2>2, <2>3 DEF OrderInv
<1>5. ASSUME NEW n \in todo, StartModule(n) PROVE OrderInv'
  <2>1. /\ UNCHANGED <<hir, modules, raw_refs, reported>> /\ phase = "next" /\ phase' = "scc"
        /\ todo' = todo \ {n} /\ module' = n
    BY <1>5 DEF StartModule, walkVars
  <2>2. \A m : Waiting(m)' = Waiting(m)
    BY <2>1 DEF Waiting
  <2>3. QED
    BY <1>3, <2>1, <2>2
<1>6. CASE (\E v \in V : CallRoot(v)) \/ strongconnect \/ UNCHANGED vars
  <2>1. UNCHANGED <<hir, modules, raw_refs, reported, phase, todo, module>>
    BY <1>6 DEF CallRoot, strongconnect, Recurse, MeetOpen, MeetClosed, LooksAt, CloseComponent, LeaveOpen,
                InScc, vars, walkVars
  <2>2. \A m : Waiting(m)' = Waiting(m)
    BY <2>1 DEF Waiting
  <2>3. QED
    BY <1>3, <2>1, <2>2
<1>7. CASE ReportModule
  <2> DEFINE items == modules[module]
             ordering == find_ordering_violations(refs, item_to_scc)
             grouping == check_impl_grouping(items)
             new == emit_module_diagnostic(items, ordering, grouping)
  <2>1. /\ phase = "scc" /\ phase' = "next" /\ reported' = reported \cup new
        /\ UNCHANGED <<hir, modules, raw_refs, todo, module>>
        /\ calls = << >> /\ \A v \in V : index[v] # 0
    BY <1>7 DEF ReportModule, walkVars, V
  <2>2. module \in DOMAIN modules /\ module \notin todo
    BY <1>1, <2>1 DEF JudgeInv
  <2> SUFFICES ASSUME hir.allowed = {}, NEW m \in DOMAIN modules
               PROVE  OrderReports(m)' = IF Waiting(m)' THEN {} ELSE DueOrder(m)'
    BY <2>1 DEF OrderInv
  <2>3. DueOrder(m)' = DueOrder(m)
    BY <2>1, DueStays
  <2>4. OrderReports(m) = IF Waiting(m) THEN {} ELSE DueOrder(m)
    BY DEF OrderInv
  <2>5. enabled /\ \A d : ~ Allows(d)
    BY DEF enabled, Allows
  <2>6. \A d : d \in new /\ d.kind = "order" <=> d \in DueOrder(module)
    <3>1. \A p : p \in TooEarly(module) <=> \E r \in ordering : r.from = p
      BY <2>1, <2>5, OrderingFound DEF LintInv
    <3> HIDE DEF ordering, items, grouping
    <3>2. new = {[kind |-> "order", def |-> items[r.from].def] : r \in ordering}
                  \cup {[kind |-> "group", def |-> items[i].def] : i \in grouping}
      BY <2>5 DEF emit_module_diagnostic
    <3> HIDE DEF new
    <3>3. \A d : d \in new /\ d.kind = "order" <=> \E r \in ordering : d = [kind |-> "order", def |-> items[r.from].def]
      BY <3>2
    <3>4. \A d : d \in DueOrder(module) <=> \E i \in TooEarly(module) : d = [kind |-> "order", def |-> items[i].def]
      BY DEF DueOrder, items
    <3>5. QED
      BY <3>1, <3>3, <3>4
  <2>7. \A d \in DueOrder(module) : hir.chain[d.def][2] = module
    <3>1. \A i \in TooEarly(module) : i \in DOMAIN modules[module]
      BY DEF TooEarly
    <3>2. \A i \in DOMAIN modules[module] : hir.chain[modules[module][i].def][2] = module
      BY <1>1, <2>2 DEF WalkInv, Collected
    <3>3. QED
      BY <3>1, <3>2 DEF DueOrder
  <2> HIDE DEF items, ordering, grouping, new
  <2>8. CASE m = module
    <3>1. Waiting(m) /\ ~ Waiting(m)'
      BY <2>1, <2>2, <2>8 DEF Waiting
    <3>2. OrderReports(m) = {}
      BY <2>4, <3>1
    <3>3. \A d : d \in OrderReports(m)' <=> d \in DueOrder(m)
      <4>1. \A d : d \in OrderReports(m)' <=>
              (d \in reported \/ d \in new) /\ d.kind = "order" /\ hir.chain[d.def][2] = m
        BY <2>1 DEF OrderReports
      <4>2. \A d \in reported : ~ (d.kind = "order" /\ hir.chain[d.def][2] = m)
        BY <3>2 DEF OrderReports
      <4>3. QED
        BY <2>6, <2>7, <2>8, <4>1, <4>2
    <3>4. OrderReports(m)' = DueOrder(m)
      <4>1. \A d \in DueOrder(m) : d \in OrderReports(m)'
        BY <3>3
      <4>2. \A d \in OrderReports(m)' : d \in DueOrder(m)
        BY <3>3
      <4>3. QED
        BY <4>1, <4>2
    <3>5. QED
      BY <2>3, <3>1, <3>4
  <2>9. CASE m # module
    <3>1. Waiting(m)' = Waiting(m)
      BY <2>1, <2>9 DEF Waiting
    <3>2. OrderReports(m)' = OrderReports(m)
      BY <2>1, <2>6, <2>7, <2>9 DEF OrderReports
    <3>3. QED
      BY <2>3, <2>4, <3>1, <3>2
  <2>10. QED
    BY <2>8, <2>9
<1>8. CASE Finish
  <2>1. /\ UNCHANGED <<hir, modules, raw_refs, reported, todo, module>> /\ phase = "next" /\ phase' = "done"
    BY <1>8 DEF Finish, walkVars
  <2>2. \A m : Waiting(m)' = Waiting(m)
    BY <2>1 DEF Waiting
  <2>3. QED
    BY <1>3, <2>1, <2>2
<1>9. QED
  BY <1>2, <1>4, <1>5, <1>6, <1>7, <1>8 DEF Next, V

\* For every crate: when the lint is done and nothing is allowed, an item is
\* reported exactly if it comes before something its unit uses that does not use
\* it in turn.
THEOREM OrderIsExact == Spec => []OrderExact
<1>1. Init => OrderInv
  <2> SUFFICES ASSUME Init PROVE OrderInv
    OBVIOUS
  <2>1. DOMAIN modules = {}
    BY DEF Init
  <2>2. QED
    BY <2>1 DEF OrderInv
<1>2. LintInv /\ LintInv' /\ OrderInv /\ [Next]_vars => OrderInv'
  BY OrderStep
<1>3. LintInv /\ OrderInv => OrderExact
  <2> SUFFICES ASSUME LintInv, OrderInv, phase = "done", hir.allowed = {}, NEW m \in DOMAIN modules
               PROVE  OrderReports(m) = DueOrder(m)
    BY DEF OrderExact, OrderReports, DueOrder
  <2>1. todo = {}
    BY DEF LintInv, JudgeInv
  <2>2. ~ Waiting(m)
    BY <2>1 DEF Waiting
  <2>3. QED
    BY <2>2 DEF OrderInv
<1>4. QED
  BY <1>1, <1>2, <1>3, LintInvHolds, PTL DEF Spec

-----------------------------------------------------------------------------
(***************************************************************************)
(* Every module has an order in which the lint is silent: dependencies     *)
(* before what uses them, and the items of a unit next to each other.      *)
(***************************************************************************)
\* How much can be reached from an item: less than from what uses it, unless the
\* two reach each other.
Height(a, v) == Cardinality({x \in DOMAIN a : Reaches(a, v, x)})

LEMMA HeightFalls ==
  ASSUME NEW D, IsFiniteSet(D), NEW a \in [D -> SUBSET D]
  PROVE  /\ \A v \in D : Height(a, v) \in Nat
         /\ \A v \in D : \A w \in a[v] :
              /\ Height(a, w) <= Height(a, v)
              /\ Height(a, w) = Height(a, v) => Mutual(a, v, w)
<1> DEFINE R(v) == {x \in D : Reaches(a, v, x)}
<1>1. \A v \in D : IsFiniteSet(R(v)) /\ Height(a, v) = Cardinality(R(v))
  BY FS_Subset DEF Height
<1>2. \A v \in D : Height(a, v) \in Nat
  BY <1>1, FS_CardinalityType
<1>3. ASSUME NEW v \in D, NEW w \in a[v]
      PROVE  /\ Height(a, w) <= Height(a, v)
             /\ Height(a, w) = Height(a, v) => Mutual(a, v, w)
  <2>1. w \in D /\ Reaches(a, v, w)
    BY ReachesOn
  <2>2. R(w) \in SUBSET R(v)
    BY <2>1, ReachesOn
  <2>3. v \in R(v)
    BY ReachesOn
  <2> HIDE DEF R
  <2>4. /\ Cardinality(R(w)) <= Cardinality(R(v))
        /\ Cardinality(R(v)) = Cardinality(R(w)) => R(v) = R(w)
    BY <1>1, <2>2, FS_Subset
  <2>5. R(v) = R(w) => Reaches(a, w, v)
    BY <2>3 DEF R
  <2>6. QED
    BY <1>1, <2>1, <2>4, <2>5 DEF Mutual
<1>4. QED
  BY <1>2, <1>3

\* Whatever is totally ordered can be written down in that order: rank[i] is the
\* place of i.
LEMMA InOrder ==
  ASSUME NEW n \in Nat, NEW Before \in SUBSET ((1..n) \X (1..n)),
         \A i \in 1..n : <<i, i>> \notin Before,
         \A i, j, k \in 1..n : <<i, j>> \in Before /\ <<j, k>> \in Before => <<i, k>> \in Before,
         \A i, j \in 1..n : i = j \/ <<i, j>> \in Before \/ <<j, i>> \in Before
  PROVE  \E p \in [1..n -> 1..n], rank \in [1..n -> 1..n] :
           /\ \A i \in 1..n : p[rank[i]] = i /\ rank[p[i]] = i
           /\ \A i, j \in 1..n : rank[i] < rank[j] => <<i, j>> \in Before
<1> DEFINE D == 1..n
           Below(i) == {j \in D : <<j, i>> \in Before}
           rank == [i \in D |-> Cardinality(Below(i)) + 1]
           p == [k \in D |-> CHOOSE i \in D : rank[i] = k]
<1>1. IsFiniteSet(D) /\ Cardinality(D) = n
  BY FS_Interval
<1>2. \A i \in D : IsFiniteSet(Below(i)) /\ Cardinality(Below(i)) \in Nat
  <2> TAKE i \in D
  <2>1. Below(i) \in SUBSET D
    OBVIOUS
  <2> HIDE DEF Below, D
  <2>2. QED
    BY <1>1, <2>1, FS_Subset, FS_CardinalityType
<1>3. ASSUME NEW i \in D PROVE rank[i] \in D
  <2>1. Below(i) \in SUBSET D /\ i \notin Below(i) /\ i \in D
    OBVIOUS
  <2> HIDE DEF Below, D
  <2>2. Cardinality(Below(i)) <= Cardinality(D) /\ Cardinality(D) # Cardinality(Below(i))
    BY <1>1, <2>1, FS_Subset
  <2>3. Cardinality(Below(i)) + 1 \in 1..n
    BY <1>1, <1>2, <2>2
  <2>4. QED
    BY <2>3 DEF D
<1>4. ASSUME NEW i \in D, NEW j \in D, <<i, j>> \in Before PROVE rank[i] < rank[j]
  <2>1. Below(i) \in SUBSET Below(j) /\ i \in Below(j) /\ i \notin Below(i)
    BY <1>4
  <2> HIDE DEF Below, D
  <2>2. Cardinality(Below(i)) <= Cardinality(Below(j)) /\ Cardinality(Below(j)) # Cardinality(Below(i))
    BY <1>2, <2>1, FS_Subset
  <2>3. QED
    BY <1>2, <2>2
<1>5. rank \in [D -> D]
  <2> HIDE DEF D
  <2>1. rank = [i \in D |-> rank[i]]
    OBVIOUS
  <2> HIDE DEF rank
  <2>2. QED
    BY <1>3, <2>1
<1>6. \A i, j \in D : i = j \/ rank[i] < rank[j] \/ rank[j] < rank[i]
  BY <1>4
<1> HIDE DEF Below, rank
<1>7. \A i, j \in D : rank[i] \in Nat /\ rank[j] \in Nat
  BY <1>5
<1>8. \A i, j \in D : rank[i] = rank[j] => i = j
  BY <1>6, <1>7
<1>9. ASSUME NEW i \in D, NEW j \in D, rank[i] < rank[j] PROVE <<i, j>> \in Before
  <2>1. i # j /\ ~ (rank[j] < rank[i])
    BY <1>7, <1>9
  <2>2. <<j, i>> \notin Before
    BY <1>4, <2>1
  <2>3. QED
    BY <2>1, <2>2
<1>10. \A k \in D : \E i \in D : rank[i] = k
  <2> HIDE DEF D
  <2>1. rank \in Injection(D, D)
    BY <1>5, <1>8 DEF Injection, IsInjective
  <2>2. rank \in Surjection(D, D)
    BY <1>1, <2>1, FS_Injection
  <2>3. QED
    BY <2>2 DEF Surjection
<1>11. \A k \in D : p[k] \in D /\ rank[p[k]] = k
  BY <1>10
<1>12. p \in [D -> D]
  BY <1>11
<1> HIDE DEF p, D
<1>13. \A i \in D : p[rank[i]] = i
  BY <1>5, <1>8, <1>11
<1>14. /\ \A i \in 1..n : p[rank[i]] = i /\ rank[p[i]] = i
       /\ \A i, j \in 1..n : rank[i] < rank[j] => <<i, j>> \in Before
  BY <1>9, <1>11, <1>13 DEF D
<1>15. p \in [1..n -> 1..n] /\ rank \in [1..n -> 1..n]
  BY <1>5, <1>12 DEF D
<1>16. QED
  <2> USE <1>15
  <2> WITNESS p \in [1..n -> 1..n], rank \in [1..n -> 1..n]
  <2>1. QED
    BY <1>14


\* What implements stands for what it implements, and that for itself.
LEMMA StandsOnce ==
  ASSUME WalkInv, NEW m \in DOMAIN modules, NEW i \in DOMAIN modules[m]
  PROVE  LET items == modules[m]
             t == Stand(m, i)
         IN  /\ t \in DOMAIN items /\ Stand(m, t) = t
             /\ i = t \/ items[i].impl_self_ty = items[t].def
             /\ PlacesOf(items, items[i].impl_self_ty) = {} => t = i
             /\ \A u \in DOMAIN items : items[i].impl_self_ty = items[u].def => u = t
<1> DEFINE items == modules[m]
           D == DOMAIN items
           t == Stand(m, i)
           P == PlacesOf(items, items[i].impl_self_ty)
<1>1. Collected(m)
  BY DEF WalkInv
<1>2. \A x, y \in D : items[x].def = items[y].def => x = y
  BY <1>1 DEF Collected
<1>3. D \subseteq Nat
  <2>1. D = 1..Len(items) /\ Len(items) \in Nat
    BY <1>1, LenProperties DEF Collected
  <2>2. QED
    BY <2>1
<1>4. P = {} => t = i
  BY DEF Stand
<1>5. P # {} => t \in P
  <2>1. P \in SUBSET Nat
    BY <1>3 DEF PlacesOf
  <2>2. P # {} => LeastOf(P) \in P
    BY <2>1, LeastIsIn
  <2>3. QED
    BY <2>2 DEF Stand
<1>6. \A x : x \in P <=> x \in D /\ items[x].def = items[i].impl_self_ty
  BY DEF PlacesOf
<1>7. P # {} => t \in D /\ items[t].def = items[i].impl_self_ty
  BY <1>5, <1>6
<1>8. ASSUME P # {} PROVE Stand(m, t) = t
  <2>1. PICK k \in 1..visited : IsItem(k, items[i])
    BY <1>1 DEF Collected
  <2>2. PICK l \in 1..visited : IsItem(l, items[t])
    BY <1>1, <1>7, <1>8 DEF Collected
  <2>3. PICK c \in CrateIds : hir = Crate(c)
    BY DEF WalkInv
  <2>4. k \in DOMAIN hir.walk /\ l \in DOMAIN hir.walk
    <3>1. visited \in 0..Len(hir.walk) /\ DOMAIN hir.walk = 1..Len(hir.walk) /\ Len(hir.walk) \in Nat
      BY <2>3, CratesAssumption, LenProperties DEF CratesAssumption, WalkInv
    <3>2. QED
      BY <3>1
  <2>5. /\ None \notin DOMAIN hir.chain
        /\ \A x, y \in DOMAIN hir.walk :
             hir.walk[x].event = "item" /\ hir.walk[y].event = "item" =>
               (hir.walk[x].impl_self_ty = hir.walk[y].def => hir.walk[y].impl_self_ty = None)
    BY <2>3, CratesAssumption, ZenonT(60) DEF CratesAssumption
  <2>6. items[t].impl_self_ty = None
    BY <1>7, <1>8, <2>1, <2>2, <2>4, <2>5 DEF IsItem
  <2>7. \A x \in D : items[x].def \in DOMAIN hir.chain
    <3>1. \A x \in D : items[x] \in Items
      BY <1>1, ElementOfSeq, LenProperties DEF Collected
    <3>2. QED
      BY <3>1 DEF Items
  <2>8. PlacesOf(items, items[t].impl_self_ty) = {}
    BY <2>5, <2>6, <2>7 DEF PlacesOf
  <2>9. QED
    BY <2>8 DEF Stand
<1> HIDE DEF items, P
<1>9. /\ t \in D /\ Stand(m, t) = t
      /\ i = t \/ items[i].impl_self_ty = items[t].def
      /\ \A u \in D : items[i].impl_self_ty = items[u].def => u = t
  <2>1. CASE P = {}
    BY <1>4, <1>6, <2>1 DEF items
  <2>2. CASE P # {}
    BY <1>2, <1>6, <1>7, <1>8, <2>2
  <2>3. QED
    BY <2>1, <2>2
<1>10. QED
  BY <1>4, <1>9 DEF items, P

\* The references of a module are between its items, and its graph is what they
\* say about what these stand for.
LEMMA GraphOfRefs ==
  ASSUME NEW m
  PROVE  /\ \A s \in module_refs(m) : s.from \in DOMAIN modules[m] /\ s.to \in DOMAIN modules[m]
         /\ GraphOf(m) \in [DOMAIN modules[m] -> SUBSET DOMAIN modules[m]]
         /\ \A v, w \in DOMAIN modules[m] :
              w \in GraphOf(m)[v] <=>
                v # w /\ \E s \in module_refs(m) : Stand(m, s.from) = v /\ Stand(m, s.to) = w
<1> DEFINE R == module_refs(m)
           D == DOMAIN modules[m]
           F(s) == [from |-> Stand(m, s.from), to |-> Stand(m, s.to), span |-> s.span]
<1>1. ASSUME NEW s \in R PROVE s.from \in D /\ s.to \in D
  <2>1. PICK r \in raw_refs :
          s \in {[from |-> i, to |-> j, span |-> r.span] :
                   i \in find_module_item(m, r.owner), j \in find_module_item(m, r.target)}
    BY DEF module_refs
  <2>2. PICK i \in find_module_item(m, r.owner), j \in find_module_item(m, r.target) :
          s = [from |-> i, to |-> j, span |-> r.span]
    BY <2>1
  <2>3. QED
    BY <2>2, FoundInModule
<1>2. remap_impl_refs(modules[m], R) = {r \in {F(s) : s \in R} : r.from # r.to}
  BY DEF remap_impl_refs, Stand
<1>3. GraphOf(m) = [v \in D |-> {w \in D : \E r \in remap_impl_refs(modules[m], R) : r.from = v /\ r.to = w}]
  BY DEF GraphOf, build_adj_list
<1> HIDE DEF R, D
<1>4. \A s : F(s).from = Stand(m, s.from) /\ F(s).to = Stand(m, s.to)
  OBVIOUS
<1> HIDE DEF F
<1>5. \A v, w \in D :
        w \in GraphOf(m)[v] <=> v # w /\ \E s \in R : Stand(m, s.from) = v /\ Stand(m, s.to) = w
  BY <1>2, <1>3, <1>4
<1>6. GraphOf(m) \in [D -> SUBSET D]
  BY <1>3
<1>7. QED
  BY <1>1, <1>5, <1>6 DEF R, D


\* The order of the items: by the height of what they stand for, then by that
\* itself, then by their places.
Precedes(m, i, j) ==
  LET H(k) == Height(GraphOf(m), Stand(m, k))
  IN  \/ H(i) < H(j)
      \/ /\ H(i) = H(j)
         /\ Stand(m, i) < Stand(m, j) \/ (Stand(m, i) = Stand(m, j) /\ i < j)

Less(m) == {x \in (DOMAIN modules[m]) \X (DOMAIN modules[m]) : Precedes(m, x[1], x[2])}

LEMMA LessOrders ==
  ASSUME WalkInv, NEW m \in DOMAIN modules
  PROVE  LET D == DOMAIN modules[m]
         IN  /\ D = 1..Len(modules[m]) /\ Len(modules[m]) \in Nat
             /\ \A v \in D : Height(GraphOf(m), v) \in Nat
             /\ \A v \in D : \A w \in GraphOf(m)[v] :
                  /\ Height(GraphOf(m), w) <= Height(GraphOf(m), v)
                  /\ Height(GraphOf(m), w) = Height(GraphOf(m), v) => Mutual(GraphOf(m), v, w)
             /\ Less(m) \in SUBSET (D \X D)
             /\ \A i, j \in D : <<i, j>> \in Less(m) <=> Precedes(m, i, j)
             /\ \A i \in D : <<i, i>> \notin Less(m)
             /\ \A i, j, k \in D : <<i, j>> \in Less(m) /\ <<j, k>> \in Less(m) => <<i, k>> \in Less(m)
             /\ \A i, j \in D : i = j \/ <<i, j>> \in Less(m) \/ <<j, i>> \in Less(m)
<1> DEFINE D == DOMAIN modules[m]
           H(i) == Height(GraphOf(m), Stand(m, i))
           S(i) == Stand(m, i)
<1>1. D = 1..Len(modules[m]) /\ Len(modules[m]) \in Nat
  BY LenProperties DEF WalkInv, Collected
<1>2. IsFiniteSet(D)
  BY <1>1, FS_Interval
<1>3. GraphOf(m) \in [D -> SUBSET D]
  BY GraphOfRefs
<1>4. /\ \A v \in D : Height(GraphOf(m), v) \in Nat
      /\ \A v \in D : \A w \in GraphOf(m)[v] :
           /\ Height(GraphOf(m), w) <= Height(GraphOf(m), v)
           /\ Height(GraphOf(m), w) = Height(GraphOf(m), v) => Mutual(GraphOf(m), v, w)
  <2> HIDE DEF D
  <2>1. QED
    BY <1>2, <1>3, HeightFalls
<1>5. \A i \in D : S(i) \in D
  BY StandsOnce
<1>6. \A i \in D : H(i) \in Nat /\ S(i) \in Nat /\ i \in Nat
  BY <1>1, <1>4, <1>5
<1>7. Less(m) \in SUBSET (D \X D) /\ \A i, j \in D : <<i, j>> \in Less(m) <=> Precedes(m, i, j)
  BY DEF Less
<1>8. \A i, j \in D : <<i, j>> \in Less(m) <=>
        \/ H(i) < H(j)
        \/ H(i) = H(j) /\ (S(i) < S(j) \/ (S(i) = S(j) /\ i < j))
  BY <1>7 DEF Precedes
<1> HIDE DEF D, H, S
<1>9. \A i \in D : <<i, i>> \notin Less(m)
  BY <1>6, <1>8
<1>10. \A i, j, k \in D : <<i, j>> \in Less(m) /\ <<j, k>> \in Less(m) => <<i, k>> \in Less(m)
  <2> SUFFICES ASSUME NEW i \in D, NEW j \in D, NEW k \in D,
                      <<i, j>> \in Less(m), <<j, k>> \in Less(m)
               PROVE  <<i, k>> \in Less(m)
    OBVIOUS
  <2>1. /\ H(i) \in Nat /\ H(j) \in Nat /\ H(k) \in Nat /\ S(i) \in Nat /\ S(j) \in Nat /\ S(k) \in Nat
        /\ i \in Nat /\ j \in Nat /\ k \in Nat
    BY <1>6
  <2>2. /\ H(i) < H(j) \/ (H(i) = H(j) /\ (S(i) < S(j) \/ (S(i) = S(j) /\ i < j)))
        /\ H(j) < H(k) \/ (H(j) = H(k) /\ (S(j) < S(k) \/ (S(j) = S(k) /\ j < k)))
    BY <1>8
  <2>3. H(i) < H(k) \/ (H(i) = H(k) /\ (S(i) < S(k) \/ (S(i) = S(k) /\ i < k)))
    BY <2>1, <2>2
  <2>4. QED
    BY <1>8, <2>3
<1>11. \A i, j \in D : i = j \/ <<i, j>> \in Less(m) \/ <<j, i>> \in Less(m)
  <2> TAKE i, j \in D
  <2>1. H(i) \in Nat /\ H(j) \in Nat /\ S(i) \in Nat /\ S(j) \in Nat /\ i \in Nat /\ j \in Nat
    BY <1>6
  <2>2. \/ i = j \/ H(i) < H(j) \/ H(j) < H(i)
        \/ H(i) = H(j) /\ (S(i) < S(j) \/ (S(i) = S(j) /\ i < j))
        \/ H(j) = H(i) /\ (S(j) < S(i) \/ (S(j) = S(i) /\ j < i))
    BY <2>1
  <2>3. QED
    BY <1>8, <2>2
<1>12. QED
  BY <1>1, <1>4, <1>7, <1>9, <1>10, <1>11 DEF D


\* In that order the lint is silent about a module.
LEMMA OrderIsSilent ==
  ASSUME WalkInv, NEW m \in DOMAIN modules,
         NEW p \in [DOMAIN modules[m] -> DOMAIN modules[m]],
         NEW rank \in [DOMAIN modules[m] -> DOMAIN modules[m]],
         \A i \in DOMAIN modules[m] : p[rank[i]] = i /\ rank[p[i]] = i,
         \A i, j \in DOMAIN modules[m] : rank[i] < rank[j] => <<i, j>> \in Less(m)
  PROVE  SilentInOrder(m, module_refs(m), p)
<1> DEFINE items == modules[m]
           D == DOMAIN items
           S(i) == Stand(m, i)
           G == GraphOf(m)
           H(v) == Height(G, v)
           new == Reordered(items, p)
           Place(i) == CHOOSE k \in DOMAIN new : p[k] = i
           Moved == {[from |-> Place(r.from), to |-> Place(r.to), span |-> r.span] : r \in module_refs(m)}
           rs == remap_impl_refs(new, Moved)
           a == build_adj_list(new, rs)
           Class(v) == {w \in DOMAIN a : Mutual(a, v, w)}
<1>1. /\ D = 1..Len(items) /\ Len(items) \in Nat
      /\ \A v \in D : H(v) \in Nat
      /\ \A v \in D : \A w \in G[v] : H(w) <= H(v) /\ (H(w) = H(v) => Mutual(G, v, w))
      /\ \A i, j \in D : <<i, j>> \in Less(m) <=> Precedes(m, i, j)
  BY LessOrders
<1>2. DOMAIN new = D /\ \A k \in D : new[k] = items[p[k]] /\ p[k] \in D
  BY DEF Reordered
<1>3. \A i \in D : Place(i) = rank[i] /\ rank[i] \in D
  <2> TAKE i \in D
  <2>1. rank[i] \in DOMAIN new /\ p[rank[i]] = i /\ \A k \in DOMAIN new : p[k] = i => k = rank[i]
    BY <1>2
  <2> HIDE DEF new
  <2>2. Place(i) = rank[i]
    BY <2>1
  <2>3. QED
    BY <2>2
<1>4. \A i \in D : /\ S(i) \in D /\ S(S(i)) = S(i)
                   /\ i = S(i) \/ items[i].impl_self_ty = items[S(i)].def
                   /\ PlacesOf(items, items[i].impl_self_ty) = {} => S(i) = i
                   /\ \A u \in D : items[i].impl_self_ty = items[u].def => S(i) = u
  BY StandsOnce
<1>5. /\ \A s \in module_refs(m) : s.from \in D /\ s.to \in D
      /\ G \in [D -> SUBSET D]
      /\ \A v, w \in D : w \in G[v] <=>
           v # w /\ \E s \in module_refs(m) : S(s.from) = v /\ S(s.to) = w
  BY GraphOfRefs
<1>6. \A i, j \in D : items[i].def = items[j].def => i = j
  BY DEF WalkInv, Collected
<1>7. \A i, j \in D : rank[i] < rank[j] =>
        H(S(i)) < H(S(j)) \/ (H(S(i)) = H(S(j)) /\ (S(i) < S(j) \/ (S(i) = S(j) /\ i < j)))
  BY <1>1 DEF Precedes
<1>8. \A k \in D : LET t == PlacesOf(new, new[k].impl_self_ty)
                   IN  (IF t = {} THEN k ELSE LeastOf(t)) = rank[S(p[k])]
  <2> TAKE k \in D
  <2> DEFINE t == PlacesOf(new, new[k].impl_self_ty)
             i == p[k]
  <2>1. \A x : x \in t <=> x \in D /\ items[p[x]].def = items[i].impl_self_ty
    BY <1>2 DEF PlacesOf
  <2>2. i \in D /\ rank[i] = k
    BY <1>2
  <2>3. t \in SUBSET Nat
    BY <1>1, <2>1
  <2> HIDE DEF t, i, new
  <2>4. CASE t = {}
    <3>1. PlacesOf(items, items[i].impl_self_ty) = {}
      <4> SUFFICES ASSUME NEW u \in D, items[u].def = items[i].impl_self_ty PROVE FALSE
        BY DEF PlacesOf
      <4>1. rank[u] \in t
        BY <1>3, <2>1
      <4>2. QED
        BY <2>4, <4>1
    <3>2. S(i) = i
      BY <1>4, <2>2, <3>1
    <3> HIDE DEF S
    <3>3. QED
      BY <2>2, <2>4, <3>2 DEF i, t
  <2>5. CASE t # {}
    <3>1. LeastOf(t) \in t
      BY <2>3, <2>5, LeastIsIn
    <3>2. LeastOf(t) \in D /\ p[LeastOf(t)] \in D /\ items[p[LeastOf(t)]].def = items[i].impl_self_ty
      BY <1>2, <2>1, <3>1
    <3>3. S(i) = p[LeastOf(t)]
      BY <1>4, <2>2, <3>2
    <3> HIDE DEF S
    <3>4. rank[S(i)] = LeastOf(t)
      BY <3>2, <3>3
    <3>5. QED
      BY <2>5, <3>4 DEF i, t
  <2>6. QED
    BY <2>4, <2>5 DEF t
<1>9. \A x : x \in rs <=>
        \E s \in module_refs(m) :
          /\ x = [from |-> rank[S(s.from)], to |-> rank[S(s.to)], span |-> s.span]
          /\ S(s.from) # S(s.to)
  <2> DEFINE R == module_refs(m)
             N(k) == LET t == PlacesOf(new, new[k].impl_self_ty)
                     IN  IF t = {} THEN k ELSE LeastOf(t)
             F(q) == [from |-> N(q.from), to |-> N(q.to), span |-> q.span]
             E(s) == [from |-> Place(s.from), to |-> Place(s.to), span |-> s.span]
  <2>1. rs = {r \in {F(q) : q \in Moved} : r.from # r.to}
    BY DEF remap_impl_refs
  <2>2. Moved = {E(s) : s \in R}
    OBVIOUS
  <2>3. \A s \in R : /\ E(s).from = rank[s.from] /\ E(s).to = rank[s.to] /\ E(s).span = s.span
                     /\ p[rank[s.from]] = s.from /\ p[rank[s.to]] = s.to
                     /\ rank[s.from] \in D /\ rank[s.to] \in D
    BY <1>3, <1>5
  <2>4. \A k \in D : N(k) = rank[S(p[k])]
    BY <1>8
  <2>5. \A q : /\ F(q).from = N(q.from) /\ F(q).to = N(q.to)
               /\ F(q) = [from |-> N(q.from), to |-> N(q.to), span |-> q.span]
    OBVIOUS
  <2> HIDE DEF rs, Moved, N, F, E, R, new
  <2>6. \A s \in R : /\ F(E(s)) = [from |-> rank[S(s.from)], to |-> rank[S(s.to)], span |-> s.span]
                     /\ F(E(s)).from = rank[S(s.from)] /\ F(E(s)).to = rank[S(s.to)]
                     /\ rank[S(s.from)] # rank[S(s.to)] <=> S(s.from) # S(s.to)
    <3> TAKE s \in R
    <3>1. N(E(s).from) = rank[S(s.from)] /\ N(E(s).to) = rank[S(s.to)]
      BY <2>3, <2>4
    <3>2. S(s.from) \in D /\ S(s.to) \in D
      BY <1>4, <1>5 DEF R
    <3> HIDE DEF S
    <3>3. rank[S(s.from)] # rank[S(s.to)] <=> S(s.from) # S(s.to)
      BY <3>2
    <3>4. F(E(s)) = [from |-> rank[S(s.from)], to |-> rank[S(s.to)], span |-> s.span]
      BY <2>3, <2>5, <3>1
    <3>5. QED
      BY <2>5, <3>1, <3>3, <3>4
  <2>7. \A x : x \in rs <=> \E s \in R : x = F(E(s)) /\ x.from # x.to
    BY <2>1, <2>2
  <2>8. QED
    BY <2>6, <2>7 DEF R
<1>10. /\ DOMAIN a = D /\ \A k \in D : a[k] \subseteq D
       /\ \A v, w \in D : rank[w] \in a[rank[v]] <=> w \in G[v]
  <2>1. a = [k \in D |-> {l \in D : \E r \in rs : r.from = k /\ r.to = l}]
    BY <1>2 DEF build_adj_list
  <2> HIDE DEF rs, a, new
  <2>2. ASSUME NEW v \in D, NEW w \in D, rank[w] \in a[rank[v]] PROVE w \in G[v]
    <3>1. PICK x \in rs : x.from = rank[v] /\ x.to = rank[w]
      BY <1>3, <2>1, <2>2
    <3>2. PICK s \in module_refs(m) :
            /\ x = [from |-> rank[S(s.from)], to |-> rank[S(s.to)], span |-> s.span]
            /\ S(s.from) # S(s.to)
      BY <1>9
    <3>3. S(s.from) \in D /\ S(s.to) \in D
      BY <1>4, <1>5
    <3>4. rank[S(s.from)] = rank[v] /\ rank[S(s.to)] = rank[w]
      BY <3>1, <3>2
    <3> HIDE DEF S, G
    <3>5. S(s.from) = v /\ S(s.to) = w
      BY <3>3, <3>4
    <3>6. QED
      BY <1>5, <3>2, <3>5
  <2>3. ASSUME NEW v \in D, NEW w \in D, w \in G[v] PROVE rank[w] \in a[rank[v]]
    <3>1. PICK s \in module_refs(m) : S(s.from) = v /\ S(s.to) = w /\ v # w
      BY <1>5, <2>3
    <3>2. [from |-> rank[v], to |-> rank[w], span |-> s.span] \in rs
      BY <1>9, <3>1
    <3> HIDE DEF S, G
    <3>3. \E x \in rs : x.from = rank[v] /\ x.to = rank[w]
      BY <3>2
    <3>4. QED
      BY <1>3, <2>1, <3>3
  <2>4. QED
    BY <2>1, <2>2, <2>3
<1> HIDE DEF rs, a, G
<1>11. ASSUME NEW v \in D, NEW w \in D, Reaches(G, v, w)
       PROVE  Reaches(a, rank[v], rank[w])
  <2> SUFFICES ASSUME NEW T \in SUBSET D, rank[v] \in T, \A k \in T : a[k] \subseteq T
               PROVE  rank[w] \in T
    BY <1>10 DEF Reaches
  <2> DEFINE U == {x \in D : rank[x] \in T}
  <2>1. \A x \in U : G[x] \subseteq U
    BY <1>5, <1>10
  <2>2. U \in SUBSET DOMAIN G /\ v \in U
    BY <1>5
  <2> HIDE DEF U
  <2>3. w \in U
    BY <1>11, <2>1, <2>2 DEF Reaches
  <2>4. QED
    BY <2>3 DEF U
<1>12. a \in [D -> SUBSET D]
  <2>1. a = [k \in D |-> a[k]]
    BY <1>2, <1>10 DEF a, build_adj_list
  <2>2. QED
    BY <1>10, <2>1
<1>13. ASSUME NEW v \in D, NEW w \in D, Mutual(G, v, w) PROVE Class(rank[v]) = Class(rank[w])
  <2>1. Reaches(a, rank[v], rank[w]) /\ Reaches(a, rank[w], rank[v])
    BY <1>11, <1>13 DEF Mutual
  <2>2. \A x : Mutual(a, rank[v], x) <=> Mutual(a, rank[w], x)
    BY <1>12, <2>1, ReachesOn DEF Mutual
  <2>3. QED
    BY <2>2
<1> HIDE DEF Class, H
<1>14. ASSUME NEW x \in rs, x.from < x.to PROVE Class(x.from) = Class(x.to)
  <2>1. PICK s \in module_refs(m) :
          /\ x = [from |-> rank[S(s.from)], to |-> rank[S(s.to)], span |-> s.span]
          /\ S(s.from) # S(s.to)
    BY <1>9
  <2> DEFINE v == S(s.from)
             w == S(s.to)
  <2>2. v \in D /\ w \in D /\ S(v) = v /\ S(w) = w
    BY <1>4, <1>5
  <2>3. w \in G[v]
    BY <1>5, <2>1, <2>2
  <2>4. x.from = rank[v] /\ x.to = rank[w]
    BY <2>1
  <2> HIDE DEF v, w, S
  <2>5. H(v) < H(w) \/ H(v) = H(w)
    BY <1>7, <1>14, <2>2, <2>4
  <2>6. H(w) <= H(v) /\ H(v) \in Nat /\ H(w) \in Nat
    BY <1>1, <2>2, <2>3
  <2>7. H(w) = H(v)
    BY <2>5, <2>6
  <2>8. Mutual(G, v, w)
    BY <1>1, <2>2, <2>3, <2>7
  <2>9. QED
    BY <1>13, <2>2, <2>4, <2>8
<1>15. ASSUME NEW i \in D, NEW t \in PlacesOf(new, new[i].impl_self_ty), NEW k \in D,
              (t < k /\ k < i) \/ (i < k /\ k < t)
       PROVE  new[k].def = new[t].def \/ new[k].impl_self_ty = new[t].def
  <2> DEFINE x == p[i]
             y == p[t]
             z == p[k]
  <2>1. t \in D /\ items[y].def = items[x].impl_self_ty
    BY <1>2, <1>15 DEF PlacesOf
  <2>2. x \in D /\ y \in D /\ z \in D /\ rank[x] = i /\ rank[y] = t /\ rank[z] = k
    BY <1>2, <2>1
  <2>3. new[k] = items[z] /\ new[t] = items[y]
    BY <1>2, <2>1
  <2> HIDE DEF x, y, z
  <2>4. S(x) = y /\ S(y) = y
    BY <1>4, <2>1, <2>2
  <2>5. S(z) \in D /\ (z = S(z) \/ items[z].impl_self_ty = items[S(z)].def)
    BY <1>4, <2>2
  <2>6. H(y) \in Nat /\ H(S(z)) \in Nat /\ y \in Nat /\ S(z) \in Nat
    BY <1>1, <2>2, <2>5
  <2> HIDE DEF S
  <2>7. S(z) = y
    <3>1. CASE t < k /\ k < i
      <4>1. /\ H(y) < H(S(z)) \/ (H(y) = H(S(z)) /\ (y < S(z) \/ y = S(z)))
            /\ H(S(z)) < H(y) \/ (H(S(z)) = H(y) /\ (S(z) < y \/ S(z) = y))
        BY <1>7, <2>2, <2>4, <3>1
      <4>2. QED
        BY <2>6, <4>1
    <3>2. CASE i < k /\ k < t
      <4>1. /\ H(y) < H(S(z)) \/ (H(y) = H(S(z)) /\ (y < S(z) \/ y = S(z)))
            /\ H(S(z)) < H(y) \/ (H(S(z)) = H(y) /\ (S(z) < y \/ S(z) = y))
        BY <1>7, <2>2, <2>4, <3>2
      <4>2. QED
        BY <2>6, <4>1
    <3>3. QED
      BY <1>15, <3>1, <3>2
  <2>8. QED
    BY <2>3, <2>5, <2>7
<1>16. check_impl_grouping(new) = {}
  BY <1>2, <1>15 DEF check_impl_grouping
<1>17. find_ordering_violations(rs, [v \in DOMAIN a |-> Class(v)]) = {}
  <2>1. \A x \in rs : x.from \in DOMAIN a /\ x.to \in DOMAIN a
    <3> TAKE x \in rs
    <3>1. PICK s \in module_refs(m) :
            x = [from |-> rank[S(s.from)], to |-> rank[S(s.to)], span |-> s.span]
      BY <1>9
    <3>2. S(s.from) \in D /\ S(s.to) \in D
      BY <1>4, <1>5
    <3> HIDE DEF S
    <3>3. QED
      BY <1>10, <3>1, <3>2
  <2>2. QED
    BY <1>14, <2>1 DEF find_ordering_violations
<1>18. QED
  BY <1>16, <1>17 DEF SilentInOrder, rs, a, Class

\* For every crate: the items of each module have an order the lint has nothing to
\* say about, so it never asks for what cannot be had.
THEOREM AlwaysSatisfiable == Spec => []Satisfiable
<1>1. WalkInv => Satisfiable
  <2> SUFFICES ASSUME WalkInv, NEW m \in DOMAIN modules
               PROVE  \E q \in {f \in [DOMAIN modules[m] -> DOMAIN modules[m]] : IsInjective(f)} :
                        SilentInOrder(m, module_refs(m), q)
    BY DEF Satisfiable
  <2> DEFINE D == DOMAIN modules[m]
  <2>1. PICK p \in [D -> D], rank \in [D -> D] :
          /\ \A i \in D : p[rank[i]] = i /\ rank[p[i]] = i
          /\ \A i, j \in D : rank[i] < rank[j] => <<i, j>> \in Less(m)
    <3> DEFINE L == Less(m)
               n == Len(modules[m])
    <3>1. /\ D = 1..n /\ n \in Nat /\ L \in SUBSET (D \X D)
          /\ \A i \in D : <<i, i>> \notin L
          /\ \A i, j, k \in D : <<i, j>> \in L /\ <<j, k>> \in L => <<i, k>> \in L
          /\ \A i, j \in D : i = j \/ <<i, j>> \in L \/ <<j, i>> \in L
      BY LessOrders
    <3> HIDE DEF D, L, n
    <3>2. \E p \in [1..n -> 1..n], rank \in [1..n -> 1..n] :
            /\ \A i \in 1..n : p[rank[i]] = i /\ rank[p[i]] = i
            /\ \A i, j \in 1..n : rank[i] < rank[j] => <<i, j>> \in L
      BY <3>1, InOrder
    <3>3. PICK f \in [1..n -> 1..n], g \in [1..n -> 1..n] :
            /\ \A i \in 1..n : f[g[i]] = i /\ g[f[i]] = i
            /\ \A i, j \in 1..n : g[i] < g[j] => <<i, j>> \in L
      BY <3>2
    <3>4. /\ f \in [D -> D] /\ g \in [D -> D]
          /\ \A i \in D : f[g[i]] = i /\ g[f[i]] = i
          /\ \A i, j \in D : g[i] < g[j] => <<i, j>> \in Less(m)
      BY <3>1, <3>3 DEF L
    <3>5. QED
      BY <3>4
  <2>2. SilentInOrder(m, module_refs(m), p)
    BY <2>1, OrderIsSilent
  <2>3. IsInjective(p)
    BY <2>1 DEF IsInjective
  <2>4. QED
    BY <2>2, <2>3
<1>2. QED
  BY <1>1, LintInvHolds, PTL DEF LintInv

=============================================================================
