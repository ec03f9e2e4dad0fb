-------------------------- MODULE ThreadAffineDrop --------------------------
(***************************************************************************)
(* unsafe_send_thread_affine_drop: an `unsafe impl Send` is reported when  *)
(* Rust drops, with a value of its type, a value of a type declared to be  *)
(* destroyed on one thread only.  Local types are declared by the          *)
(* attribute of src/contracts, which leaves a marker constant; types of    *)
(* other crates by the configuration.                                      *)
(*                                                                         *)
(* Each field is searched breadth first along ownership, with a limit on   *)
(* the depth and one on the edges looked at.  A type is a node with a kind *)
(* and the sequence of types it owns; instances of one generic ADT are     *)
(* different types of the same ADT.                                        *)
(***************************************************************************)
EXTENDS Naturals, Sequences, FiniteSets, FiniteSetsExt

CONSTANTS
  Types,     \* the instantiated types
  Adts,      \* the structs, enums and unions they are instances of
  AdtOf,     \* the ADT of a type, for the kinds in AdtKinds
  Local,     \* the ADTs of the crate that is compiled
  Name,      \* the last segment of an ADT's path
  Reasons,   \* the literal reasons of contracts
  MaxDepth,  \* 64 in the code
  MaxEdges,  \* 4096 in the code
  Crates     \* the crates to lint: see CratesAssumption

AdtKinds   == {"adt", "container", "union", "manually_drop", "phantom"}
Kinds      == AdtKinds \union {"aggregate", "opaque"}
Boundaries == {"union", "manually_drop", "phantom"}

Attributes == [on: {"struct", "enum", "union"}, reason: Reasons \union {"empty"}]
Impls      == [expanded: BOOLEAN, of: {"Send", "Sync", "none"}, unsafe: BOOLEAN, adt: BOOLEAN]

ASSUME BoundsAssumption == MaxDepth \in Nat /\ MaxEdges \in Nat

\* A marker that is not a literal has no reason.
ASSUME NamesAssumption ==
  Local \subseteq Adts /\ AdtOf \in [Types -> Adts] /\ "computed" \notin Reasons

ASSUME CratesAssumption ==
  \A c \in Crates :
    /\ c.impl \in Impls
    /\ c.self \in Local                  \* no other crate's type may be given Send
    /\ c.fields \in Seq(Types)            \* of all variants, in order
    /\ c.kind \in [Types -> Kinds]
    /\ c.owns \in [Types -> Seq(Types)]   \* fields, type arguments or elements
    /\ c.attributes \in [Local -> Seq(Attributes)]
    /\ c.consts \in [Local -> Seq(Reasons \union {"computed"})]
    /\ c.external \in Seq([path: Adts, reason: Reasons])

VARIABLES
  crate,      \* the crate, fixed
  consts,     \* the marker constants of the local ADTs
  field,      \* the field that is searched, its position
  queue,      \* pending: records of a type, its depth and its ownership path
  visited,    \* the types that have been queued for this field
  owner,      \* the entry whose type is being looked into
  owned,      \* what the iterator over its parts has left
  remaining,  \* remaining_edges
  hazards,    \* what the diagnostic will list
  pc          \* "expand", "item", "field", "search", "edges", "done" or "rejected"

search == <<queue, visited, owner, owned, remaining>>
vars == <<crate, consts, field, search, hazards, pc>>

Entries == [type: Types, depth: 0..MaxDepth, path: Seq(Adts)]
Nothing == [reason |-> "none"]

-----------------------------------------------------------------------------
(* Contracts. *)

\* The attribute macro: a compile error, or the item and its marker.
Accepted(attribute) == attribute.on # "union" /\ attribute.reason # "empty"
thread_affine_drop(adt) ==
  [i \in DOMAIN crate.attributes[adt] |-> crate.attributes[adt][i].reason] \o crate.consts[adt]

\* The first marker whose value is a string literal.
Literals(markers) == {i \in DOMAIN markers : markers[i] # "computed"}
local_contract(adt) ==
  IF adt \notin Local \/ Literals(consts[adt]) = {} THEN Nothing
  ELSE [path |-> adt, reason |-> consts[adt][Min(Literals(consts[adt]))]]

\* The configured types by path: of two entries with one path the later stays.
Configured(path) == {i \in DOMAIN crate.external : crate.external[i].path = path}
external_contracts(path) ==
  IF Configured(path) = {} THEN Nothing ELSE crate.external[Max(Configured(path))]
external_type_names == {Name[crate.external[i].path] : i \in DOMAIN crate.external}

contract_for_adt(adt) ==
  IF local_contract(adt) # Nothing THEN local_contract(adt)
  ELSE IF adt \in Local \/ Name[adt] \notin external_type_names THEN Nothing
  ELSE external_contracts(adt)

ContractOf(type) ==
  IF crate.kind[type] \in AdtKinds THEN contract_for_adt(AdtOf[type]) ELSE Nothing

\* What a type owns: the type arguments of a standard container, the fields
\* of another ADT, the elements of an array, a slice or a tuple.
owned_types(type) == IF crate.kind[type] = "opaque" THEN <<>> ELSE crate.owns[type]

Hazard(contract, at, through) ==
  [path |-> contract.path, reason |-> contract.reason, field |-> at, through |-> through]

-----------------------------------------------------------------------------
Init ==
  /\ crate \in Crates
  /\ consts = crate.consts
  /\ field = 1
  /\ queue = <<>> /\ visited = {} /\ remaining = MaxEdges
  /\ owner = <<>> /\ owned = <<>>
  /\ hazards = <<>>
  /\ pc = "expand"

ExpandAttributes ==
  /\ pc = "expand"
  /\ \A adt \in Local : \A i \in DOMAIN crate.attributes[adt] : Accepted(crate.attributes[adt][i])
  /\ consts' = [adt \in Local |-> thread_affine_drop(adt)]
  /\ pc' = "item"
  /\ UNCHANGED <<crate, field, search, hazards>>

RejectAttribute ==
  /\ pc = "expand"
  /\ \E adt \in Local : \E i \in DOMAIN crate.attributes[adt] : ~Accepted(crate.attributes[adt][i])
  /\ pc' = "rejected"
  /\ UNCHANGED <<crate, consts, field, search, hazards>>

\* An explicit `unsafe impl Send for` an ADT, written by hand.
Audited ==
  /\ ~crate.impl.expanded /\ crate.impl.unsafe
  /\ crate.impl.of = "Send" /\ crate.impl.adt

PassOver ==
  /\ pc = "item" /\ ~Audited
  /\ pc' = "done"
  /\ UNCHANGED <<crate, consts, field, search, hazards>>

\* The type is itself declared: its fields are not looked at.
ContractOnSelf ==
  /\ pc = "item" /\ Audited
  /\ contract_for_adt(crate.self) # Nothing
  /\ hazards' = <<Hazard(contract_for_adt(crate.self), 0, <<>>)>>
  /\ pc' = "done"
  /\ UNCHANGED <<crate, consts, field, search>>

check_item ==
  /\ pc = "item" /\ Audited
  /\ contract_for_adt(crate.self) = Nothing
  /\ pc' = "field"
  /\ UNCHANGED <<crate, consts, field, search, hazards>>

StartField ==
  /\ pc = "field" /\ field \in DOMAIN crate.fields
  /\ queue' = <<[type |-> crate.fields[field], depth |-> 0, path |-> <<>>]>>
  /\ visited' = {crate.fields[field]}
  /\ remaining' = MaxEdges
  /\ pc' = "search"
  /\ UNCHANGED <<crate, consts, field, owner, owned, hazards>>

NextField ==
  /\ field' = field + 1
  /\ queue' = <<>> /\ visited' = {}
  /\ pc' = "field"

-----------------------------------------------------------------------------
(* find_thread_affine_type: one action per way an entry is popped, and one per *)
(* way an edge from it is taken.                                           *)

\* Sensitivity: a type is not checked once a limit is reached.
IsDeclared_BeforeLimit ==
  /\ ContractOf(Head(queue).type) # Nothing
  /\ Head(queue).depth < MaxDepth /\ remaining > 0
Popping == pc = "search" /\ queue # <<>>
entry   == Head(queue)
IsBoundary == crate.kind[entry.type] \in Boundaries
IsDeclared == ContractOf(entry.type) # Nothing
Exhausted  == entry.depth = MaxDepth \/ remaining = 0

StopAtBoundary ==
  /\ Popping /\ IsBoundary
  /\ queue' = Tail(queue)
  /\ UNCHANGED <<crate, consts, field, visited, owner, owned, remaining, hazards, pc>>

FindContract ==
  /\ Popping /\ ~IsBoundary /\ IsDeclared
  /\ hazards' = Append(hazards, Hazard(ContractOf(entry.type), field, entry.path))
  /\ NextField
  /\ UNCHANGED <<crate, consts, owner, owned, remaining>>

LeaveUnexplored ==
  /\ Popping /\ ~IsBoundary /\ ~IsDeclared /\ Exhausted
  /\ queue' = Tail(queue)
  /\ UNCHANGED <<crate, consts, field, visited, owner, owned, remaining, hazards, pc>>

ExploreType ==
  /\ Popping /\ ~IsBoundary /\ ~IsDeclared /\ ~Exhausted
  /\ queue' = Tail(queue)
  /\ owner' = entry
  /\ owned' = owned_types(entry.type)
  /\ pc' = "edges"
  /\ UNCHANGED <<crate, consts, field, visited, remaining, hazards>>

\* The path names ADTs only; a tuple or an array is passed through.
PathThrough ==
  IF crate.kind[owner.type] \in AdtKinds THEN Append(owner.path, AdtOf[owner.type]) ELSE owner.path

\* Sensitivity: only ADTs count for the depth.
Queued_AdtDepth(child) ==
  [type |-> child, path |-> PathThrough,
   depth |-> owner.depth + (IF crate.kind[owner.type] \in AdtKinds THEN 1 ELSE 0)]
Queued(child) == [type |-> child, path |-> PathThrough, depth |-> owner.depth + 1]

\* Every edge counts, also the one to a type that has been visited.
TakeEdge ==
  /\ pc = "edges" /\ owned # <<>> /\ remaining > 0
  /\ remaining' = remaining - 1
  /\ owned' = Tail(owned)
  /\ UNCHANGED <<crate, consts, field, owner, hazards, pc>>

\* Sensitivity: the newest entry is popped next.
QueueChild_DepthFirst ==
  /\ TakeEdge /\ Head(owned) \notin visited
  /\ visited' = visited \union {Head(owned)}
  /\ queue' = <<Queued(Head(owned))>> \o queue
QueueChild ==
  /\ TakeEdge /\ Head(owned) \notin visited
  /\ visited' = visited \union {Head(owned)}
  /\ queue' = Append(queue, Queued(Head(owned)))

SkipVisited ==
  /\ TakeEdge /\ Head(owned) \in visited
  /\ UNCHANGED <<queue, visited>>

EndOfEdges ==
  /\ pc = "edges" /\ (owned = <<>> \/ remaining = 0)
  /\ pc' = "search"
  /\ UNCHANGED <<crate, consts, field, search, hazards>>

FieldIsSilent ==
  /\ pc = "search" /\ queue = <<>>
  /\ NextField
  /\ UNCHANGED <<crate, consts, owner, owned, remaining, hazards>>

\* One diagnostic with a label per hazard, none if there is no hazard.
Emit ==
  /\ pc = "field" /\ field > Len(crate.fields)
  /\ pc' = "done"
  /\ UNCHANGED <<crate, consts, field, search, hazards>>

find_thread_affine_type == \/ StopAtBoundary \/ FindContract \/ LeaveUnexplored \/ ExploreType
                           \/ QueueChild \/ SkipVisited \/ EndOfEdges \/ FieldIsSilent
Next == \/ ExpandAttributes \/ RejectAttribute \/ PassOver \/ ContractOnSelf \/ check_item
        \/ StartField \/ find_thread_affine_type \/ Emit
Spec == Init /\ [][Next]_vars

-----------------------------------------------------------------------------
(* Properties. *)

\* The variables keep their types; a depth never passes MaxDepth.
TypeOK ==
  /\ consts \in [Local -> Seq(Reasons \union {"computed"})]
  /\ field \in 1..(Len(crate.fields) + 1)
  /\ queue \in Seq(Entries)
  /\ visited \subseteq Types
  /\ pc = "edges" => owner \in Entries /\ owned \in Seq(Types)
  /\ remaining \in 0..MaxEdges
  /\ hazards \in Seq([path: Adts, reason: Reasons, field: Nat, through: Seq(Adts)])
  /\ pc \in {"expand", "item", "field", "search", "edges", "done", "rejected"}

(* What Rust drops, in terms of the source and not of the search. *)

\* The reason a type is declared with: for a local type the attribute's, or
\* that of a marker written by hand; for another the last entry of its path.
DeclaredReason(adt) ==
  LET byAttribute == {crate.attributes[adt][i].reason : i \in DOMAIN crate.attributes[adt]}
      byHand      == Literals(crate.consts[adt])
  IN  IF adt \in Local
      THEN IF byAttribute # {} THEN byAttribute
           ELSE IF byHand # {} THEN {crate.consts[adt][Min(byHand)]} ELSE {}
      ELSE IF Configured(adt) # {} THEN {crate.external[Max(Configured(adt))].reason} ELSE {}

\* Dropping a value of the type drops one of each of these.
Drops(type) ==
  IF crate.kind[type] \in Boundaries \union {"opaque"} THEN {}
  ELSE {crate.owns[type][i] : i \in DOMAIN crate.owns[type]}
IsDropped(type) == crate.kind[type] \notin Boundaries
Affine(type) ==
  IsDropped(type) /\ crate.kind[type] \in AdtKinds /\ DeclaredReason(AdtOf[type]) # {}

\* The types within a number of ownership edges of a type, not looking into
\* declared types.
Within(type, distance) ==
  LET Level[d \in Nat] ==
        IF d = 0 THEN {type}
        ELSE Level[d - 1] \union UNION {Drops(t) : t \in {u \in Level[d - 1] : ~Affine(u)}}
  IN  Level[distance]

AffineWithin(type, distance) == \E t \in Within(type, distance) : Affine(t)
EdgesOf(types) ==
  UNION {{t} \X DOMAIN crate.owns[t] : t \in {u \in types : Drops(u) # {} /\ ~Affine(u)}}

\* The queue is in order of depth, and a type is queued at its distance from
\* the field: "BFS reaches each type at its shallowest depth first".
ShallowestFirst ==
  \A i \in DOMAIN queue :
    /\ \A j \in 1..i : queue[j].depth <= queue[i].depth
    /\ queue[i].type \in Within(crate.fields[field], queue[i].depth)
    /\ \A d \in 0..(queue[i].depth - 1) : queue[i].type \notin Within(crate.fields[field], d)

\* A chain of owned types leads from one type to another; those of them that
\* are ADTs, without the last, are the path, in order.
Leads(from, to, length, path) ==
  \E chain \in [0..length -> Types] :
    /\ chain[0] = from /\ chain[length] = to
    /\ \A i \in 1..length : chain[i] \in Drops(chain[i - 1])
    /\ \E at \in [DOMAIN path -> 0..(length - 1)] :
         /\ \A i, j \in DOMAIN path : i < j => at[i] < at[j]
         /\ {at[i] : i \in DOMAIN path} = {i \in 0..(length - 1) : crate.kind[chain[i]] \in AdtKinds}
         /\ \A i \in DOMAIN path : path[i] = AdtOf[chain[at[i]]]

\* A hazard is real: a chain of owned types leads from the field to a type
\* declared with the reason the label gives, through the ADTs it names.
HazardsAreReal ==
  \A n \in DOMAIN hazards :
    LET hazard == hazards[n]
    IN  /\ hazard.reason \in DeclaredReason(hazard.path)
        /\ IF hazard.field = 0 THEN hazard.path = crate.self
           ELSE \E length \in 0..MaxDepth : \E type \in Types :
                  /\ Affine(type) /\ AdtOf[type] = hazard.path
                  /\ Leads(crate.fields[hazard.field], type, length, hazard.through)

\* Of the declared types a field drops, the label names a nearest one: the
\* limit on edges never makes the search pass over it for one further away.
NearestIsNamed ==
  \A n \in DOMAIN hazards : hazards[n].field # 0 =>
    \E d \in 0..MaxDepth :
      LET type == crate.fields[hazards[n].field]
      IN  /\ \E t \in Within(type, d) : Affine(t) /\ AdtOf[t] = hazards[n].path
          /\ \A e \in 0..(d - 1) : ~AffineWithin(type, e)

\* Silence about a field is due to a limit or to there being nothing to find:
\* when the limit on edges allows every type nearer than d to be looked into,
\* a declared type at distance d is found, also if no edge is left by then.
NothingMissed ==
  (pc = "done" /\ Audited) =>
    \/ DeclaredReason(crate.self) # {} /\ Len(hazards) = 1 /\ hazards[1].field = 0
    \/ /\ DeclaredReason(crate.self) = {}
       /\ \A f \in DOMAIN crate.fields : \A d \in 0..MaxDepth :
            /\ AffineWithin(crate.fields[f], d)
            /\ d = 0 \/ Cardinality(EdgesOf(Within(crate.fields[f], d - 1))) <= MaxEdges
            => \E n \in DOMAIN hazards : hazards[n].field = f

\* The queue and what is taken from it: typed, in order of depth, and no hazard
\* that is not one.
SearchIsSound == TypeOK /\ ShallowestFirst /\ HazardsAreReal
=============================================================================
