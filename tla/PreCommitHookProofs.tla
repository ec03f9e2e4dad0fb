------------------------- MODULE PreCommitHookProofs -------------------------
(***************************************************************************)
(* Proofs about PreCommitHook, for any set of files, any number of rounds  *)
(* and of commits, and whatever the tools do.                              *)
(*                                                                         *)
(* All of it rests on what a run knows of its beginning: the entry it has  *)
(* pushed holds what the user had (TheRun), what the tools change keeps    *)
(* its version (FilesOfTheRun), and so the reset leaves nothing in the way *)
(* of the entry (Cleared).                                                 *)
(***************************************************************************)
EXTENDS PreCommitHook, SequenceTheorems, TLAPS

-----------------------------------------------------------------------------
(* The invariant. *)

\* A file that is absent has no other content.
Proper == {c \in Contents : Present(c) \/ c = Absent}
ProperTrees == [Files -> Proper]
Entries == [name: Nat, base: ProperTrees, index: ProperTrees, tree: ProperTrees]

Fixing == {"fix", "fmt", "strip", "add", "check", "banned"}
\* From when the entry is pushed to when it is popped.
Pushed == Fixing \cup {"trap", "look", "reset", "pop"}
Commands == Pushed \cup {"idle", "list", "push", "read", "checkout", "over"}

Types ==
  /\ head \in ProperTrees /\ index \in ProperTrees /\ tree \in ProperTrees
  /\ fixed_tree \in ProperTrees /\ checked \in ProperTrees
  /\ stash \in Seq(Entries) /\ \A e \in Range(stash) : e.name \in 1..runs
  /\ start \in [head: ProperTrees, index: ProperTrees, tree: ProperTrees, stash: Seq(Entries)]
  /\ pc \in Commands
  /\ staged \subseteq Files
  /\ round \in 0..MaxRounds /\ (pc \in {"idle", "list", "push", "trap"} => round = 0) /\ (pc = "fix" => round < MaxRounds)
  /\ verdict \in {"ok", "fail"}
  /\ runs \in 0..MaxRuns /\ (pc # "idle" => runs > 0)
  /\ outcome \in {"none", "committed", "blocked", "killed"} /\ (pc # "idle" => outcome = "none")
  /\ trouble \in {"none", "race", "pop"}
  /\ renamed \subseteq Files

\* The entry of this run.
Own == [name |-> runs, base |-> start.head, index |-> start.index, tree |-> start.tree]

\* Where the run is in what it does with the stash.
TheRun ==
  /\ pc # "idle" => head = start.head
  /\ pc \notin {"idle", "list"} => staged = Listed
  /\ pc \in {"list", "push"} => index = start.index /\ tree = start.tree /\ stash = start.stash
  /\ pc \in Pushed => stash # << >> /\ Head(stash) = Own /\ Tail(stash) = start.stash
  /\ pc \in {"read", "checkout"} => stash = start.stash
  /\ pc \notin {"idle", "over"} => trouble = "none"

\* t has what was staged, as it was or fixed.
AsStaged(t) ==
  \A f \in Files : IF f \in Listed THEN t[f].version = start.index[f].version ELSE t[f] = start.index[f]
\* The working tree has what was staged, and what the tools have generated.
Tooled ==
  \A f \in Files : IF Present(start.index[f]) THEN tree[f].version = start.index[f].version
                   ELSE tree[f] = Absent \/ f \in Generated
\* The working tree has what is committed, and what the tools have generated.
Cleared ==
  /\ index = head
  /\ \A f \in Files : IF Present(head[f]) THEN tree[f] = head[f]
                      ELSE tree[f] = Absent \/ (f \in Generated /\ ~ Present(start.index[f]))

FilesOfTheRun ==
  /\ pc \in Pushed \ {"pop"} => AsStaged(index) /\ Tooled
  /\ pc \in {"reset", "pop", "read"} => AsStaged(fixed_tree)
  /\ pc = "pop" => Cleared
  /\ pc = "checkout" \/ (pc = "over" /\ verdict = "ok") => AsStaged(index)

\* t has the staged files as just check-all has passed them.
AsChecked(t) == \A f \in Listed : t[f] = checked[f]

Checks ==
  /\ pc = "check" => \A f \in Listed : index[f] = tree[f]
  /\ pc = "banned" \/ (pc = "look" /\ verdict = "ok") => AsChecked(index)
  /\ pc \in {"reset", "pop", "read"} /\ verdict = "ok" => AsChecked(fixed_tree)
  /\ pc \in {"checkout", "over"} /\ verdict = "ok" /\ Inspected => AsChecked(index)

\* What was not staged is back.
Rest ==
  /\ stash = start.stash
  /\ \A f \in Files \ Listed : tree[f] = start.tree[f] \/ (f \in Generated /\ ~ Present(start.tree[f]))
Restored == pc \in {"read", "checkout"} \/ (pc = "over" /\ trouble = "none") => Rest

\* The change o is in an entry of s, or in the working tree and not staged
\* in another version.
InStash(o, s) == \E e \in Range(s) : o[2] \in {e.index[o[1]].version, e.tree[o[1]].version}
Keeps(o, h, i, t, s) ==
  \/ InStash(o, s)
  \/ /\ t[o[1]].version = o[2]
     /\ Present(i[o[1]]) /\ i[o[1]] # h[o[1]] => i[o[1]].version = o[2]

Changes == {o \in owned : o[1] \notin TwoContents}
Kept ==
  /\ owned \subseteq Files \X Versions
  /\ \A o \in Changes : Keeps(o, head, index, tree, stash)
  /\ pc # "idle" => \A o \in Changes : Keeps(o, start.head, start.index, start.tree, start.stash)
  \* Once it is committed, nothing is staged.
  /\ (\E o \in Changes : o[2] = head[o[1]].version) => index = head /\ pc \in {"idle", "list", "over"}

Inv == Types /\ TheRun /\ FilesOfTheRun /\ Checks /\ Restored /\ Kept
       /\ CommitsOnlyStaged /\ CommitsWhatPassed /\ RestoresTheRest

-----------------------------------------------------------------------------
(* Facts about sequences and trees. *)

LEMMA RangeFacts ==
  ASSUME NEW S, NEW s \in Seq(S)
  PROVE  /\ Range(s) \subseteq S
         /\ \A e \in Range(s) : e \in S
         /\ s # << >> => /\ Head(s) \in Range(s) /\ Tail(s) \in Seq(S) /\ Range(Tail(s)) \subseteq Range(s)
                         /\ Range(s) \subseteq Range(Tail(s)) \cup {Head(s)}
<1>1. \A n \in 1..Len(s) : s[n] \in S
  BY ElementOfSeq
<1>2. Len(s) \in Nat /\ DOMAIN s = 1..Len(s)
  BY LenProperties
<1>3. Range(s) \subseteq S
  BY <1>1, <1>2 DEF Range
<1>4. ASSUME s # << >>
      PROVE  /\ Head(s) \in Range(s) /\ Tail(s) \in Seq(S) /\ Range(Tail(s)) \subseteq Range(s)
             /\ Range(s) \subseteq Range(Tail(s)) \cup {Head(s)}
  <2>1. Len(s) >= 1 /\ Head(s) = s[1] /\ Tail(s) \in Seq(S) /\ Len(Tail(s)) = Len(s) - 1
        /\ \A n \in 1..(Len(s) - 1) : Tail(s)[n] = s[n + 1]
    BY <1>2, <1>4, HeadTailProperties
  <2>2. Head(s) \in Range(s)
    BY <1>2, <2>1 DEF Range
  <2>3. DOMAIN Tail(s) = 1..(Len(s) - 1)
    BY <2>1, LenProperties
  <2>4. \A n \in 1..(Len(s) - 1) : n + 1 \in 1..Len(s)
    BY <1>2
  <2>5. Range(Tail(s)) \subseteq Range(s)
    BY <1>2, <2>1, <2>3, <2>4 DEF Range
  <2>6. ASSUME NEW n \in 1..Len(s) PROVE s[n] \in Range(Tail(s)) \cup {Head(s)}
    <3>1. CASE n = 1
      BY <2>1, <3>1
    <3>2. CASE n # 1
      <4>1. n - 1 \in 1..(Len(s) - 1) /\ (n - 1) + 1 = n
        BY <1>2, <3>2
      <4>2. Tail(s)[n - 1] = s[n]
        BY <2>1, <4>1
      <4>3. QED
        BY <2>3, <4>1, <4>2 DEF Range
    <3>3. QED
      BY <3>1, <3>2
  <2>7. QED
    BY <1>2, <2>1, <2>2, <2>5, <2>6 DEF Range
<1>5. QED
  BY <1>3, <1>4

LEMMA PushFacts ==
  ASSUME NEW S, NEW s \in Seq(S), NEW e \in S
  PROVE  /\ <<e>> \o s \in Seq(S) /\ <<e>> \o s # << >>
         /\ Head(<<e>> \o s) = e /\ Tail(<<e>> \o s) = s
<1>1. <<e>> \in Seq(S) /\ Len(<<e>>) = 1 /\ Len(s) \in Nat
  OBVIOUS
<1>2. /\ <<e>> \o s \in Seq(S) /\ Len(<<e>> \o s) = 1 + Len(s)
      /\ (<<e>> \o s)[1] = e /\ \A n \in 1..Len(s) : (<<e>> \o s)[n + 1] = s[n]
  OBVIOUS
<1>3. <<e>> \o s # << >> /\ Head(<<e>> \o s) = e
  BY <1>1, <1>2
<1>4. Tail(<<e>> \o s) = s
  <2>1. Tail(<<e>> \o s) \in Seq(S) /\ Len(Tail(<<e>> \o s)) = Len(s)
    BY <1>1, <1>2, <1>3
  <2>2. \A n \in 1..Len(s) : Tail(<<e>> \o s)[n] = s[n]
    BY <1>1, <1>2, <1>3, HeadTailProperties
  <2>3. QED
    BY <2>1, <2>2
<1>5. QED
  BY <1>2, <1>3, <1>4

LEMMA ProperFacts ==
  /\ ProperTrees \subseteq Trees /\ Empty \in ProperTrees
  /\ Absent \in Proper /\ ~ Present(Absent) /\ Of("tool") \in Proper
  /\ \A t \in ProperTrees, f \in Files : t[f] \in Proper /\ (Present(t[f]) \/ t[f] = Absent) /\ t[f].version \in Versions
  /\ \A c \in Proper : Present(c) => Fix(c) \in Proper /\ Fix(c).version = c.version /\ Present(Fix(c))
BY DEF ProperTrees, Trees, Proper, Contents, Versions, Empty, Absent, Of, Present, Fix

\* What a tool may do to the working tree.
LEMMA RunFacts ==
  ASSUME tree \in ProperTrees, NEW files, Run(files)
  PROVE  /\ tree' \in ProperTrees
         /\ \A f \in Files : IF Present(tree[f]) THEN tree'[f].version = tree[f].version
                             ELSE tree'[f] = tree[f] \/ f \in Generated
<1>1. PICK S \in SUBSET {f \in files : Present(tree[f])}, G \in SUBSET Generated :
        tree' = [f \in Files |-> IF f \in S THEN Fix(tree[f])
                                 ELSE IF f \in G /\ ~ Present(tree[f]) THEN Of("tool")
                                 ELSE tree[f]]
  BY DEF Run
<1>2. \A f \in Files : tree[f] \in Proper
  BY DEF ProperTrees
<1>3. \A f \in Files : tree'[f] \in Proper
  BY <1>1, <1>2, ProperFacts
<1>4. tree' \in ProperTrees
  BY <1>1, <1>3 DEF ProperTrees
<1>5. ASSUME NEW f \in Files
      PROVE  IF Present(tree[f]) THEN tree'[f].version = tree[f].version ELSE tree'[f] = tree[f] \/ f \in Generated
  BY <1>1, <1>2, ProperFacts
<1>6. QED
  BY <1>4, <1>5

LEMMA UnstashTypes ==
  ASSUME tree \in ProperTrees, index \in ProperTrees, NEW e \in Entries, Unstash(e)
  PROVE  tree' \in ProperTrees /\ index' \in ProperTrees
BY DEF Unstash, ProperTrees, Entries

-----------------------------------------------------------------------------
LEMMA InitInv == Init => Inv
<1> SUFFICES ASSUME Init PROVE Inv
  OBVIOUS
<1>1. PICK s \in Starts : head = s.head /\ index = s.index /\ tree = s.tree
  BY DEF Init
<1>2. /\ \A f \in Files : /\ head[f] \in {Absent, Of("head")} /\ index[f] \in {Absent, head[f], Of("staged")}
                          /\ tree[f] \in {Absent, index[f], Of("work")}
                          /\ Present(head[f]) /\ ~ Present(index[f]) => ~ Present(tree[f])
      /\ head \in Trees /\ index \in Trees /\ tree \in Trees /\ MaxRounds \in Nat \ {0} /\ MaxRuns \in Nat
  BY <1>1, StartsAssumption DEF StartsAssumption
<1>3. /\ stash = << >> /\ pc = "idle" /\ staged = {} /\ round = 0 /\ fixed_tree = Empty /\ verdict = "ok"
      /\ runs = 0 /\ start = [head |-> head, index |-> index, tree |-> tree, stash |-> stash]
      /\ checked = Empty /\ outcome = "none" /\ trouble = "none" /\ renamed = {}
      /\ owned = {<<f, tree[f].version>> : f \in {g \in Files : tree[g] # index[g]}}
                 \cup {<<f, index[f].version>> : f \in {g \in Files : index[g] # head[g]}}
  BY DEF Init
<1>4. head \in ProperTrees /\ index \in ProperTrees /\ tree \in ProperTrees
  <2>1. {Absent, Of("head"), Of("staged"), Of("work")} \subseteq Proper
    BY DEF Proper, Contents, Versions, Absent, Of, Present
  <2>2. \A f \in Files : head[f] \in Proper /\ index[f] \in Proper /\ tree[f] \in Proper
    BY <1>2, <2>1
  <2>3. QED
    BY <1>2, <2>2 DEF Trees, ProperTrees
<1>5. stash \in Seq(Entries) /\ Range(stash) = {}
  BY <1>3 DEF Range
<1>6. Types
  BY <1>2, <1>3, <1>4, <1>5, ProperFacts DEF Types, Commands
<1>7. TheRun /\ FilesOfTheRun /\ Checks /\ Restored
  BY <1>3 DEF TheRun, FilesOfTheRun, Checks, Restored, Pushed, Fixing
<1>8. CommitsOnlyStaged /\ CommitsWhatPassed /\ RestoresTheRest
  BY <1>3 DEF CommitsOnlyStaged, CommitsWhatPassed, RestoresTheRest, Restoring
<1>9. Kept
  <2>0. /\ Absent.version = "absent" /\ Of("head").version = "head"
        /\ Of("staged").version = "staged" /\ Of("work").version = "work"
        /\ ~ Present(Absent) /\ Present(Of("head")) /\ Present(Of("staged")) /\ Present(Of("work"))
    BY DEF Absent, Of, Present
  <2>1. owned \subseteq Files \X Versions
    BY <1>3, <1>4, ProperFacts
  <2>2. ASSUME NEW o \in Changes
        PROVE  Keeps(o, head, index, tree, stash) /\ o[2] # head[o[1]].version
    <3>1. PICK f \in Files : \/ tree[f] # index[f] /\ o = <<f, tree[f].version>>
                             \/ index[f] # head[f] /\ o = <<f, index[f].version>>
      BY <1>3, <2>2 DEF Changes
    <3>2. o[1] = f /\ f \notin TwoContents
      BY <2>2, <3>1 DEF Changes
    <3>3. tree[f] = index[f] \/ index[f] = head[f]
      <4>1. SUFFICES ASSUME tree[f] # index[f], index[f] # head[f] PROVE FALSE
        OBVIOUS
      <4>2. <<f, tree[f].version>> \in owned /\ <<f, index[f].version>> \in owned
        BY <1>3, <4>1
      <4>3. tree[f].version # index[f].version
        BY <1>2, <2>0, <4>1
      <4>4. <<f, tree[f].version>> # <<f, index[f].version>>
        BY <4>3
      <4>5. QED
        BY <3>2, <4>2, <4>4 DEF TwoContents
    <3>4. tree[f].version = o[2] /\ (index[f] # head[f] => index[f].version = o[2])
      BY <3>1, <3>3
    <3>5. o[2] # head[f].version
      BY <1>2, <2>0, <3>1, <3>3
    <3>6. QED
      BY <3>2, <3>4, <3>5 DEF Keeps
  <2>3. QED
    BY <1>3, <2>1, <2>2 DEF Kept
<1>10. QED
  BY <1>6, <1>7, <1>8, <1>9 DEF Inv

-----------------------------------------------------------------------------
(* Types. *)

\* What a step changes of the repository and of the history, when it changes
\* them, keeps its type.
LEMMA TypesStep == ASSUME Inv, Next PROVE Types'
<1> USE DEF repository, shell, history
<1>1. /\ head \in ProperTrees /\ index \in ProperTrees /\ tree \in ProperTrees
      /\ fixed_tree \in ProperTrees /\ checked \in ProperTrees /\ Empty \in ProperTrees
      /\ stash \in Seq(Entries) /\ \A e \in Range(stash) : e.name \in 1..runs
      /\ start \in [head: ProperTrees, index: ProperTrees, tree: ProperTrees, stash: Seq(Entries)]
      /\ runs \in 0..MaxRuns /\ MaxRuns \in Nat /\ MaxRounds \in Nat \ {0} /\ round \in 0..MaxRounds
      /\ staged \subseteq Files
  BY StartsAssumption, ProperFacts DEF Inv, Types, StartsAssumption
<1>2. CASE Commit
  <2>1. runs' = runs + 1 /\ runs' \in 1..MaxRuns
    BY <1>1, <1>2 DEF Commit
  <2>2. \A e \in Range(stash) : e.name \in 1..runs'
    BY <1>1, <2>1
  <2>3. start' \in [head: ProperTrees, index: ProperTrees, tree: ProperTrees, stash: Seq(Entries)]
    BY <1>1, <1>2 DEF Commit
  <2>4. QED
    BY <1>1, <1>2, <2>1, <2>2, <2>3 DEF Commit, At, Inv, Types, Commands
<1>3. CASE StashPush
  <2>1. pc = "push" /\ pc' = "trap" /\ stash' = <<[name |-> runs, base |-> head, index |-> index, tree |-> tree]>> \o stash
        /\ tree' = index /\ UNCHANGED <<head, index, shell, history>>
    BY <1>3 DEF StashPush, At, stash_push
  <2>2. [name |-> runs, base |-> head, index |-> index, tree |-> tree] \in Entries
    BY <1>1 DEF Entries
  <2>3. stash' \in Seq(Entries) /\ stash' # << >> /\ Tail(stash') = stash /\ Head(stash').name = runs
    BY <1>1, <2>1, <2>2, PushFacts
  <2>4. runs \in 1..runs
    BY <1>1, <2>1 DEF Inv, Types
  <2>5. \A e \in Range(stash') : e.name \in 1..runs
    BY <1>1, <2>3, <2>4, RangeFacts
  <2>6. QED
    BY <1>1, <2>1, <2>3, <2>5 DEF Inv, Types, Commands, Pushed
<1>4. CASE FixRound \/ Format \/ StripComments
  <2>1. tree' \in ProperTrees
    BY <1>1, <1>4, RunFacts DEF FixRound, Format, StripComments
  <2>2. pc' \in {"fix", "fmt", "strip", "add"} /\ pc # "idle" /\ UNCHANGED <<head, index, stash, staged, fixed_tree, verdict, history>>
    BY <1>4 DEF FixRound, Format, StripComments, At
  <2>3. round' \in 0..MaxRounds /\ (pc' = "fix" => round' < MaxRounds)
    <3>1. CASE FixRound
      BY <1>1, <3>1 DEF FixRound, Inv, Types
    <3>2. CASE Format \/ StripComments
      BY <1>1, <3>2 DEF Format, StripComments, At
    <3>3. QED
      BY <1>4, <3>1, <3>2
  <2>4. QED
    BY <1>1, <2>1, <2>2, <2>3 DEF Inv, Types, Commands, Pushed, Fixing
<1>5. CASE Restage
  <2>1. index' \in ProperTrees
    BY <1>1, <1>5 DEF Restage, ProperTrees
  <2>2. QED
    BY <1>1, <1>5, <2>1 DEF Restage, At, Inv, Types, Commands, Pushed, Fixing
<1>6. CASE Reset
  <2>1. index' = head
    BY <1>6 DEF Reset, reset_hard
  <2>2. tree' \in ProperTrees
    BY <1>1, <1>6, ProperFacts DEF Reset, reset_hard, ProperTrees
  <2>3. QED
    BY <1>1, <1>6, <2>1, <2>2 DEF Reset, At, Inv, Types, Commands, Pushed, Fixing
<1>7. CASE Pop \/ PopFails
  <2>1. pc = "pop" /\ stash # << >>
    BY <1>7 DEF Pop, PopFails, At, Inv, TheRun, Pushed
  <2>2. Head(stash) \in Entries /\ Tail(stash) \in Seq(Entries) /\ Range(Tail(stash)) \subseteq Range(stash)
    BY <1>1, <2>1, RangeFacts
  <2>3. tree' \in ProperTrees /\ index' \in ProperTrees
    BY <1>1, <1>7, <2>2, UnstashTypes DEF Pop, PopFails
  <2>4. stash' \in Seq(Entries) /\ \A e \in Range(stash') : e.name \in 1..runs
    BY <1>1, <1>7, <2>2 DEF Pop, PopFails
  <2>5. QED
    BY <1>1, <1>7, <2>3, <2>4 DEF Pop, PopFails, At, Inv, Types, Commands
<1>8. CASE ReadTree
  BY <1>1, <1>8 DEF ReadTree, At, Inv, Types, Commands
<1>9. CASE CheckoutIndex
  <2>1. tree' \in ProperTrees
    BY <1>1, <1>9 DEF CheckoutIndex, ProperTrees
  <2>2. QED
    BY <1>1, <1>9, <2>1 DEF CheckoutIndex, At, Inv, Types, Commands
<1>10. CASE Decide \/ Kill
  BY <1>1, <1>10 DEF Decide, Kill, ShellEnds, At, Inv, Types, Commands
<1>11. CASE ListStaged
  <2>1. renamed' \subseteq Files /\ staged' \subseteq Files
    BY <1>11 DEF ListStaged, Renames, Added
  <2>2. QED
    BY <1>1, <1>11, <2>1 DEF ListStaged, Inv, Types, Commands
<1>12. CASE SetTrap
  BY <1>1, <1>12 DEF SetTrap, At, Inv, Types, Commands, Pushed, Fixing
<1>13. CASE CheckAll \/ CheckBanned \/ Interrupt
  BY <1>1, <1>13 DEF CheckAll, CheckBanned, Interrupt, At, Inv, Types, Commands, Pushed, Fixing
<1>14. CASE LookForStash
  BY <1>1, <1>14 DEF LookForStash, Inv, Types, Commands, Pushed, Fixing
<1>15. QED
  BY <1>2, <1>3, <1>4, <1>5, <1>6, <1>7, <1>8, <1>9, <1>10, <1>11, <1>12, <1>13, <1>14 DEF Next

-----------------------------------------------------------------------------
(* The run and its entry. *)

\* What the commands between the push and the pop leave alone.
LEMMA Between ==
  ASSUME Inv, FixRound \/ Format \/ StripComments \/ Restage \/ CheckAll \/ CheckBanned \/ Interrupt \/ SetTrap
              \/ LookForStash \/ Reset
  PROVE  /\ pc \in Pushed \ {"pop"}
         /\ UNCHANGED <<head, stash, staged, runs, start, outcome, owned, renamed>>
         /\ \/ pc' \in Pushed /\ UNCHANGED trouble
            \/ pc' = "over" /\ trouble' = "race"
<1> USE DEF At, Pushed, Fixing, repository, shell, history
<1>1. CASE FixRound \/ Format \/ StripComments
  BY <1>1 DEF FixRound, Format, StripComments
<1>2. CASE Restage \/ CheckAll
  BY <1>2 DEF Restage, CheckAll
<1>3. CASE CheckBanned \/ Interrupt \/ SetTrap
  BY <1>3 DEF CheckBanned, Interrupt, SetTrap
<1>4. CASE LookForStash
  BY <1>4 DEF LookForStash
<1>5. CASE Reset
  BY <1>5 DEF Reset
<1>6. QED
  BY <1>1, <1>2, <1>3, <1>4, <1>5

LEMMA TheRunStep == ASSUME Inv, Next PROVE TheRun'
<1> USE DEF repository, shell, history
<1>1. TheRun /\ Types
  BY DEF Inv
<1>2. UNCHANGED <<start, renamed>> => Listed' = Listed
  BY DEF Listed, StartStaged
<1>3. UNCHANGED <<start, runs>> => Own' = Own
  BY DEF Own
<1>4. CASE Commit
  BY <1>4 DEF Commit, At, TheRun, Pushed, Fixing
<1>5. CASE ListStaged
  <2>1. staged' = Listed'
    BY <1>1, <1>5 DEF ListStaged, TheRun, Listed, StartStaged
  <2>2. QED
    BY <1>1, <1>5, <2>1 DEF ListStaged, TheRun, Pushed, Fixing
<1>6. CASE StashPush
  <2>1. pc = "push" /\ pc' = "trap" /\ stash' = <<[name |-> runs, base |-> head, index |-> index, tree |-> tree]>> \o stash
        /\ UNCHANGED <<head, index, shell, history>>
    BY <1>6 DEF StashPush, At, stash_push
  <2>2. head = start.head /\ index = start.index /\ tree = start.tree /\ stash = start.stash /\ stash \in Seq(Entries)
    BY <1>1, <2>1 DEF TheRun, Types
  <2>3. stash' = <<Own>> \o stash
    BY <2>1, <2>2 DEF Own
  <2>4. Own \in Entries
    BY <1>1 DEF Own, Types, Entries
  <2>5. stash' # << >> /\ Head(stash') = Own /\ Tail(stash') = start.stash
    BY <2>2, <2>3, <2>4, PushFacts
  <2>6. QED
    BY <1>1, <1>2, <1>3, <2>1, <2>5 DEF TheRun, Pushed, Fixing
<1>7. CASE FixRound \/ Format \/ StripComments \/ Restage \/ CheckAll \/ CheckBanned \/ Interrupt \/ SetTrap
           \/ LookForStash \/ Reset
  BY <1>1, <1>2, <1>3, <1>7, Between DEF TheRun, Pushed, Fixing
<1>8. CASE Pop
  BY <1>1, <1>2, <1>3, <1>8 DEF Pop, At, TheRun, Pushed, Fixing
<1>9. CASE PopFails
  BY <1>1, <1>2, <1>3, <1>9 DEF PopFails, At, TheRun, Pushed, Fixing
<1>10. CASE ReadTree \/ CheckoutIndex
  BY <1>1, <1>2, <1>3, <1>10 DEF ReadTree, CheckoutIndex, At, TheRun, Pushed, Fixing
<1>11. CASE Decide \/ Kill
  BY <1>11 DEF Decide, Kill, At, TheRun, Pushed, Fixing, Types
<1>12. QED
  BY <1>4, <1>5, <1>6, <1>7, <1>8, <1>9, <1>10, <1>11 DEF Next

-----------------------------------------------------------------------------
(* The files of the run. *)

\* What the reset leaves: nothing is in the way of what the entry changes.
LEMMA ResetClears == ASSUME Inv, Reset PROVE Cleared'
<1>1. pc = "reset" /\ index' = head /\ UNCHANGED <<head, start, renamed>>
      /\ tree' = [f \in Files |-> IF Present(head[f]) THEN head[f]
                                  ELSE IF Present(index[f]) THEN Absent ELSE tree[f]]
  BY DEF Reset, reset_hard, At, history
<1>2. AsStaged(index) /\ Tooled /\ Types
  BY <1>1 DEF Inv, FilesOfTheRun, Pushed, Fixing
<1>3. SUFFICES ASSUME NEW f \in Files, ~ Present(head[f])
               PROVE  tree'[f] = Absent \/ (f \in Generated /\ ~ Present(start.index[f]))
  BY <1>1 DEF Cleared
<1>4. CASE Present(index[f])
  BY <1>1, <1>3, <1>4
<1>5. CASE ~ Present(index[f])
  <2>1. ~ Present(start.index[f])
    BY <1>2, <1>5 DEF AsStaged, Present
  <2>2. tree'[f] = tree[f]
    BY <1>1, <1>3, <1>5
  <2>3. QED
    BY <1>2, <2>1, <2>2 DEF Tooled
<1>6. QED
  BY <1>4, <1>5

LEMMA FilesStep == ASSUME Inv, Next PROVE FilesOfTheRun'
<1> USE DEF repository, shell, history
<1>1. FilesOfTheRun /\ TheRun /\ Types
  BY DEF Inv
<1>2. UNCHANGED <<start, renamed>> => Listed' = Listed
  BY DEF Listed, StartStaged
<1>3. UNCHANGED <<start, index, renamed>> => (AsStaged(index)' <=> AsStaged(index))
  BY <1>2 DEF AsStaged
<1>4. UNCHANGED <<start, fixed_tree, renamed>> => (AsStaged(fixed_tree)' <=> AsStaged(fixed_tree))
  BY <1>2 DEF AsStaged
<1>5. UNCHANGED <<start, tree>> => (Tooled' <=> Tooled)
  BY DEF Tooled
<1>6. CASE Commit
  BY <1>6 DEF Commit, At, FilesOfTheRun, Pushed, Fixing
<1>7. CASE ListStaged
  <2>1. AsStaged(index)'
    BY <1>1, <1>7 DEF ListStaged, TheRun, AsStaged
  <2>2. QED
    BY <1>7, <2>1 DEF ListStaged, FilesOfTheRun, Pushed, Fixing
<1>8. CASE StashPush
  <2>1. pc = "push" /\ pc' = "trap" /\ tree' = index /\ UNCHANGED <<index, start, renamed>>
    BY <1>8 DEF StashPush, At, stash_push
  <2>2. AsStaged(index) /\ index = start.index /\ index \in ProperTrees
    BY <1>1, <2>1 DEF TheRun, AsStaged, Types
  <2>3. Tooled'
    BY <2>1, <2>2, ProperFacts DEF Tooled
  <2>4. QED
    BY <1>3, <2>1, <2>2, <2>3 DEF FilesOfTheRun, Pushed, Fixing
<1>9. CASE FixRound \/ Format \/ StripComments
  <2>1. pc \in {"fix", "fmt", "strip"} /\ pc' \in {"fix", "fmt", "strip", "add"} /\ UNCHANGED <<index, start, renamed>>
    BY <1>9 DEF FixRound, Format, StripComments, At
  <2>2. /\ tree' \in ProperTrees
        /\ \A f \in Files : IF Present(tree[f]) THEN tree'[f].version = tree[f].version
                            ELSE tree'[f] = tree[f] \/ f \in Generated
    BY <1>1, <1>9, RunFacts DEF FixRound, Format, StripComments, Types
  <2>3. AsStaged(index) /\ Tooled
    BY <1>1, <2>1 DEF FilesOfTheRun, Pushed, Fixing
  <2>4. Tooled'
    <3>1. ASSUME NEW f \in Files, Present(start.index[f]) PROVE tree'[f].version = start.index[f].version
      BY <2>2, <2>3, <3>1 DEF Tooled, Present
    <3>2. ASSUME NEW f \in Files, ~ Present(start.index[f]) PROVE tree'[f] = Absent \/ f \in Generated
      <4>1. CASE tree[f] = Absent
        BY <2>2, <4>1, ProperFacts
      <4>2. QED
        BY <2>3, <3>2, <4>1 DEF Tooled
    <3>3. QED
      BY <2>1, <3>1, <3>2 DEF Tooled
  <2>5. QED
    BY <1>3, <2>1, <2>3, <2>4 DEF FilesOfTheRun, Pushed, Fixing
<1>10. CASE Restage
  <2>1. pc = "add" /\ pc' = "check" /\ UNCHANGED <<tree, start, renamed>> /\ staged = Listed
        /\ index' = [f \in Files |-> IF f \in staged THEN tree[f] ELSE index[f]]
    BY <1>1, <1>10 DEF Restage, At, TheRun
  <2>2. AsStaged(index) /\ Tooled
    BY <1>1, <2>1 DEF FilesOfTheRun, Pushed, Fixing
  <2>3. \A f \in Listed : f \in Files /\ Present(start.index[f])
    BY DEF Listed, StartStaged
  <2>4. AsStaged(index)'
    BY <1>2, <2>1, <2>2, <2>3 DEF AsStaged, Tooled
  <2>5. QED
    BY <1>5, <2>1, <2>2, <2>4 DEF FilesOfTheRun, Pushed, Fixing
<1>11. CASE SetTrap \/ CheckAll \/ CheckBanned \/ Interrupt
  <2>1. pc \in Pushed \ {"reset", "pop"} /\ pc' \in Pushed \ {"reset", "pop"} /\ UNCHANGED <<index, tree, start, renamed>>
    BY <1>11 DEF SetTrap, CheckAll, CheckBanned, Interrupt, At, Pushed, Fixing
  <2>2. QED
    BY <1>1, <1>3, <1>5, <2>1 DEF FilesOfTheRun, Pushed, Fixing
<1>12. CASE LookForStash
  <2>1. pc = "look" /\ UNCHANGED <<index, tree, start, renamed>> /\ pc' \in {"reset", "over"} /\ (pc' = "reset" => fixed_tree' = index)
    BY <1>12 DEF LookForStash
  <2>2. AsStaged(index) /\ Tooled
    BY <1>1, <2>1 DEF FilesOfTheRun, Pushed, Fixing
  <2>3. AsStaged(index)' /\ Tooled'
    BY <1>3, <1>5, <2>1, <2>2
  <2>4. pc' = "reset" => AsStaged(fixed_tree)'
    BY <1>2, <2>1, <2>2 DEF AsStaged
  <2>5. QED
    BY <2>1, <2>3, <2>4 DEF FilesOfTheRun, Pushed, Fixing
<1>13. CASE Reset
  BY <1>1, <1>4, <1>13, ResetClears DEF Reset, At, FilesOfTheRun, Pushed, Fixing
<1>14. CASE Pop
  BY <1>1, <1>4, <1>14 DEF Pop, At, FilesOfTheRun, Pushed, Fixing
<1>15. CASE PopFails
  BY <1>15 DEF PopFails, At, FilesOfTheRun, Pushed, Fixing
<1>16. CASE ReadTree
  <2>1. AsStaged(fixed_tree) /\ index' = fixed_tree /\ UNCHANGED <<start, renamed>> /\ pc' = "checkout"
    BY <1>1, <1>16 DEF ReadTree, At, FilesOfTheRun
  <2>2. AsStaged(index)'
    BY <1>2, <2>1 DEF AsStaged
  <2>3. QED
    BY <2>1, <2>2 DEF FilesOfTheRun, Pushed, Fixing
<1>17. CASE CheckoutIndex
  BY <1>1, <1>3, <1>17 DEF CheckoutIndex, At, FilesOfTheRun, Pushed, Fixing
<1>18. CASE Decide \/ Kill
  BY <1>18 DEF Decide, Kill, At, FilesOfTheRun, Pushed, Fixing
<1>19. QED
  BY <1>6, <1>7, <1>8, <1>9, <1>10, <1>11, <1>12, <1>13, <1>14, <1>15, <1>16, <1>17, <1>18 DEF Next

-----------------------------------------------------------------------------
(* What is checked. *)

LEMMA ChecksStep == ASSUME Inv, Next PROVE Checks'
<1> USE DEF repository, shell, history
<1>1. Checks /\ TheRun /\ Types
  BY DEF Inv
<1>2. UNCHANGED <<start, renamed>> => Listed' = Listed /\ Inspected' = Inspected
  BY DEF Listed, StartStaged, Inspected
<1>3. UNCHANGED <<start, index, checked, renamed>> => (AsChecked(index)' <=> AsChecked(index))
  BY <1>2 DEF AsChecked
<1>4. UNCHANGED <<start, fixed_tree, checked, renamed>> => (AsChecked(fixed_tree)' <=> AsChecked(fixed_tree))
  BY <1>2 DEF AsChecked
<1>5. CASE Commit
  BY <1>5 DEF Commit, At, Checks
<1>6. CASE ListStaged
  <2>1. staged' = Listed'
    BY <1>1, <1>6 DEF ListStaged, TheRun, Listed, StartStaged
  <2>2. (pc' = "over" /\ ~ Inspected') \/ pc' = "push"
    BY <1>6, <2>1 DEF ListStaged, Inspected
  <2>3. QED
    BY <2>2 DEF Checks
<1>7. CASE StashPush \/ SetTrap \/ FixRound \/ Format \/ StripComments
  <2>1. pc' \in {"trap", "fix", "fmt", "strip", "add"}
    BY <1>7 DEF StashPush, SetTrap, FixRound, Format, StripComments, At
  <2>2. QED
    BY <2>1 DEF Checks
<1>8. CASE Restage
  <2>1. pc = "add" /\ pc' = "check" /\ UNCHANGED <<tree, start, renamed>> /\ staged = Listed
        /\ index' = [f \in Files |-> IF f \in staged THEN tree[f] ELSE index[f]]
    BY <1>1, <1>8 DEF Restage, At, TheRun
  <2>2. \A f \in Listed : index'[f] = tree'[f]
    BY <2>1 DEF Listed, StartStaged
  <2>3. QED
    BY <1>2, <2>1, <2>2 DEF Checks
<1>9. CASE CheckAll
  <2>1. /\ pc = "check" /\ UNCHANGED <<index, start, renamed>>
        /\ \/ pc' = "banned" /\ checked' = tree
           \/ pc' = "look" /\ verdict' = "fail"
    BY <1>9 DEF CheckAll
  <2>2. pc' = "banned" => AsChecked(index)'
    BY <1>1, <1>2, <2>1 DEF AsChecked, Checks
  <2>3. QED
    BY <2>1, <2>2 DEF Checks
<1>10. CASE CheckBanned
  BY <1>1, <1>3, <1>10 DEF CheckBanned, At, Checks
<1>11. CASE Interrupt
  BY <1>11 DEF Interrupt, Checks
<1>12. CASE LookForStash
  <2>1. /\ pc = "look" /\ UNCHANGED <<index, checked, verdict, start, renamed>>
        /\ \/ pc' = "reset" /\ fixed_tree' = index
           \/ pc' = "over"
    BY <1>12 DEF LookForStash
  <2>2. verdict = "ok" => AsChecked(index)
    BY <1>1, <2>1 DEF Checks
  <2>3. verdict = "ok" /\ pc' = "reset" => AsChecked(fixed_tree)'
    BY <1>2, <2>1, <2>2 DEF AsChecked
  <2>4. QED
    BY <1>3, <2>1, <2>2, <2>3 DEF Checks
<1>13. CASE Reset \/ Pop
  <2>1. pc \in {"reset", "pop"} /\ pc' \in {"pop", "read"} /\ UNCHANGED <<fixed_tree, checked, verdict, start, renamed>>
    BY <1>13 DEF Reset, Pop, At
  <2>2. QED
    BY <1>1, <1>4, <2>1 DEF Checks
<1>14. CASE PopFails
  BY <1>14 DEF PopFails, At, Checks
<1>15. CASE ReadTree
  <2>1. pc = "read" /\ pc' = "checkout" /\ index' = fixed_tree /\ UNCHANGED <<checked, verdict, start, renamed>>
    BY <1>15 DEF ReadTree, At
  <2>2. verdict = "ok" => AsChecked(index)'
    BY <1>1, <1>2, <2>1 DEF Checks, AsChecked
  <2>3. QED
    BY <2>1, <2>2 DEF Checks
<1>16. CASE CheckoutIndex
  <2>1. pc = "checkout" /\ pc' = "over" /\ UNCHANGED <<index, checked, verdict, start, renamed>>
    BY <1>16 DEF CheckoutIndex, At
  <2>2. QED
    BY <1>1, <1>2, <1>3, <2>1 DEF Checks
<1>17. CASE Decide \/ Kill
  BY <1>17 DEF Decide, Kill, At, Checks
<1>18. QED
  BY <1>5, <1>6, <1>7, <1>8, <1>9, <1>10, <1>11, <1>12, <1>13, <1>14, <1>15, <1>16, <1>17 DEF Next

-----------------------------------------------------------------------------
(* What is restored. *)

\* The entry of the run, when it is popped.
LEMMA Popped ==
  ASSUME Inv, pc = "pop"
  PROVE  /\ head = start.head /\ Head(stash) = Own /\ Tail(stash) = start.stash /\ Cleared
         /\ \A f \in Files :
              /\ head[f] \in Proper /\ tree[f] \in Proper
              /\ start.tree[f] \in Proper /\ start.index[f] \in Proper
         /\ Changed(Own) = {f \in Files : start.tree[f] # head[f]} \ Untracked(Own)
         /\ Untracked(Own) = {f \in Files : ~ Present(head[f]) /\ ~ Present(start.index[f]) /\ Present(start.tree[f])}
<1>1. Types /\ TheRun /\ FilesOfTheRun
  BY DEF Inv
<1>2. head = start.head /\ Head(stash) = Own /\ Tail(stash) = start.stash /\ Cleared
  BY <1>1 DEF TheRun, FilesOfTheRun, Pushed, Fixing
<1>3. \A f \in Files : /\ head[f] \in Proper /\ tree[f] \in Proper
                       /\ start.tree[f] \in Proper /\ start.index[f] \in Proper
  BY <1>1 DEF Types, ProperTrees
<1>4. Own.base = head /\ Own.tree = start.tree /\ Own.index = start.index
  BY <1>2 DEF Own
<1>5. QED
  BY <1>2, <1>3, <1>4 DEF Changed, Untracked

\* The stash applies: the reset has left nothing in its way.
LEMMA PopApplies == Inv => PopsCleanly
<1> SUFFICES ASSUME Inv, pc = "pop" PROVE Head(stash).name = runs /\ Applies(Head(stash))
  BY DEF PopsCleanly
<1>1. Head(stash) = Own /\ Own.name = runs /\ Own.base = head
  BY Popped DEF Own
<1>2. SUFFICES ASSUME NEW f \in Changed(Own) PROVE tree[f] = head[f] /\ index[f] = head[f]
  BY <1>1 DEF Applies
<1>3. f \in Files /\ start.tree[f] # head[f] /\ f \notin Untracked(Own)
  BY <1>2, Popped
<1>4. CASE Present(head[f])
  BY <1>3, <1>4, Popped DEF Cleared
<1>5. CASE ~ Present(head[f])
  <2>1. head[f] = Absent
    BY <1>3, <1>5, Popped DEF Proper
  <2>2. Present(start.tree[f])
    BY <1>3, <2>1, Popped DEF Proper
  <2>3. Present(start.index[f])
    BY <1>3, <1>5, <2>2, Popped
  <2>4. QED
    BY <1>3, <1>5, <2>1, <2>3, Popped DEF Cleared
<1>6. QED
  BY <1>4, <1>5

LEMMA PopRestores ==
  ASSUME Inv, Pop
  PROVE  /\ stash' = start.stash
         /\ \A f \in Files :
              \/ tree'[f] = start.tree[f]
              \/ /\ start.tree[f] = head[f]
                 /\ f \in Generated /\ ~ Present(start.tree[f])
         /\ \A f \in Files : index'[f] \in {head[f], start.tree[f]}
<1>1. pc = "pop" /\ Unstash(Own) /\ ~ Collides(Own) /\ stash' = Tail(stash)
  BY Popped DEF Pop, At
<1>2. ASSUME NEW f \in Files
      PROVE  tree'[f] = start.tree[f] \/ (start.tree[f] = head[f] /\ f \in Generated /\ ~ Present(start.tree[f]))
  <2>1. tree'[f] = IF f \in Changed(Own) \/ (f \in Untracked(Own) /\ ~ Present(tree[f])) THEN start.tree[f] ELSE tree[f]
    BY <1>1 DEF Unstash, Own
  <2>2. CASE f \in Changed(Own) \cup Untracked(Own)
    BY <1>1, <2>1, <2>2 DEF Collides
  <2>3. CASE f \notin Changed(Own) \cup Untracked(Own)
    <3>1. start.tree[f] = head[f] /\ tree'[f] = tree[f]
      BY <1>1, <2>1, <2>3, Popped
    <3>2. CASE Present(head[f])
      BY <1>1, <3>1, <3>2, Popped DEF Cleared
    <3>3. CASE ~ Present(head[f])
      <4>1. head[f] = Absent
        BY <1>1, <3>3, Popped DEF Proper
      <4>2. QED
        BY <1>1, <3>1, <3>3, <4>1, Popped DEF Cleared
    <3>4. QED
      BY <3>2, <3>3
  <2>4. QED
    BY <2>2, <2>3
<1>3. \A f \in Files : index'[f] \in {head[f], start.tree[f]}
  BY <1>1, Popped DEF Unstash, Own, Cleared
<1>4. QED
  BY <1>1, <1>2, <1>3, Popped

LEMMA RestoredStep == ASSUME Inv, Next PROVE Restored'
<1> USE DEF repository, shell, history
<1>1. Restored /\ TheRun
  BY DEF Inv
<1>2. UNCHANGED <<start, renamed>> => Listed' = Listed
  BY DEF Listed, StartStaged
<1>3. CASE ListStaged
  <2>1. stash = start.stash /\ tree = start.tree /\ UNCHANGED <<stash, tree, start>> /\ pc' \in {"over", "push"}
    BY <1>1, <1>3 DEF ListStaged, TheRun
  <2>2. QED
    BY <2>1 DEF Restored, Rest
<1>4. CASE FixRound \/ Format \/ StripComments \/ Restage \/ CheckAll \/ CheckBanned \/ Interrupt \/ SetTrap
           \/ LookForStash \/ Reset
  BY <1>4, Between DEF Restored, Pushed, Fixing
<1>5. CASE Pop
  <2>1. UNCHANGED <<start, renamed>>
    BY <1>5 DEF Pop
  <2>2. QED
    BY <1>2, <1>5, <2>1, PopRestores DEF Restored, Rest
<1>6. CASE PopFails
  BY <1>6 DEF PopFails, At, Restored
<1>7. CASE ReadTree
  BY <1>1, <1>2, <1>7 DEF ReadTree, At, Restored, Rest
<1>8. CASE CheckoutIndex
  <2>1. pc = "checkout" /\ UNCHANGED <<stash, start, renamed>> /\ staged = Listed
        /\ tree' = [f \in Files |-> IF f \in staged THEN index[f] ELSE tree[f]]
    BY <1>1, <1>8 DEF CheckoutIndex, At, TheRun
  <2>2. QED
    BY <1>1, <1>2, <2>1 DEF Restored, Rest
<1>9. CASE Commit \/ StashPush \/ Decide \/ Kill
  BY <1>9 DEF Commit, StashPush, Decide, Kill, At, Restored
<1>10. QED
  BY <1>3, <1>4, <1>5, <1>6, <1>7, <1>8, <1>9 DEF Next

\* The run is judged when it is decided.
LEMMA OutcomeStep ==
  ASSUME Inv, Next
  PROVE  CommitsOnlyStaged' /\ CommitsWhatPassed' /\ RestoresTheRest'
<1> USE DEF repository, shell, history
<1>1. CASE pc' # "idle"
  <2>1. outcome' = "none"
    BY <1>1, TypesStep DEF Types
  <2>2. QED
    BY <2>1 DEF CommitsOnlyStaged, CommitsWhatPassed, RestoresTheRest, Restoring
<1>2. CASE Decide
  <2>1. /\ pc = "over" /\ UNCHANGED <<tree, stash, start, checked, trouble, renamed>>
        /\ \/ verdict = "ok" /\ head' = index /\ outcome' = "committed"
           \/ outcome' = "blocked"
    BY <1>2 DEF Decide, At
  <2>2. Listed' = Listed /\ Inspected' = Inspected
    BY <2>1 DEF Listed, StartStaged, Inspected
  <2>3. FilesOfTheRun /\ Checks /\ Restored
    BY DEF Inv
  <2>4. CommitsOnlyStaged'
    BY <2>1, <2>2, <2>3 DEF FilesOfTheRun, AsStaged, CommitsOnlyStaged
  <2>5. CommitsWhatPassed'
    BY <2>1, <2>2, <2>3 DEF Checks, AsChecked, CommitsWhatPassed
  <2>6. RestoresTheRest'
    BY <2>1, <2>2, <2>3 DEF Restored, Rest, RestoresTheRest
  <2>7. QED
    BY <2>4, <2>5, <2>6
<1>3. CASE Kill
  BY <1>3 DEF Kill, CommitsOnlyStaged, CommitsWhatPassed, RestoresTheRest, Restoring
<1>4. pc' = "idle" => Decide \/ Kill
  BY DEF Next, Commit, ListStaged, StashPush, SetTrap, FixRound, Format, StripComments, Restage, CheckAll, CheckBanned,
         Interrupt, LookForStash, Reset, Pop, PopFails, ReadTree, CheckoutIndex, At
<1>5. QED
  BY <1>1, <1>2, <1>3, <1>4

-----------------------------------------------------------------------------
(* What the user has changed. *)

\* While the entry is on the stash, it has everything.
EntryKeeps == pc \in Pushed => \A o \in Changes : InStash(o, stash)

LEMMA InEntry == Types /\ TheRun /\ Kept => EntryKeeps
<1> SUFFICES ASSUME Types, TheRun, Kept, pc \in Pushed, NEW o \in Changes PROVE InStash(o, stash)
  BY DEF EntryKeeps
<1>1. stash # << >> /\ Head(stash) = Own /\ Tail(stash) = start.stash /\ stash \in Seq(Entries)
  BY DEF TheRun, Types
<1>2. Own \in Range(stash) /\ Range(start.stash) \subseteq Range(stash)
  BY <1>1, RangeFacts
<1>3. Keeps(o, start.head, start.index, start.tree, start.stash)
  BY DEF Kept, Pushed, Fixing
<1>4. Own.tree = start.tree
  BY DEF Own
<1>5. QED
  BY <1>2, <1>3, <1>4 DEF Keeps, InStash

\* The parts of Kept.
Now == \A o \in Changes : Keeps(o, head, index, tree, stash)
AtStart == pc # "idle" => \A o \in Changes : Keeps(o, start.head, start.index, start.tree, start.stash)
Committed == (\E o \in Changes : o[2] = head[o[1]].version) => index = head /\ pc \in {"idle", "list", "over"}

\* The run goes on with the start it has, and what the user owns is settled.
LEMMA StartStands ==
  ASSUME Next
  PROVE  UNCHANGED owned /\ (Commit \/ (UNCHANGED start /\ pc # "idle"))
<1> USE DEF At, repository, shell, history
<1>1. CASE Commit
  BY <1>1 DEF Commit
<1>2. CASE ListStaged \/ StashPush \/ SetTrap \/ FixRound \/ Format \/ StripComments
  BY <1>2 DEF ListStaged, StashPush, SetTrap, FixRound, Format, StripComments
<1>3. CASE Restage \/ CheckAll \/ CheckBanned \/ LookForStash \/ Reset
  BY <1>3 DEF Restage, CheckAll, CheckBanned, LookForStash, Reset
<1>4. CASE Interrupt
  BY <1>4 DEF Interrupt
<1>5. CASE Pop \/ PopFails \/ ReadTree \/ CheckoutIndex
  BY <1>5 DEF Pop, PopFails, ReadTree, CheckoutIndex
<1>6. CASE Decide \/ Kill
  BY <1>6 DEF Decide, Kill
<1>7. QED
  BY <1>1, <1>2, <1>3, <1>4, <1>5, <1>6 DEF Next

LEMMA AtStartStep == ASSUME Inv, Next PROVE AtStart'
<1>1. Kept /\ UNCHANGED owned /\ Changes' = Changes
  BY StartStands DEF Inv, Changes, TwoContents
<1>2. CASE Commit
  BY <1>1, <1>2 DEF Commit, At, Kept, AtStart
<1>3. CASE UNCHANGED start /\ pc # "idle"
  BY <1>1, <1>3 DEF Kept, AtStart
<1>4. QED
  BY <1>2, <1>3, StartStands

\* Once a change is what is committed, nothing is staged and no run gets far.
LEMMA CommittedStep == ASSUME Inv, Next PROVE Committed'
<1> USE DEF repository, shell, history
<1>1. Kept /\ Changes' = Changes
  BY StartStands DEF Inv, Changes, TwoContents
<1> SUFFICES ASSUME NEW c \in Changes, c[2] = head'[c[1]].version
             PROVE  index' = head' /\ pc' \in {"idle", "list", "over"}
  BY <1>1 DEF Committed
<1>2. CASE Decide
  <2>1. pc' = "idle" /\ index' = index /\ (head' = index \/ head' = head)
    BY <1>2 DEF Decide, At
  <2>2. QED
    BY <1>1, <2>1 DEF Kept
<1>3. CASE ~ Decide
  <2>1. head' = head
    BY <1>3 DEF Next, Commit, ListStaged, StashPush, SetTrap, FixRound, Format, StripComments, Restage, CheckAll, CheckBanned,
           Interrupt, LookForStash, Reset, Pop, PopFails, ReadTree, CheckoutIndex, Kill
  <2>2. index = head /\ pc \in {"idle", "list", "over"}
    BY <1>1, <2>1 DEF Kept
  <2>3. CASE Commit \/ Kill
    BY <2>1, <2>2, <2>3 DEF Commit, Kill, At
  <2>4. CASE ListStaged
    <3>1. staged' = {}
      BY <2>2, <2>4 DEF ListStaged
    <3>2. QED
      BY <2>1, <2>2, <2>4, <3>1 DEF ListStaged
  <2>5. Commit \/ Kill \/ ListStaged
    BY <1>3, <2>2 DEF Next, StashPush, SetTrap, FixRound, Format, StripComments, Restage, CheckAll, CheckBanned,
           Interrupt, LookForStash, Reset, Pop, PopFails, ReadTree, CheckoutIndex, At
  <2>6. QED
    BY <2>3, <2>4, <2>5
<1>4. QED
  BY <1>2, <1>3

\* What is staged for a run, in a tree that has it, is what the user owns.
LEMMA StagedIsOwned ==
  ASSUME Inv, NEW o \in Changes, pc \in {"pop", "read", "checkout"},
         ~ InStash(o, start.stash), NEW t, AsStaged(t), Present(t[o[1]]), t[o[1]] # head[o[1]] \/ o[1] \in Listed
  PROVE  t[o[1]].version = o[2]
<1> DEFINE f == o[1]
<1>1. Types /\ TheRun /\ Kept /\ f \in Files
  BY DEF Inv, Kept, Changes
<1>2. head = start.head
  BY <1>1 DEF TheRun
<1>3. Present(start.index[f]) /\ start.index[f] # start.head[f] => start.index[f].version = o[2]
  BY <1>1 DEF Kept, Keeps
<1>4. t[f].version = start.index[f].version
  BY <1>1 DEF AsStaged
<1>5. f \in StartStaged
  BY <1>1, <1>2 DEF AsStaged, Listed, StartStaged
<1>6. QED
  BY <1>3, <1>4, <1>5 DEF Listed, StartStaged

LEMMA NowStep == ASSUME Inv, Next PROVE Now'
<1> USE DEF repository, shell, history
<1>1. Types /\ TheRun /\ FilesOfTheRun /\ Kept /\ Changes' = Changes
  BY StartStands DEF Inv, Changes, TwoContents
<1>2. SUFFICES ASSUME NEW o \in Changes PROVE Keeps(o, head', index', tree', stash')
  BY <1>1 DEF Now
<1> DEFINE f == o[1]
<1>3. f \in Files /\ Keeps(o, head, index, tree, stash)
  BY <1>1, <1>2 DEF Kept, Changes
<1>4. pc # "idle" => Keeps(o, start.head, start.index, start.tree, start.stash)
  BY <1>1, <1>2 DEF Kept
<1>5. CASE UNCHANGED repository
  BY <1>3, <1>5
<1>6. CASE Decide
  BY <1>3, <1>6 DEF Decide, Keeps
<1>7. CASE pc \in Pushed /\ UNCHANGED stash
  BY <1>1, <1>2, <1>7, InEntry DEF EntryKeeps, Keeps
<1>8. CASE StashPush
  <2>1. pc = "push" /\ pc' = "trap"
    BY <1>8 DEF StashPush, At
  <2>2. AtStart' /\ TheRun' /\ Types'
    BY AtStartStep, TheRunStep, TypesStep
  <2>3. stash' # << >> /\ Head(stash') = Own' /\ Tail(stash') = start'.stash /\ stash' \in Seq(Entries)
    BY <2>1, <2>2 DEF TheRun, Types, Pushed
  <2>4. Own' \in Range(stash') /\ Range(start'.stash) \subseteq Range(stash') /\ Own.tree' = start.tree'
    BY <2>3, RangeFacts DEF Own
  <2>5. Keeps(o, start'.head, start'.index, start'.tree, start'.stash)
    BY <1>1, <1>2, <2>1, <2>2 DEF AtStart
  <2>6. QED
    BY <2>4, <2>5 DEF Keeps, InStash
<1>9. CASE Pop
  <2>1. pc = "pop" /\ head' = head
    BY <1>9 DEF Pop, At
  <2>2. stash' = start.stash /\ index'[f] \in {head[f], start.tree[f]}
        /\ (tree'[f] = start.tree[f] \/ start.tree[f] = head[f])
    BY <1>3, <1>9, PopRestores
  <2>3. CASE InStash(o, start.stash)
    BY <2>2, <2>3 DEF Keeps
  <2>4. CASE ~ InStash(o, start.stash)
    <3>1. start.tree[f].version = o[2]
      BY <1>4, <2>1, <2>4 DEF Keeps
    <3>2. o[2] # head[f].version
      BY <1>1, <1>2, <2>1 DEF Kept
    <3>3. QED
      BY <2>1, <2>2, <3>1, <3>2 DEF Keeps
  <2>5. QED
    BY <2>3, <2>4
<1>10. CASE ReadTree
  <2>1. pc = "read" /\ index' = fixed_tree /\ UNCHANGED <<head, tree, stash>> /\ stash = start.stash /\ AsStaged(fixed_tree)
    BY <1>1, <1>10 DEF ReadTree, At, TheRun, FilesOfTheRun
  <2>2. CASE InStash(o, stash)
    BY <2>1, <2>2 DEF Keeps
  <2>3. CASE ~ InStash(o, stash)
    <3>1. Present(fixed_tree[f]) /\ fixed_tree[f] # head[f] => fixed_tree[f].version = o[2]
      BY <1>2, <2>1, <2>3, StagedIsOwned
    <3>2. tree[f].version = o[2]
      BY <1>3, <2>3 DEF Keeps
    <3>3. QED
      BY <2>1, <3>1, <3>2 DEF Keeps
  <2>4. QED
    BY <2>2, <2>3
<1>11. CASE CheckoutIndex
  <2>1. pc = "checkout" /\ UNCHANGED <<head, index, stash>> /\ stash = start.stash /\ AsStaged(index) /\ staged = Listed
        /\ tree' = [g \in Files |-> IF g \in staged THEN index[g] ELSE tree[g]]
    BY <1>1, <1>11 DEF CheckoutIndex, At, TheRun, FilesOfTheRun
  <2>2. CASE InStash(o, stash)
    BY <2>1, <2>2 DEF Keeps
  <2>3. CASE ~ InStash(o, stash)
    <3>1. tree[f].version = o[2] /\ (Present(index[f]) /\ index[f] # head[f] => index[f].version = o[2])
      BY <1>3, <2>3 DEF Keeps
    <3>2. f \in Listed => index[f].version = o[2]
      <4>1. SUFFICES ASSUME f \in Listed PROVE index[f].version = o[2]
        OBVIOUS
      <4>2. Present(index[f])
        BY <1>3, <2>1, <4>1 DEF AsStaged, Listed, StartStaged, Present
      <4>3. QED
        BY <1>2, <2>1, <2>3, <4>1, <4>2, StagedIsOwned
    <3>3. tree'[f].version = o[2]
      BY <1>3, <2>1, <3>1, <3>2
    <3>4. QED
      BY <2>1, <3>1, <3>3 DEF Keeps
  <2>4. QED
    BY <2>2, <2>3
<1>12. QED
  <2>1. CASE FixRound \/ Format \/ StripComments \/ Restage \/ CheckAll \/ CheckBanned \/ Interrupt \/ SetTrap
             \/ LookForStash \/ Reset
    BY <1>7, <2>1, Between
  <2>2. CASE Commit \/ ListStaged \/ Kill
    BY <1>5, <2>2 DEF Commit, ListStaged, Kill
  <2>3. CASE PopFails
    BY <1>7, <2>3 DEF PopFails, At, Pushed
  <2>4. QED
    BY <1>6, <1>8, <1>9, <1>10, <1>11, <2>1, <2>2, <2>3 DEF Next

-----------------------------------------------------------------------------
(* Theorems. *)

LEMMA InvStep == ASSUME Inv, [Next]_vars PROVE Inv'
<1>1. CASE Next
  <2>1. Kept'
    <3>1. owned' \subseteq Files \X Versions
      BY <1>1, StartStands DEF Inv, Kept
    <3>2. Now' /\ AtStart' /\ Committed'
      BY <1>1, NowStep, AtStartStep, CommittedStep
    <3>3. QED
      BY <3>1, <3>2 DEF Kept, Now, AtStart, Committed
  <2>2. QED
    BY <1>1, <2>1, TypesStep, TheRunStep, FilesStep, ChecksStep, RestoredStep, OutcomeStep DEF Inv
<1>2. CASE UNCHANGED vars
  <2> USE <1>2 DEF vars, repository, shell, history
  <2>1. Listed' = Listed /\ Inspected' = Inspected /\ Own' = Own /\ Changes' = Changes
    BY DEF Listed, StartStaged, Inspected, Own, Changes, TwoContents
  <2>2. Types'
    BY DEF Inv, Types
  <2>3. TheRun'
    BY <2>1 DEF Inv, TheRun
  <2>4. FilesOfTheRun'
    BY <2>1 DEF Inv, FilesOfTheRun, AsStaged, Tooled, Cleared
  <2>5. Checks'
    BY <2>1 DEF Inv, Checks, AsChecked
  <2>6. Restored' /\ RestoresTheRest'
    BY <2>1 DEF Inv, Restored, Rest, RestoresTheRest, Restoring
  <2>7. CommitsOnlyStaged' /\ CommitsWhatPassed'
    BY <2>1 DEF Inv, CommitsOnlyStaged, CommitsWhatPassed
  <2>8. Kept'
    BY <2>1 DEF Inv, Kept
  <2>9. QED
    BY <2>2, <2>3, <2>4, <2>5, <2>6, <2>7, <2>8 DEF Inv
<1>3. QED
  BY <1>1, <1>2

THEOREM InvHolds == Spec => []Inv
BY InitInv, InvStep, PTL DEF Spec

\* Whatever the tools and the user do, the entry that is popped is this run's,
\* and no tracked file is in its way.
THEOREM StashPopsCleanly == Spec => []StashIsOwn
<1>1. Inv => TypeOK
  <2> SUFFICES ASSUME Inv PROVE TypeOK
    OBVIOUS
  <2>1. Types
    BY DEF Inv
  <2>2. {head, index, tree, fixed_tree, checked} \subseteq Trees
    BY <2>1, ProperFacts DEF Types
  <2>3. \A e \in Range(stash) : {e.base, e.index, e.tree} \subseteq Trees /\ e.name \in 1..runs
    <3>1. \A e \in Range(stash) : e \in Entries /\ e.name \in 1..runs
      BY <2>1, RangeFacts DEF Types
    <3>2. QED
      BY <3>1, ProperFacts DEF Entries
  <2>4. QED
    BY <2>1, <2>2, <2>3 DEF Types, TypeOK, Commands, Pushed, Fixing
<1>2. QED
  BY <1>1, PopApplies, InvHolds, PTL DEF StashIsOwn

\* A commit has what was staged, and the staged files that the hook lists as just
\* check-all has passed them.  A renamed file it does not list: that one is committed
\* as it was staged, whatever has been checked.
THEOREM CommitsWhatIsChecked == Spec => []CommitsCheckedStaged
<1>1. Inv => CommitsCheckedStaged
  BY DEF Inv, CommitsCheckedStaged
<1>2. QED
  BY <1>1, InvHolds, PTL

\* A run that ends without trouble gives back what was not staged, or renamed.
THEOREM GivesBackTheRest == Spec => []RestoresTheRest
<1>1. Inv => RestoresTheRest
  BY DEF Inv
<1>2. QED
  BY <1>1, InvHolds, PTL

\* No change of the user to a file with one is ever lost, however often the hook
\* fails, is interrupted, or is killed at whatever command.
THEOREM LosesNothing == Spec => []NothingLost
<1>1. Inv => NothingLost
  <2> SUFFICES ASSUME Inv, NEW o \in owned, o[1] \notin TwoContents
               PROVE  o[2] \in {head[o[1]].version, index[o[1]].version, tree[o[1]].version}
                               \cup UNION {{e.index[o[1]].version, e.tree[o[1]].version} : e \in Range(stash)}
    BY DEF NothingLost
  <2>1. Keeps(o, head, index, tree, stash)
    BY DEF Inv, Kept, Changes
  <2>2. QED
    BY <2>1 DEF Keeps, InStash
<1>2. QED
  BY <1>1, InvHolds, PTL
=============================================================================
