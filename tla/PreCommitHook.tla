---------------------------- MODULE PreCommitHook ----------------------------
(***************************************************************************)
(* The pre-commit hook that src/scripts/recommended-config.py writes       *)
(* (emit_hook), and what git does before and after it.                     *)
(*                                                                         *)
(* The hook stashes what is not staged, lets tools fix and format the      *)
(* working tree, stages the fixed files again and checks them.  A trap     *)
(* that bash runs however the hook exits is to restore the working tree.   *)
(* The user may interrupt the hook, the machine may kill it, and the user  *)
(* may commit again.                                                       *)
(*                                                                         *)
(* A file's content is a version and whether the tools have fixed it.  The *)
(* commit, the index and the working tree map every file to its content.   *)
(***************************************************************************)
EXTENDS Naturals, Sequences, SequencesExt

CONSTANTS
  Files,      \* the files of the repository and of the working tree
  Rust,       \* those the tools fix: .rs
  Manifests,  \* those the hook searches for banned crates: Cargo.toml
  Generated,  \* those the tools write when they are missing: Cargo.lock
  MaxRounds,  \* how often the fixes are repeated: 5
  MaxRuns,    \* how often the user commits, at most
  Starts      \* what the user may begin with: see StartsAssumption

Versions == {"absent", "head", "staged", "work", "tool"}
Contents == [version: Versions, fixed: BOOLEAN]
Trees    == [Files -> Contents]

Of(version) == [version |-> version, fixed |-> FALSE]
Absent == Of("absent")

Present(c) == c.version # "absent"

Empty == [f \in Files |-> Absent]

Fix(c) == [c EXCEPT !.fixed = TRUE]

\* What is committed, staged and in the working tree.  The content the user has
\* staged is "staged", what is only in the working tree is "work", and a file
\* that is neither committed nor staged may be untracked.
StartsAssumption ==
  /\ Rust \cup Manifests \cup Generated \subseteq Files
  /\ MaxRounds \in Nat \ {0} /\ MaxRuns \in Nat
  /\ \A s \in Starts :
       /\ {s.head, s.index, s.tree} \subseteq Trees
       /\ \A f \in Files : /\ s.head[f] \in {Absent, Of("head")}
                           /\ s.index[f] \in {Absent, s.head[f], Of("staged")}
                           /\ s.tree[f] \in {Absent, s.index[f], Of("work")}
                           /\ Present(s.head[f]) /\ ~ Present(s.index[f]) => ~ Present(s.tree[f])
ASSUME StartsAssumption

VARIABLES
  head,        \* the commit that is checked out
  index,       \* what is staged
  tree,        \* the working tree
  stash,       \* the stash entries, the newest first
  pc,          \* what the hook does next; "idle" when it is not running
  staged,      \* the variable of the hook: the files it re-stages
  round,       \* how many rounds of fixes it has made
  fixed_tree,  \* the variable of the trap: the fixed index
  verdict,     \* the exit status the hook will have
  runs,        \* how many times the user has committed; at most MaxRuns
  start,       \* what this run began with
  checked,     \* the working tree that just check-all passed
  outcome,     \* how the last run ended; "none" while it goes on
  trouble,     \* why the trap did not restore: "none", "race" or "pop"
  owned,       \* what the user has changed: files with their versions
  renamed      \* the staged files that git took for renamed ones in this run

repository == <<head, index, tree, stash>>
shell == <<staged, round, fixed_tree, verdict>>
history == <<runs, start, checked, outcome, trouble, owned, renamed>>
vars == <<repository, pc, shell, history>>

-----------------------------------------------------------------------------
(***************************************************************************)
(* What git does.                                                          *)
(***************************************************************************)
Removed == {f \in Files : Present(head[f]) /\ ~ Present(index[f])}
Added   == {f \in Files : ~ Present(head[f]) /\ Present(index[f])}

\* What git may take for renamed: added files, each paired with a removed file it
\* resembles.  Whether it does is left open.
Renames == {R \in SUBSET Added : Injection(R, Removed) # {}}

\* git stash push --keep-index --include-untracked.
stash_push ==
  /\ stash' = <<[name |-> runs, base |-> head, index |-> index, tree |-> tree]>> \o stash
  /\ tree' = index

\* git reset --hard HEAD: untracked files stay.
reset_hard ==
  /\ index' = head
  /\ tree' = [f \in Files |-> IF Present(head[f]) THEN head[f]
                              ELSE IF Present(index[f]) THEN Absent ELSE tree[f]]

\* The files of a stash entry that were not tracked, and those it changes.
Untracked(e) == {f \in Files : /\ ~ Present(e.base[f]) /\ ~ Present(e.index[f])
                               /\ Present(e.tree[f])}

Changed(e) == {f \in Files : e.tree[f] # e.base[f]} \ Untracked(e)

\* git stash pop merges what the entry changes, and would overwrite nothing.
Applies(e) == \A f \in Changed(e) : tree[f] = e.base[f] /\ index[f] = e.base[f]

Collides(e) == \E f \in Untracked(e) : Present(tree[f])

\* A new file is staged; an untracked one that is in the way stays.
Unstash(e) ==
  /\ tree' = [f \in Files |-> IF f \in Changed(e) \/ (f \in Untracked(e) /\ ~ Present(tree[f]))
                              THEN e.tree[f] ELSE tree[f]]
  /\ index' = [f \in Files |-> IF f \in Changed(e) /\ ~ Present(e.base[f])
                               THEN e.tree[f] ELSE index[f]]

-----------------------------------------------------------------------------
Init ==
  /\ \E s \in Starts : head = s.head /\ index = s.index /\ tree = s.tree
  /\ owned = {<<f, tree[f].version>> : f \in {g \in Files : tree[g] # index[g]}}
             \cup {<<f, index[f].version>> : f \in {g \in Files : index[g] # head[g]}}
  /\ stash = << >>
  /\ pc = "idle"
  /\ staged = {}
  /\ round = 0
  /\ fixed_tree = Empty
  /\ verdict = "ok"
  /\ runs = 0
  /\ start = [head |-> head, index |-> index, tree |-> tree, stash |-> stash]
  /\ checked = Empty
  /\ outcome = "none"
  /\ trouble = "none"
  /\ renamed = {}

\* The hook goes from one command to the next.
At(here, next) == pc = here /\ pc' = next

\* The user commits: git starts the hook.
Commit ==
  /\ At("idle", "list") /\ runs < MaxRuns
  /\ runs' = runs + 1
  /\ start' = [head |-> head, index |-> index, tree |-> tree, stash |-> stash]
  /\ checked' = Empty /\ outcome' = "none" /\ trouble' = "none" /\ renamed' = {}
  /\ UNCHANGED <<repository, shell, owned>>

\* git diff --cached --diff-filter=ACM: the staged files, without those that are
\* deleted or renamed; the hook is over when none is of interest.
ListStaged ==
  /\ pc = "list"
  /\ renamed' \in Renames
  /\ staged' = {f \in Files : Present(index[f]) /\ index[f] # head[f]} \ renamed'
  /\ pc' = IF staged' \cap (Rust \cup Manifests) = {} THEN "over" ELSE "push"
  /\ UNCHANGED <<repository, round, fixed_tree, verdict, runs, start, checked, outcome, trouble, owned>>

StashPush == At("push", "trap") /\ stash_push /\ UNCHANGED <<head, index, shell, history>>

SetTrap == At("trap", "fix") /\ UNCHANGED <<repository, shell, history>>

\* A tool fixes some files, and may write a generated one.
Run(files) ==
  \E S \in SUBSET {f \in files : Present(tree[f])}, G \in SUBSET Generated :
    tree' = [f \in Files |-> IF f \in S THEN Fix(tree[f])
                             ELSE IF f \in G /\ ~ Present(tree[f]) THEN Of("tool")
                             ELSE tree[f]]

\* cargo clippy --fix, again as long as it says it has fixed something.
FixRound ==
  /\ pc = "fix"
  /\ Run(Rust)
  /\ round' = round + 1
  /\ \E said \in BOOLEAN : pc' = IF said /\ round' < MaxRounds THEN "fix" ELSE "fmt"
  /\ UNCHANGED <<head, index, stash, staged, fixed_tree, verdict, history>>

Format == At("fmt", "strip") /\ Run(Rust) /\ UNCHANGED <<head, index, stash, shell, history>>

StripComments ==
  At("strip", "add") /\ Run(staged \cap Rust) /\ UNCHANGED <<head, index, stash, shell, history>>

Restage_None == At("add", "check") /\ UNCHANGED <<repository, shell, history>>

\* git add of the staged files.
Restage ==
  /\ At("add", "check")
  /\ index' = [f \in Files |-> IF f \in staged THEN tree[f] ELSE index[f]]
  /\ UNCHANGED <<head, tree, stash, shell, history>>

\* just check-all passes, or the hook exits.
CheckAll ==
  /\ pc = "check"
  /\ \/ pc' = "banned" /\ checked' = tree /\ UNCHANGED verdict
     \/ pc' = "look" /\ verdict' = "fail" /\ UNCHANGED checked
  /\ UNCHANGED <<repository, staged, round, fixed_tree, runs, start, outcome, trouble, owned, renamed>>

\* A staged manifest may have a banned crate.
CheckBanned ==
  /\ At("banned", "look")
  /\ verdict' \in IF staged \cap Manifests = {} THEN {"ok"} ELSE {"ok", "fail"}
  /\ UNCHANGED <<repository, staged, round, fixed_tree, history>>

\* The user interrupts the hook once the trap is set: bash runs the trap.
Interrupt ==
  /\ pc \in {"fix", "fmt", "strip", "add", "check", "banned"}
  /\ pc' = "look" /\ verdict' = "fail"
  /\ UNCHANGED <<repository, staged, round, fixed_tree, history>>

\* The trap looks for the stash entry.  The list and the search run in a pipe:
\* when the search ends at a match before the list has written older entries, the
\* list dies of SIGPIPE, and under pipefail the entry counts as not found.
LookForStash ==
  /\ pc = "look"
  /\ \/ /\ \E e \in Range(stash) : e.name = runs
        /\ pc' = "reset" /\ fixed_tree' = index
        /\ UNCHANGED trouble
     \/ /\ Len(stash) > 1
        /\ pc' = "over" /\ trouble' = "race"
        /\ UNCHANGED fixed_tree
  /\ UNCHANGED <<repository, staged, round, verdict, runs, start, checked, outcome, owned, renamed>>

\* Sensitivity: the stash is popped into the fixed files.
Reset_Skipped == At("reset", "pop") /\ UNCHANGED <<repository, shell, history>>

Reset == At("reset", "pop") /\ reset_hard /\ UNCHANGED <<head, stash, shell, history>>

\* Sensitivity: the stash entry is applied and kept.
Pop_Keeps ==
  /\ At("pop", "read")
  /\ Applies(Head(stash)) /\ ~ Collides(Head(stash))
  /\ Unstash(Head(stash))
  /\ UNCHANGED <<head, stash, shell, history>>

\* git stash pop of the newest entry.
Pop ==
  /\ At("pop", "read")
  /\ Applies(Head(stash)) /\ ~ Collides(Head(stash))
  /\ Unstash(Head(stash))
  /\ stash' = Tail(stash)
  /\ UNCHANGED <<head, shell, history>>

\* It fails and keeps the entry; bash leaves the trap.
PopFails ==
  /\ At("pop", "over")
  /\ ~ Applies(Head(stash)) \/ Collides(Head(stash))
  /\ IF Applies(Head(stash)) THEN Unstash(Head(stash)) ELSE UNCHANGED <<index, tree>>
  /\ verdict' = "fail" /\ trouble' = "pop"
  /\ UNCHANGED <<head, stash, staged, round, fixed_tree, runs, start, checked, outcome, owned, renamed>>

ReadTree ==
  At("read", "checkout") /\ index' = fixed_tree /\ UNCHANGED <<head, tree, stash, shell, history>>

\* Sensitivity: every file of the index is checked out.
CheckoutIndex_All ==
  /\ At("checkout", "over")
  /\ tree' = [f \in Files |-> IF Present(index[f]) THEN index[f] ELSE tree[f]]
  /\ UNCHANGED <<head, index, stash, shell, history>>

\* git checkout-index -f of the staged files.
CheckoutIndex ==
  /\ At("checkout", "over")
  /\ tree' = [f \in Files |-> IF f \in staged THEN index[f] ELSE tree[f]]
  /\ UNCHANGED <<head, index, stash, shell, history>>

\* The shell is gone, its variables with it.
ShellEnds == staged' = {} /\ round' = 0 /\ fixed_tree' = Empty /\ verdict' = "ok"

\* git commits the index when the hook has passed.
Decide ==
  /\ At("over", "idle")
  /\ IF verdict = "ok"
     THEN head' = index /\ outcome' = "committed"
     ELSE outcome' = "blocked" /\ UNCHANGED head
  /\ ShellEnds
  /\ UNCHANGED <<index, tree, stash, runs, start, checked, trouble, owned, renamed>>

\* The hook dies without its trap: it is killed, or interrupted before the trap is
\* set or while it runs.
Kill ==
  /\ pc # "idle"
  /\ pc' = "idle"
  /\ outcome' = "killed"
  /\ ShellEnds
  /\ UNCHANGED <<repository, runs, start, checked, trouble, owned, renamed>>

Next ==
  \/ Commit \/ ListStaged \/ StashPush \/ SetTrap
  \/ FixRound \/ Format \/ StripComments \/ Restage \/ CheckAll \/ CheckBanned
  \/ Interrupt
  \/ LookForStash \/ Reset \/ Pop \/ PopFails \/ ReadTree \/ CheckoutIndex
  \/ Decide \/ Kill

Spec == Init /\ [][Next]_vars

-----------------------------------------------------------------------------
\* The variables have their types, whatever the user begins with.
TypeOK ==
  /\ {head, index, tree, fixed_tree, checked} \subseteq Trees
  /\ \A e \in Range(stash) : {e.base, e.index, e.tree} \subseteq Trees /\ e.name \in 1..runs
  /\ pc \in {"idle", "list", "push", "trap", "fix", "fmt", "strip", "add", "check", "banned",
              "look", "reset", "pop", "read", "checkout", "over"}
  /\ staged \subseteq Files
  /\ round \in 0..MaxRounds
  /\ verdict \in {"ok", "fail"}
  /\ runs \in 0..MaxRuns
  /\ outcome \in {"none", "committed", "blocked", "killed"}
  /\ trouble \in {"none", "race", "pop"}
  /\ renamed \subseteq Files

\* The files this run is to commit a change of, and those of them it knows of.
StartStaged == {f \in Files : Present(start.index[f]) /\ start.index[f] # start.head[f]}
Listed == StartStaged \ renamed

Inspected == Listed \cap (Rust \cup Manifests) # {}

Restoring == pc = "idle" /\ outcome \in {"committed", "blocked"}

\* Files that are staged and then changed or deleted have two contents of the
\* user.
TwoContents == {o[1] : o \in {o \in owned : \E p \in owned : p[1] = o[1] /\ p # o}}

\* No change of the user is lost, nor a deletion, at whatever moment the hook is
\* interrupted or killed and however often it is run again: it is committed,
\* staged, in the working tree or in the stash, itself or fixed.  The exception
\* are the files that are staged and then changed again or deleted.
NothingLost ==
  \A o \in owned : LET f == o[1] IN
    f \notin TwoContents =>
      o[2] \in {head[f].version, index[f].version, tree[f].version}
               \cup UNION {{e.index[f].version, e.tree[f].version} : e \in Range(stash)}

\* A commit has the staged files the hook lists, as they were or fixed, and of no
\* other file anything but what was staged: neither what the user did not stage
\* nor what the tools did to other files, a renamed one among them.
CommitsOnlyStaged ==
  outcome = "committed" =>
    \A f \in Files : IF f \in Listed
                     THEN head[f].version = start.index[f].version
                     ELSE head[f] = start.index[f]

\* When the hook lists a file of interest, those it lists are committed as just
\* check-all has passed them.  The exception are renamed files, which the tools fix
\* and the checks see fixed, but which are not staged again
\* (recommended-config.py:377): for them it is false.
CommitsWhatPassed ==
  outcome = "committed" /\ Inspected => \A f \in Listed : head[f] = checked[f]

\* "pop the stash -- applies cleanly because the base matches"
\* (recommended-config.py:389): what is popped is the entry of this run, and no
\* tracked file stands in its way, whatever the tools have done.
PopsCleanly == pc = "pop" => Head(stash).name = runs /\ Applies(Head(stash))

\* A run that ends with its trap, and neither loses the race for the list nor
\* finds an untracked file in the way, leaves the stash and the files that were
\* not staged, or renamed, as they were.
RestoresTheRest ==
  Restoring /\ trouble = "none" =>
    /\ stash = start.stash
    /\ \A f \in Files \ Listed :
         \/ tree[f] = start.tree[f]
         \/ f \in Generated /\ ~ Present(start.tree[f])

\* "Restore the user's working tree unconditionally" (recommended-config.py:385):
\* after a run that ends with its trap every file has the version it had.
RestoresEverything ==
  Restoring => \A f \in Files : Present(start.tree[f]) =>
                                  tree[f].version = start.tree[f].version

\* What is committed was staged, and what the hook lists has passed the checks.
CommitsCheckedStaged == CommitsOnlyStaged /\ CommitsWhatPassed

\* The repository and the shell keep their types, and the stash is the hook's own
\* when it is popped.
StashIsOwn == TypeOK /\ PopsCleanly
=============================================================================
