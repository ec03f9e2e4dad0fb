--------------------------- MODULE MCPreCommitHook ---------------------------
(***************************************************************************)
(* PreCommitHook over the ways in which four files can be staged, changed, *)
(* added and deleted.                                                      *)
(***************************************************************************)
EXTENDS PreCommitHook

MCFiles == {"lib.rs", "util.rs", "Cargo.toml", "Cargo.lock"}
MCRust  == {"lib.rs", "util.rs"}

\* The versions of a file in the commit, the index and the working tree.
Clean    == <<"head", "head", "head">>
Edited   == <<"head", "head", "work">>
Deleted  == <<"head", "head", "absent">>
Staged   == <<"head", "staged", "staged">>
New      == <<"absent", "staged", "staged">>
Erased   == <<"head", "absent", "absent">>
Partial  == <<"head", "staged", "work">>
Gone     == <<"absent", "staged", "absent">>
Untrack  == <<"absent", "absent", "work">>
Missing  == <<"absent", "absent", "absent">>

\* lib.rs may be util.rs under a new name, also together with a staged manifest.
Kinds == [lib: {Staged, New, Edited, Partial, Erased, Gone},
          util: {Clean, Edited, Deleted, Staged, Partial, Untrack, Erased},
          toml: {Clean, Staged}, lock: {Missing, Untrack, Clean}]

StartOf(k) ==
  LET Kind(f) == CASE f = "lib.rs" -> k.lib [] f = "util.rs" -> k.util
                   [] f = "Cargo.toml" -> k.toml [] f = "Cargo.lock" -> k.lock
      Column(i) == [f \in MCFiles |-> Of(Kind(f)[i])]
  IN  [head |-> Column(1), index |-> Column(2), tree |-> Column(3)]

MCStarts == {StartOf(k) : k \in Kinds}

\* Nothing untracked is in the way, and the lock file is committed.
MCTrackedStarts == {StartOf(k) : k \in {j \in Kinds : j.lock = Clean /\ j.util # Untrack}}
=============================================================================
