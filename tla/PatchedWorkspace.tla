-------------------------- MODULE PatchedWorkspace --------------------------
(***************************************************************************)
(* What applying patches to a workspace promises: the workspace only moves *)
(* by whole patches.  A patch that is taken changes every file it names at *)
(* once, from a content it fits; a patch that is refused changes nothing.  *)
(* A file may be lost to this promise (a crash in the middle of a patch,   *)
(* two patches of the file at the same time), and is Unknown from then on. *)
(***************************************************************************)
CONSTANTS File, Patch, Unknown,
          PathsOf(_),       \* the files a patch names
          Patched(_, _, _)  \* what a patch makes of the content of a file

VARIABLE content   \* [File -> contents \cup {Unknown}]

Known(S) == {f \in S : content[f] # Unknown}

Take(p) ==
  content' = [f \in File |-> IF f \in Known(PathsOf(p)) THEN Patched(p, f, content[f])
                                                        ELSE content[f]]

Lose(S) == content' = [f \in File |-> IF f \in S THEN Unknown ELSE content[f]]

Next == (\E p \in Patch : Take(p)) \/ (\E S \in SUBSET File : Lose(S))
=============================================================================
