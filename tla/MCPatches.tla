----------------------------- MODULE MCPatches -----------------------------
(* Small instances of Patches for TLC. *)
EXTENDS Patches, TLC

CONSTANTS f1, f2, f3, pBoth, pLine, pWrong, pEscape

(* Two files of two lines that start as a, a; f3 does not exist.             *)
MCContent == {<<>>} \cup {<<x, y>> : x, y \in {"a", "b"}}
MCInitialFile == [f \in File |-> IF f = f3 THEN Absent ELSE <<"a", "a">>]

Minus(x) == [mark |-> "-", text |-> x]
Plus(x) == [mark |-> "+", text |-> x]
Keep(x) == [mark |-> " ", text |-> x]
Change(f, n) == [path |-> f, hunks |-> <<[start |-> n, body |-> <<Minus("a"), Plus("b")>>]>>]

(* pBoth changes both files, pLine another line of f1, pWrong a line of f2   *)
(* although its proposal names f1, pEscape a file and then a path outside.   *)
MCDiffOf ==
  (pBoth   :> <<Change(f1, 1), Change(f2, 1)>>) @@
  (pLine   :> <<[path |-> f1, hunks |-> <<[start |-> 1, body |-> <<Keep("a"), Minus("a"), Plus("b")>>]>>]>>) @@
  (pWrong  :> <<Change(f2, 2)>>) @@
  (pEscape :> <<Change(f1, 1), Change(Outside, 1)>>)
MCDeclared == (pBoth :> <<f2, f1>>) @@ (pLine :> <<f1>>) @@ (pWrong :> <<f1>>) @@ (pEscape :> <<f1>>)

MCScope == {File, {f1}}
MCSmallHunk ==
  [start : {0}, body : {<<Plus("b")>>}] \cup
  [start : 1..3, body : {<<l>> : l \in [mark : {" ", "-"}, text : {"a", "b"}]}
                        \cup {<<Minus(x), Plus(y)>> : x, y \in {"a", "b"}}
                        \cup {<<Plus(x), Keep(y), Minus(x)>> : x, y \in {"a", "b"}}
                        \cup {<<Keep("a"), [mark |-> "d", text |-> "b"]>>}]
Symmetry == Permutations(Worker)
=============================================================================
