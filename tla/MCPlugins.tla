----------------------------- MODULE MCPlugins -----------------------------
(* Small instances of Plugins for TLC. *)
EXTENDS Plugins, TLC

CONSTANTS f1, f2, v1, v2, v3

(* v1 writes both files, v2 only the first; v3 asks for a project path.      *)
MCConfigPaths == (v1 :> <<f1, f2>>) @@ (v2 :> <<f1>>) @@ (v3 :> <<f2>>)
MCConfig(v) == <<"config", v>>
=============================================================================
