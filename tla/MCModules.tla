----------------------------- MODULE MCModules ------------------------------
(* Instances of Modules for TLC. *)
EXTENDS Modules

CONSTANTS builtin, shell, python, user, broken, console, web

\* builtinreqs, two shells, a module whose first copies along module_paths
\* cannot be loaded, and a file that is no library, with a copy in the working
\* directory.
MCDefaults == <<builtin, shell>>
MCKind == [m \in Mods |->
  CASE m = shell -> "shell" [] m = python -> "python" [] OTHER -> "command"]
MCCommands == [m \in Mods |->
  CASE m = builtin -> {"load", "unload"} [] m = shell -> {"scm"} [] m = python -> {"py"}
    [] m = user -> {"cook"} [] OTHER -> {}]
MCCopies == [m \in Mods |->
  CASE m = user -> <<"nosym", "good">>
    [] m = broken -> <<"nolib", "relative">> [] OTHER -> <<"good">>]
MCNames == {"load", "unload", "scm", "py", "cook"}

ASSUME DisjointInstance == DisjointCommands
=============================================================================
