----------------------------- MODULE SourceTree -----------------------------
(***************************************************************************)
(* The source files of a project as the compiler finds them: what each     *)
(* holds, an editor that changes them, and the loading of a module graph   *)
(* (tn-hir, load_module_graph_with_jsx_runtime).  The two caches of the    *)
(* driver, CheckCache and BuildCache, stand over it.                       *)
(***************************************************************************)
EXTENDS Integers

CONSTANTS Files,        \* the files a module specifier may resolve to
          Prelude,      \* those every graph has: std/string and std/collections
          MaxVersion,   \* contents a file takes: 0 .. MaxVersion
          Imports,      \* Imports[<<f, v>>]: what f imports when it holds v
          Setups,       \* roots, entries and configurations a command is given
          EntryOf,      \* the entry file of each
          Placed,       \* how a file is reached from the root of the sources
          Undo          \* may a file go back to what it held before?

Versions == 0 .. MaxVersion

ASSUME TreeConstants ==
    /\ MaxVersion \in Nat
    /\ Prelude \subseteq Files
    /\ Imports \in [Files \X Versions -> SUBSET Files]
    /\ EntryOf \in [Setups -> Files]
    /\ Placed \in [Files -> {"source", "symlink", "skipped"}]
    /\ Undo \subseteq BOOLEAN /\ Undo # {}

VARIABLES versions,   \* what each file holds
          undoing     \* is this a run in which contents come back? (never changes)

tree == <<versions, undoing>>

Unread == [f \in {} |-> 0]

\* What is known of one more file.
With(known, f, v) == [g \in DOMAIN known \cup {f} |-> IF g = f THEN v ELSE known[g]]

TreeInit == versions = [f \in Files |-> 0] /\ undoing \in Undo

\* A save in an editor.
Save(f, v) ==
    /\ v # versions[f] /\ (undoing \/ v > versions[f])
    /\ versions' = [versions EXCEPT ![f] = v]
    /\ UNCHANGED undoing

\* The files a graph is loaded from first, and those that are left after one
\* more is read.
Roots(s) == {EntryOf[s]} \cup Prelude
Discovered(loaded, pending, f) ==
    (pending \cup Imports[<<f, versions[f]>>]) \ (DOMAIN loaded \cup {f})

\* Has all of a graph been loaded?
Closed(s, loaded) ==
    /\ Roots(s) \subseteq DOMAIN loaded
    /\ \A f \in DOMAIN loaded : Imports[<<f, loaded[f]>>] \subseteq DOMAIN loaded

=============================================================================
