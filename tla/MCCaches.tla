------------------------------ MODULE MCCaches ------------------------------
(***************************************************************************)
(* A program of two modules: `main` imports `util` while it holds content   *)
(* 0; `util` is a library of its own.  There is an error in `util`'s second *)
(* content.                                                                 *)
(***************************************************************************)
EXTENDS Caches, TLC

MCImports == [fv \in Files \X Versions |-> IF fv = <<"main", 0>> THEN {"util"} ELSE {}]
MCEntryOf == [s \in Setups |-> IF s = "shared" THEN "util" ELSE "main"]
MCHasCompanion == [s \in Setups |-> s = "shared"]
MCPlaced == [f \in Files |-> "source"]
MCBroken == {<<"util", 1>>}

Symmetric == Permutations(Checkers) \cup Permutations(Inodes)

=============================================================================
