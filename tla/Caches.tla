------------------------------- MODULE Caches -------------------------------
(***************************************************************************)
(* Checks and builds of one project over the same files.  Their caches are *)
(* files of their own, and neither command writes sources: what one of them *)
(* does cannot show in the other, and each behaviour has one kind only.     *)
(***************************************************************************)
EXTENDS CheckCache, BuildCache

VARIABLE command   \* the kind of this behaviour (never changes)

vars == <<tree, checking, directory, job, output, command>>

Init == CheckInit /\ BuildInit /\ command \in {"check", "build"}

Checking ==
    /\ command = "check"
    /\ \E c \in Checkers : CheckStep(c)
    /\ UNCHANGED <<job, output, command>>

Building ==
    /\ command = "build"
    /\ BuildStep \/ Meddle
    /\ UNCHANGED <<checking, directory, command>>

Editing ==
    /\ \E f \in Files, v \in Versions : EditSources(f, v) /\ EditBetweenBuilds(f, v)
    /\ UNCHANGED command

Next == Checking \/ Building \/ Editing

Spec == Init /\ [][Next]_vars

=============================================================================
