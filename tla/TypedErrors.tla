---------------------------- MODULE TypedErrors ----------------------------
(***************************************************************************)
(* How an error travels (crates/tn-codegen-llvm/src/lib.rs, lower_try of   *)
(* crates/tn-typecheck/src/mir_lower.rs).  `throw` puts the value in an    *)
(* envelope: a pointer to it, and as a tag its type's place in the sorted  *)
(* list of the types the THROWING function declares.  Callers without a    *)
(* `try` hand the envelope on as it is.  A `try` looks the tag up in a     *)
(* list of its own, of every type its block mentions.                      *)
(*                                                                         *)
(* A program is a chain of functions, each called by the next.             *)
(***************************************************************************)
EXTENDS Naturals, SequencesExt

CONSTANTS
    Effects,        \* error types; their numbers are the order of declaration
    ClassTypes,     \* those that are classes: values are pointers; others are put in a box
    BaseOf,         \* the class a class extends, or itself
    ErrorPrograms,  \* the chains of functions of a run
    NoError

ASSUME EffectsAreNumbers == Effects \subseteq Nat /\ ClassTypes \subseteq Effects /\ BaseOf \in [Effects -> Effects]

VARIABLES
    callers,    \* the functions of the chain, the deepest first
    at,         \* the function that runs
    moving,     \* the envelope a completed call returned, or NoError
    binding,    \* the variable of the catch clause that runs, or NoError
    remains,    \* the blocks and contents of the error that nobody freed yet
    broken      \* something was freed or destroyed that was not there

evars == <<callers, at, moving, binding, remains, broken>>

Sorted(effects) == SetToSortSeq(effects, <)
Tag(effects, e) == CHOOSE i \in DOMAIN Sorted(effects) : Sorted(effects)[i] = e

\* What an error of type e consists of, without its envelope.
Payload(e) == IF e \in ClassTypes THEN {"object"} ELSE {"box", "content"}

RECURSIVE Extends(_, _)
Extends(e, c) == e = c \/ (BaseOf[e] # e /\ Extends(BaseOf[e], c))
catch_handles(c, e) == Extends(e, c)

----------------------------------------------------------------------------
\* What the type checker accepts.

\* A call's error types are those its signature declares, an interface's perhaps more than its
\* implementation's; without a `try` the caller declares them all.
record_effects(f) == f.catches = <<>> => f.reaching \subseteq f.declares
\* Every error type that reaches the end of a `try` has a clause, no clause is behind one that handles its type.
try_statement(f) == /\ f.catches # <<>> => \A e \in f.reaching : \E i \in DOMAIN f.catches : catch_handles(f.catches[i], e)
                    /\ \A i, j \in DOMAIN f.catches : i < j => ~catch_handles(f.catches[i], f.catches[j])

WellTyped(p) == \A i \in DOMAIN p :
    /\ record_effects(p[i]) /\ try_statement(p[i]) /\ p[i].reaching \subseteq p[i].mentions
    /\ i > 1 => p[i - 1].declares \subseteq p[i].reaching

----------------------------------------------------------------------------
Accepts == {p \in ErrorPrograms : WellTyped(p)}

ErrorsInit ==
    /\ callers \in Accepts /\ at \in DOMAIN callers
    /\ moving = NoError /\ binding = NoError /\ remains = {} /\ broken = FALSE

Release(blocks) == remains' = remains \ blocks /\ broken' = (broken \/ ~(blocks \subseteq remains))

\* Mutant: the tag counts all types, not only those the function declares.
lower_error_payload_everywhere(e) == [tag |-> Tag(Effects, e), is |-> e]

\* The value of type e leaves function `at` in a new envelope; its caller sees an error completion.
lower_error_payload(e) == [tag |-> Tag(callers[at].declares, e), is |-> e]

Leave == at' = at + 1 /\ UNCHANGED callers

\* A throw outside a catch clause; inside the block of a `try` it leaves the function too.
Throw(e) ==
    /\ moving = NoError /\ binding = NoError /\ e \in callers[at].declares
    /\ moving' = lower_error_payload(e)
    /\ remains' = remains \cup Payload(e) \cup {"envelope"}
    /\ Leave /\ UNCHANGED <<binding, broken>>

\* The function completes with a value.
ReturnNormally ==
    /\ moving = NoError /\ at \in DOMAIN callers /\ binding = NoError
    /\ at' = Len(callers) + 1 /\ UNCHANGED <<callers, moving, binding, remains, broken>>

Arrived == moving # NoError /\ at \in DOMAIN callers
Propagate == Arrived /\ callers[at].catches = <<>> /\ Leave /\ UNCHANGED <<moving, binding, remains, broken>>

\* The clauses the tag selects in the list of the `try`.
Selected(f, tag) ==
    {i \in DOMAIN f.catches : tag \in DOMAIN Sorted(f.mentions) /\ catch_handles(f.catches[i], Sorted(f.mentions)[tag])}

\* The clause takes the value out of the envelope as one of its own type.
lower_error_downcast(as) ==
    /\ binding' = [as |-> as, is |-> moving.is] /\ moving' = NoError
    /\ Release({"envelope"} \cup (Payload(as) \cap {"box"}))
    /\ UNCHANGED <<callers, at>>

\* The first clause selected runs.  Without one the error leaves the function, if it declares
\* every type of the list; if not, the code is not to be reached.
lower_try ==
    /\ Arrived /\ callers[at].catches # <<>>
    /\ LET f == callers[at]
           selected == Selected(f, moving.tag)
       IN IF selected # {} THEN lower_error_downcast(f.catches[Min(selected)])
          ELSE /\ broken' = (broken \/ ~(f.mentions \subseteq f.declares))
               /\ Leave /\ UNCHANGED <<moving, binding, remains>>

\* The clause ends and drops its variable; the function runs on.
EndCatch ==
    /\ binding # NoError /\ Release(Payload(binding.as) \ {"box"})
    /\ binding' = NoError /\ UNCHANGED <<callers, at, moving>>

\* The clause throws its variable, if the function declares the variable's type.
Rethrow ==
    /\ binding # NoError /\ binding.as \in callers[at].declares
    /\ moving' = [lower_error_payload(binding.as) EXCEPT !.is = binding.is]
    /\ remains' = remains \cup {"envelope"} \cup (Payload(binding.as) \cap {"box"})
    /\ binding' = NoError /\ Leave /\ UNCHANGED broken

ErrorsNext ==
    \/ (at \in DOMAIN callers /\ \E e \in Effects : Throw(e))
    \/ ReturnNormally \/ Propagate \/ lower_try \/ EndCatch \/ Rethrow

----------------------------------------------------------------------------
(* A catch clause gets only errors of the type it names, the error that left   *)
(* a function is of a type that function declares, and when the last function  *)
(* has completed without one, everything the error consisted of was freed      *)
(* once (lower_error_payload, lower_try, lower_error_downcast).                *)
CaughtAsThrown ==
    /\ binding # NoError => catch_handles(binding.as, binding.is)
    /\ (moving # NoError /\ at > 1) => \E e \in callers[at - 1].declares : catch_handles(e, moving.is)
    /\ (moving = NoError /\ binding = NoError) => remains = {}
    /\ ~broken
=============================================================================
