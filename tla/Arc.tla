-------------------------------- MODULE Arc --------------------------------
(***************************************************************************)
(* Shared ownership of one value by Arc<T> and Weak<T> handles            *)
(* (std/alloc.tn over runtime/runtime.tn, arcAlloc .. arcReleaseWeak).     *)
(*                                                                         *)
(* A header in front of the value keeps two usize counters.  Every         *)
(* runtime function is a loop "load the counter; test it; compare-exchange *)
(* it", so other threads act between the load and the exchange; the model  *)
(* has one step per atomic operation.  A handle is an object of the        *)
(* program owned by one thread at a time; it can be moved to another       *)
(* thread.  MaxCount stands for ~0usize.  Memory orders are not modelled:  *)
(* atomic operations are sequentially consistent here.                     *)
(***************************************************************************)
EXTENDS Integers, FiniteSets

CONSTANTS Sharers,    \* threads of the program
          Handles,    \* identities of Arc and Weak objects
          MaxCount,   \* the largest usize
          NoHandle

ASSUME ArcConstants == /\ MaxCount \in Nat \ {0, 1}
                       /\ NoHandle \notin Handles

VARIABLES block,    \* the allocation: "none", "live" or "freed"
          value,    \* the payload: "none", "stored" or "dropped"
          strong,   \* ArcHeader.strong
          weak,     \* ArcHeader.weak
          arcs,     \* Arc objects whose reference is still counted
          weaks,    \* Weak objects whose reference is still counted
          implicit, \* the weak reference the strong side holds together
          holder,   \* the thread that owns each object
          doing,    \* where each thread is inside a runtime function
          using,    \* the object each thread's call works on
          current,  \* the local `current` of that call
          aborted   \* tn_runtime_abort or a failed guard ended the process

avars == <<block, value, strong, weak, arcs, weaks, implicit, holder, doing,
           using, current, aborted>>

Steps == {"idle", "retain", "retain_cas", "release", "release_cas",
          "drop_value", "destroy", "destroy_cas", "downgrade",
          "downgrade_load", "downgrade_cas", "upgrade", "upgrade_cas",
          "release_weak", "release_weak_cas", "free"}

ArcTypeOK ==
    /\ block \in {"none", "live", "freed"}
    /\ value \in {"none", "stored", "dropped"}
    /\ strong \in 0 .. MaxCount
    /\ weak \in 0 .. MaxCount
    /\ arcs \in SUBSET Handles
    /\ weaks \in SUBSET Handles
    /\ implicit \in BOOLEAN
    /\ holder \in [Handles -> Sharers]
    /\ doing \in [Sharers -> Steps]
    /\ using \in [Sharers -> Handles \cup {NoHandle}]
    /\ current \in [Sharers -> 0 .. MaxCount]
    /\ aborted \in BOOLEAN

ArcInit ==
    /\ block = "none"
    /\ value = "none"
    /\ strong = 0
    /\ weak = 0
    /\ arcs = {}
    /\ weaks = {}
    /\ implicit = FALSE
    /\ holder \in [Handles -> Sharers]
    /\ doing = [t \in Sharers |-> "idle"]
    /\ using = [t \in Sharers |-> NoHandle]
    /\ current = [t \in Sharers |-> 0]
    /\ aborted = FALSE

-----------------------------------------------------------------------------
(* Bookkeeping of a thread's call. *)

InStep(t, step) == ~aborted /\ doing[t] = step

Fresh == Handles \ (arcs \cup weaks)

Advance(t, step) == doing' = [doing EXCEPT ![t] = step]

Begin(t, h, step) ==
    /\ InStep(t, "idle")
    /\ holder[h] = t
    /\ Advance(t, step)
    /\ using' = [using EXCEPT ![t] = h]
    /\ UNCHANGED <<block, value, strong, weak, arcs, weaks, implicit, holder,
                   current, aborted>>

Return(t) ==
    /\ Advance(t, "idle")
    /\ using' = [using EXCEPT ![t] = NoHandle]

\* `current = atomicUsizeLoad(counter)` and on to the test and the exchange.
Load(t, counter, step) ==
    /\ current' = [current EXCEPT ![t] = counter]
    /\ Advance(t, step)
    /\ UNCHANGED <<block, value, strong, weak, arcs, weaks, implicit, holder,
                   using, aborted>>

Unshared == UNCHANGED <<block, value, implicit, current>>

-----------------------------------------------------------------------------
(* Arc.constructor and arcAlloc: header {strong: 1, weak: 1}, value stored; *)
(* a failed allocation aborts.                                              *)
Construct(t, h) ==
    /\ block = "none"
    /\ InStep(t, "idle")
    /\ block' = "live"
    /\ value' = "stored"
    /\ strong' = 1
    /\ weak' = 1
    /\ arcs' = {h}
    /\ implicit' = TRUE
    /\ holder' = [holder EXCEPT ![h] = t]
    /\ UNCHANGED <<weaks, doing, using, current, aborted>>

ConstructFails(t) ==
    /\ block = "none"
    /\ InStep(t, "idle")
    /\ aborted' = TRUE
    /\ UNCHANGED <<block, value, strong, weak, arcs, weaks, implicit, holder,
                   doing, using, current>>

(* A handle moves to another thread (captured by a closure, sent on a       *)
(* channel); the giving thread is not inside a call that works on it.       *)
Give(t, u, h) ==
    /\ InStep(t, "idle")
    /\ h \in arcs \cup weaks
    /\ holder[h] = t
    /\ holder' = [holder EXCEPT ![h] = u]
    /\ UNCHANGED <<block, value, strong, weak, arcs, weaks, implicit, doing,
                   using, current, aborted>>

-----------------------------------------------------------------------------
(* Arc.clone: arcRetain, then a guard against a null result. *)
CloneBegin(t, h) == h \in arcs /\ Begin(t, h, "retain")

RetainLoad(t) == InStep(t, "retain") /\ Load(t, strong, "retain_cas")

\* 0 or ~0: arcRetain returns null and the guard of Arc.clone stops the program.
RetainRefused(t) ==
    /\ InStep(t, "retain_cas")
    /\ current[t] \in {0, MaxCount}
    /\ aborted' = TRUE
    /\ Return(t)
    /\ Unshared
    /\ UNCHANGED <<strong, weak, arcs, weaks, holder>>

RetainCas(t, h) ==
    /\ InStep(t, "retain_cas")
    /\ current[t] \notin {0, MaxCount}
    /\ strong = current[t]
    /\ h \in Fresh
    /\ strong' = current[t] + 1
    /\ arcs' = arcs \cup {h}
    /\ holder' = [holder EXCEPT ![h] = t]
    /\ Return(t)
    /\ Unshared
    /\ UNCHANGED <<weak, weaks, aborted>>

\* A failed exchange loads again.
CasFails(t, step, counter, reload) ==
    /\ InStep(t, step)
    /\ counter # current[t]
    /\ Advance(t, reload)
    /\ Unshared
    /\ UNCHANGED <<strong, weak, arcs, weaks, holder, using, aborted>>

RetainRetry(t) ==
    /\ current[t] \notin {0, MaxCount}
    /\ CasFails(t, "retain_cas", strong, "retain")

-----------------------------------------------------------------------------
(* Arc[Symbol.dispose]: arcRelease; the thread that took the count to 0     *)
(* drops the value and gives up the strong side's weak reference.           *)
DisposeBegin(t, h) == h \in arcs /\ Begin(t, h, "release")

ReleaseLoad(t) == InStep(t, "release") /\ Load(t, strong, "release_cas")

\* Mutant: the result tests the old count instead of `next`.
ReleaseCasTestsOld(t) ==
    /\ InStep(t, "release_cas")
    /\ current[t] \in {0, strong}
    /\ strong' = IF current[t] = 0 THEN strong ELSE current[t] - 1
    /\ arcs' = arcs \ {using[t]}
    /\ Advance(t, IF current[t] = 0 THEN "drop_value" ELSE "idle")
    /\ using' = [using EXCEPT ![t] = NoHandle]
    /\ Unshared
    /\ UNCHANGED <<weak, weaks, holder, aborted>>

\* A count of 0 makes arcRelease return 0 with nothing dropped.
ReleaseCas(t) ==
    /\ InStep(t, "release_cas")
    /\ current[t] \in {0, strong}
    /\ strong' = IF current[t] = 0 THEN strong ELSE current[t] - 1
    /\ arcs' = arcs \ {using[t]}
    /\ Advance(t, IF current[t] = 1 THEN "drop_value" ELSE "idle")
    /\ using' = [using EXCEPT ![t] = NoHandle]
    /\ Unshared
    /\ UNCHANGED <<weak, weaks, holder, aborted>>

ReleaseRetry(t) ==
    /\ current[t] # 0
    /\ CasFails(t, "release_cas", strong, "release")

\* dropValue<T>: the destructor of the payload.
DropValue(t) ==
    /\ InStep(t, "drop_value")
    /\ value' = "dropped"
    /\ Advance(t, "destroy")
    /\ UNCHANGED <<block, strong, weak, arcs, weaks, implicit, holder, using,
                   current, aborted>>

-----------------------------------------------------------------------------
(* arcReleaseWeak, called by arcDestroy ("destroy" steps: the strong side's *)
(* weak reference) and by Weak[Symbol.dispose] ("release_weak" steps).      *)
WeakDisposeBegin(t, h) == h \in weaks /\ Begin(t, h, "release_weak")

ReleaseWeakLoad(t) ==
    \/ InStep(t, "destroy") /\ Load(t, weak, "destroy_cas")
    \/ InStep(t, "release_weak") /\ Load(t, weak, "release_weak_cas")

\* A count of 0 makes arcReleaseWeak return 0 with nothing freed.
ReleaseWeakCas(t) ==
    /\ InStep(t, "destroy_cas") \/ InStep(t, "release_weak_cas")
    /\ current[t] \in {0, weak}
    /\ weak' = IF current[t] = 0 THEN weak ELSE current[t] - 1
    /\ implicit' = (implicit /\ doing[t] # "destroy_cas")
    /\ weaks' = weaks \ {using[t]}
    /\ Advance(t, IF current[t] = 1 THEN "free" ELSE "idle")
    /\ using' = [using EXCEPT ![t] = NoHandle]
    /\ UNCHANGED <<block, value, strong, arcs, holder, current, aborted>>

ReleaseWeakRetry(t) ==
    /\ current[t] # 0
    /\ \/ CasFails(t, "destroy_cas", weak, "destroy")
       \/ CasFails(t, "release_weak_cas", weak, "release_weak")

Free(t) ==
    /\ InStep(t, "free")
    /\ block' = "freed"
    /\ Advance(t, "idle")
    /\ UNCHANGED <<value, strong, weak, arcs, weaks, implicit, holder, using,
                   current, aborted>>

-----------------------------------------------------------------------------
(* Arc.downgrade: arcDowngrade, whose null result aborts. *)
DowngradeBegin(t, h) == h \in arcs /\ Begin(t, h, "downgrade")

\* The test of `strong` comes before the loop on `weak`.
DowngradeCheck(t) ==
    /\ InStep(t, "downgrade")
    /\ aborted' = (strong = 0)
    /\ Advance(t, "downgrade_load")
    /\ Unshared
    /\ UNCHANGED <<strong, weak, arcs, weaks, holder, using>>

DowngradeLoad(t) == InStep(t, "downgrade_load") /\ Load(t, weak, "downgrade_cas")

DowngradeRefused(t) ==
    /\ InStep(t, "downgrade_cas")
    /\ current[t] = MaxCount
    /\ aborted' = TRUE
    /\ Return(t)
    /\ Unshared
    /\ UNCHANGED <<strong, weak, arcs, weaks, holder>>

DowngradeCas(t, h) ==
    /\ InStep(t, "downgrade_cas")
    /\ current[t] # MaxCount
    /\ weak = current[t]
    /\ h \in Fresh
    /\ weak' = current[t] + 1
    /\ weaks' = weaks \cup {h}
    /\ holder' = [holder EXCEPT ![h] = t]
    /\ Return(t)
    /\ Unshared
    /\ UNCHANGED <<strong, arcs, aborted>>

DowngradeRetry(t) ==
    /\ current[t] # MaxCount
    /\ CasFails(t, "downgrade_cas", weak, "downgrade_load")

-----------------------------------------------------------------------------
(* Weak.upgrade: arcUpgrade; a null result becomes `undefined`. *)
UpgradeBegin(t, h) == h \in weaks /\ Begin(t, h, "upgrade")

UpgradeLoad(t) == InStep(t, "upgrade") /\ Load(t, strong, "upgrade_cas")

UpgradeUndefined(t) ==
    /\ InStep(t, "upgrade_cas")
    /\ current[t] \in {0, MaxCount}
    /\ Return(t)
    /\ Unshared
    /\ UNCHANGED <<strong, weak, arcs, weaks, holder, aborted>>

\* Mutant: a count of 0 is no reason to refuse.
UpgradeCasFromZero(t, h) ==
    /\ InStep(t, "upgrade_cas")
    /\ current[t] # MaxCount
    /\ strong = current[t]
    /\ h \in Fresh
    /\ strong' = current[t] + 1
    /\ arcs' = arcs \cup {h}
    /\ holder' = [holder EXCEPT ![h] = t]
    /\ Return(t)
    /\ Unshared
    /\ UNCHANGED <<weak, weaks, aborted>>

\* Mutant: a plain store instead of a compare-exchange.
UpgradeCasStores(t, h) ==
    /\ InStep(t, "upgrade_cas")
    /\ current[t] \notin {0, MaxCount}
    /\ h \in Fresh
    /\ strong' = current[t] + 1
    /\ arcs' = arcs \cup {h}
    /\ holder' = [holder EXCEPT ![h] = t]
    /\ Return(t)
    /\ Unshared
    /\ UNCHANGED <<weak, weaks, aborted>>

UpgradeCas(t, h) ==
    /\ InStep(t, "upgrade_cas")
    /\ current[t] \notin {0, MaxCount}
    /\ strong = current[t]
    /\ h \in Fresh
    /\ strong' = current[t] + 1
    /\ arcs' = arcs \cup {h}
    /\ holder' = [holder EXCEPT ![h] = t]
    /\ Return(t)
    /\ Unshared
    /\ UNCHANGED <<weak, weaks, aborted>>

UpgradeRetry(t) ==
    /\ current[t] \notin {0, MaxCount}
    /\ CasFails(t, "upgrade_cas", strong, "upgrade")

-----------------------------------------------------------------------------
\* A step of the call the thread is in.
CallStep(t) ==
    \/ RetainLoad(t) \/ RetainRefused(t) \/ RetainRetry(t)
    \/ \E h \in Handles : RetainCas(t, h)
    \/ ReleaseLoad(t) \/ ReleaseCas(t) \/ ReleaseRetry(t) \/ DropValue(t)
    \/ ReleaseWeakLoad(t) \/ ReleaseWeakCas(t) \/ ReleaseWeakRetry(t) \/ Free(t)
    \/ DowngradeCheck(t) \/ DowngradeLoad(t) \/ DowngradeRefused(t)
    \/ DowngradeRetry(t)
    \/ \E h \in Handles : DowngradeCas(t, h)
    \/ UpgradeLoad(t) \/ UpgradeUndefined(t) \/ UpgradeRetry(t)
    \/ \E h \in Handles : UpgradeCas(t, h)

\* A new call, a move or the construction.
ProgramStep(t) ==
    \/ ConstructFails(t)
    \/ \E h \in Handles :
          \/ Construct(t, h)
          \/ CloneBegin(t, h) \/ DisposeBegin(t, h) \/ DowngradeBegin(t, h)
          \/ UpgradeBegin(t, h) \/ WeakDisposeBegin(t, h)
          \/ \E u \in Sharers : Give(t, u, h)

ArcNext == \E t \in Sharers : CallStep(t) \/ ProgramStep(t)

ArcSpec == ArcInit /\ [][ArcNext]_avars

\* A thread inside a runtime function keeps running.
Fairness == \A t \in Sharers : WF_avars(CallStep(t))

FairArc == ArcSpec /\ Fairness

-----------------------------------------------------------------------------
\* Threads that took the strong count to 0 and still own the strong side.
Dropping == {t \in Sharers : doing[t] \in {"drop_value", "destroy", "destroy_cas"}}

\* The counters count exactly the references that exist: the arithmetic of
\* arcRetain, arcRelease, arcDowngrade, arcUpgrade and arcReleaseWeak loses
\* no update to a concurrent one.
CountsMatchHandles ==
    /\ strong = Cardinality(arcs)
    /\ weak = Cardinality(weaks) + (IF implicit THEN 1 ELSE 0)

\* The value exists as long as some Arc object does, whoever upgrades,
\* clones and disposes meanwhile (Arc.get may borrow it at any time).
ValueLivesWhileShared == arcs # {} => value = "stored"

\* The header is never touched after arcReleaseWeak freed it: every thread
\* inside a runtime function, and every handle a later call may use, still
\* has a live block behind it.  And when no handle is left and no call is
\* running, the value has been dropped and the block freed: the last of
\* concurrent disposals cleans up.
FreedAtLast ==
    LET used == arcs \cup weaks # {} \/ \E t \in Sharers : doing[t] # "idle"
    IN  /\ used => block = "live"
        /\ block # "none" /\ ~used => value = "dropped" /\ block = "freed"

\* The value is dropped at most once, by one thread, before the block is
\* freed, and a block is freed at most once.
CleanupOnce ==
    [][/\ value' # value => /\ <<value, value'>> \in
                                 {<<"none", "stored">>, <<"stored", "dropped">>}
                            /\ value' = "dropped" => block = "live" /\ arcs = {}
       /\ block' # block => /\ <<block, block'>> \in
                                 {<<"none", "live">>, <<"live", "freed">>}
                            /\ block' = "freed" => value = "dropped"]_avars

\* Once the last Arc object is gone the destructor does run, although
\* threads keep calling Weak.upgrade.
DroppedAtLast ==
    (block = "live" /\ arcs = {}) ~> (value = "dropped" \/ aborted)

-----------------------------------------------------------------------------
(* The inductive invariant behind the four safety invariants above. *)

OnArc == {"retain", "retain_cas", "release", "release_cas", "downgrade",
          "downgrade_load", "downgrade_cas"}
OnWeak == {"upgrade", "upgrade_cas", "release_weak", "release_weak_cas"}
OnNothing == {"idle", "drop_value", "destroy", "destroy_cas", "free"}

\* A running call works on an object its thread owns, still counted.
CallsOwnTheirHandle ==
    \A t \in Sharers :
        /\ doing[t] \in OnArc => using[t] \in arcs /\ holder[using[t]] = t
        /\ doing[t] \in OnWeak => using[t] \in weaks /\ holder[using[t]] = t
        /\ doing[t] \in OnNothing => using[t] = NoHandle

\* What a release loaded was not 0: its own reference was counted.
ReleasesSawACount ==
    \A t \in Sharers :
        doing[t] \in {"release_cas", "release_weak_cas", "destroy_cas"}
            => current[t] # 0

\* The strong side's weak reference passes from the Arc objects together to
\* the one thread that took the strong count to 0.
OneStrongSide ==
    /\ arcs # {} => implicit /\ Dropping = {}
    /\ Dropping # {} => implicit
    /\ implicit => arcs # {} \/ Dropping # {}
    /\ \A t, u \in Dropping : t = u

ValuePhase ==
    /\ arcs # {} => value = "stored"
    /\ \A t \in Sharers : doing[t] = "drop_value" => value = "stored"
    /\ \A t \in Sharers : doing[t] \in {"destroy", "destroy_cas"} => value = "dropped"
    /\ ~implicit /\ block # "none" => value = "dropped"

BlockPhase ==
    /\ arcs \cup weaks # {} \/ implicit => block = "live"
    /\ \A t \in Sharers : doing[t] = "free" =>
          block = "live" /\ weaks = {} /\ ~implicit
    /\ \A t, u \in Sharers : doing[t] = "free" /\ doing[u] = "free" => t = u
    /\ block = "live" => implicit \/ weaks # {} \/ \E t \in Sharers : doing[t] = "free"
    /\ block = "none" => value = "none"

IInv ==
    /\ ArcTypeOK
    /\ IsFiniteSet(arcs) /\ IsFiniteSet(weaks) /\ arcs \cap weaks = {}
    /\ CountsMatchHandles
    /\ CallsOwnTheirHandle
    /\ ReleasesSawACount
    /\ OneStrongSide
    /\ ValuePhase
    /\ BlockPhase
=============================================================================
