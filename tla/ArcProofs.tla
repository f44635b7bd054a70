----------------------------- MODULE ArcProofs -----------------------------
(* Proofs about Arc: the counters, the value and the block of a shared      *)
(* allocation, for any set of threads, any set of handles and any MaxCount. *)
EXTENDS Arc, FiniteSetTheorems, TLAPS

\* How a set of counted references and its size change together.
LEMMA CountAdd ==
    ASSUME NEW S, IsFiniteSet(S), NEW h, h \notin S
    PROVE  /\ IsFiniteSet(S \cup {h})
           /\ Cardinality(S) \in Nat
           /\ Cardinality(S \cup {h}) = Cardinality(S) + 1
  BY FS_AddElement, FS_CardinalityType

\* Removing a reference lowers the count by one, to 0 only for the last one.
LEMMA CountRemove ==
    ASSUME NEW S, IsFiniteSet(S), NEW h, h \in S
    PROVE  /\ IsFiniteSet(S \ {h})
           /\ Cardinality(S) \in Nat \ {0}
           /\ Cardinality(S \ {h}) = Cardinality(S) - 1
           /\ (Cardinality(S) = 1) <=> (S \ {h} = {})
  <1>1. IsFiniteSet(S \ {h}) /\ Cardinality(S \ {h}) = Cardinality(S) - 1
    BY FS_RemoveElement
  <1>2. Cardinality(S) \in Nat /\ Cardinality(S \ {h}) \in Nat
    BY <1>1, FS_CardinalityType
  <1>3. (Cardinality(S \ {h}) = 0) <=> (S \ {h} = {})
    BY <1>1, FS_EmptySet
  <1> QED
    BY <1>1, <1>2, <1>3

\* The initial state, before arcAlloc, satisfies the inductive invariant.
LEMMA InitInv == ArcInit => IInv
  <1> SUFFICES ASSUME ArcInit PROVE IInv
    OBVIOUS
  <1>1. IsFiniteSet({}) /\ Cardinality({}) = 0
    BY FS_EmptySet
  <1>0. 0 \in 0 .. MaxCount
    BY ArcConstants
  <1>2. ArcTypeOK
    BY <1>0 DEF ArcInit, ArcTypeOK, Steps
  <1>3. CountsMatchHandles
    BY <1>1 DEF ArcInit, CountsMatchHandles
  <1>4. CallsOwnTheirHandle /\ ReleasesSawACount
    BY DEF ArcInit, CallsOwnTheirHandle, ReleasesSawACount, OnArc, OnWeak, OnNothing
  <1>5. OneStrongSide /\ ValuePhase /\ BlockPhase
    BY DEF ArcInit, OneStrongSide, ValuePhase, BlockPhase, Dropping
  <1> QED
    BY <1>1, <1>2, <1>3, <1>4, <1>5 DEF IInv, ArcInit

\* Entering a runtime function leaves the allocation as it is.
LEMMA BeginInv ==
    ASSUME IInv, NEW t \in Sharers, NEW h \in Handles, NEW step \in Steps,
           Begin(t, h, step),
           \/ h \in arcs /\ step \in {"retain", "release", "downgrade"}
           \/ h \in weaks /\ step \in {"upgrade", "release_weak"}
    PROVE  IInv'
  <1> USE DEF InStep, Begin, Advance
  <1>1. ArcTypeOK'
    BY DEF IInv, ArcTypeOK
  <1>2. CountsMatchHandles'
    BY DEF IInv, CountsMatchHandles
  <1>3. CallsOwnTheirHandle' /\ ReleasesSawACount'
    BY DEF IInv, ArcTypeOK, CallsOwnTheirHandle, ReleasesSawACount, OnArc, OnWeak, OnNothing
  <1>4. Dropping' = Dropping
    BY DEF IInv, ArcTypeOK, Dropping
  <1>5. OneStrongSide' /\ ValuePhase' /\ BlockPhase'
    BY <1>4 DEF IInv, ArcTypeOK, OneStrongSide, ValuePhase, BlockPhase
  <1> QED
    BY <1>1, <1>2, <1>3, <1>5 DEF IInv

\* Loading a counter and retrying after a failed exchange.
LEMMA LoadInv ==
    ASSUME IInv, NEW t \in Sharers, 
           \/ RetainLoad(t) \/ ReleaseLoad(t) \/ ReleaseWeakLoad(t)
           \/ DowngradeLoad(t) \/ UpgradeLoad(t)
    PROVE  IInv'
  <1> USE DEF InStep, RetainLoad, ReleaseLoad, ReleaseWeakLoad, DowngradeLoad, UpgradeLoad, Load, Advance
  <1>a. /\ doing[t] = "release" => strong # 0
        /\ doing[t] \in {"release_weak", "destroy"} => weak # 0
    <2>1. doing[t] = "release" => using[t] \in arcs
      BY DEF IInv, CallsOwnTheirHandle, OnArc
    <2>2. doing[t] = "release_weak" => using[t] \in weaks
      BY DEF IInv, CallsOwnTheirHandle, OnWeak
    <2>3. doing[t] = "destroy" => implicit
      BY DEF IInv, OneStrongSide, Dropping
    <2>4. Cardinality(weaks) \in Nat
      BY FS_CardinalityType DEF IInv
    <2>5. /\ using[t] \in arcs => Cardinality(arcs) # 0
          /\ using[t] \in weaks => Cardinality(weaks) # 0
      BY FS_EmptySet DEF IInv
    <2> QED
      BY <2>1, <2>2, <2>3, <2>4, <2>5 DEF IInv, CountsMatchHandles
  <1>1. ArcTypeOK'
    BY <1>a, ArcConstants DEF IInv, ArcTypeOK, Steps
  <1>2. CountsMatchHandles' /\ IsFiniteSet(arcs') /\ IsFiniteSet(weaks')
        /\ arcs' \cap weaks' = {}
    BY DEF IInv, ArcTypeOK, CountsMatchHandles
  <1>3. CallsOwnTheirHandle' /\ ReleasesSawACount'
    BY <1>a DEF IInv, ArcTypeOK, CountsMatchHandles, CallsOwnTheirHandle, ReleasesSawACount, OnArc, OnWeak, OnNothing
  <1>4. Dropping' = Dropping
    BY DEF IInv, ArcTypeOK, Dropping
  <1>5. OneStrongSide' /\ ValuePhase' /\ BlockPhase'
    BY <1>4 DEF IInv, ArcTypeOK, OneStrongSide, ValuePhase, BlockPhase
  <1> QED
    BY <1>1, <1>2, <1>3, <1>5 DEF IInv

\* A failed exchange only sends its thread back to the load.
LEMMA RetryInv ==
    ASSUME IInv, NEW t \in Sharers, 
           \/ RetainRetry(t) \/ ReleaseRetry(t) \/ ReleaseWeakRetry(t)
           \/ DowngradeRetry(t) \/ UpgradeRetry(t)
    PROVE  IInv'
  <1> USE DEF InStep, RetainRetry, ReleaseRetry, ReleaseWeakRetry, DowngradeRetry, UpgradeRetry, CasFails, Unshared, Advance
  <1>1. ArcTypeOK'
    BY DEF IInv, ArcTypeOK, Steps
  <1>2. CountsMatchHandles' /\ IsFiniteSet(arcs') /\ IsFiniteSet(weaks')
        /\ arcs' \cap weaks' = {}
    BY DEF IInv, ArcTypeOK, CountsMatchHandles
  <1>3. CallsOwnTheirHandle' /\ ReleasesSawACount'
    BY DEF IInv, ArcTypeOK, CountsMatchHandles, CallsOwnTheirHandle, ReleasesSawACount, OnArc, OnWeak, OnNothing
  <1>4. Dropping' = Dropping
    BY DEF IInv, ArcTypeOK, Dropping
  <1>5. OneStrongSide' /\ ValuePhase' /\ BlockPhase'
    BY <1>4 DEF IInv, ArcTypeOK, OneStrongSide, ValuePhase, BlockPhase
  <1> QED
    BY <1>1, <1>2, <1>3, <1>5 DEF IInv

\* A refused call returns and changes no count.
LEMMA RefuseInv ==
    ASSUME IInv, NEW t \in Sharers, 
           \/ RetainRefused(t) \/ DowngradeRefused(t) \/ UpgradeUndefined(t)
           \/ DowngradeCheck(t)
    PROVE  IInv'
  <1> USE DEF InStep, RetainRefused, DowngradeRefused, UpgradeUndefined, DowngradeCheck, Return, Unshared, Advance
  <1>1. ArcTypeOK'
    BY DEF IInv, ArcTypeOK, Steps
  <1>2. CountsMatchHandles' /\ IsFiniteSet(arcs') /\ IsFiniteSet(weaks')
        /\ arcs' \cap weaks' = {}
    BY DEF IInv, ArcTypeOK, CountsMatchHandles
  <1>3. CallsOwnTheirHandle' /\ ReleasesSawACount'
    BY DEF IInv, ArcTypeOK, CountsMatchHandles, CallsOwnTheirHandle, ReleasesSawACount, OnArc, OnWeak, OnNothing
  <1>4. Dropping' = Dropping
    BY DEF IInv, ArcTypeOK, Dropping
  <1>5. OneStrongSide' /\ ValuePhase' /\ BlockPhase'
    BY <1>4 DEF IInv, ArcTypeOK, OneStrongSide, ValuePhase, BlockPhase
  <1> QED
    BY <1>1, <1>2, <1>3, <1>5 DEF IInv

\* Retain and upgrade: a new Arc object, counted, while the count was not 0.
LEMMA GainStrongInv ==
    ASSUME IInv, NEW t \in Sharers, NEW h \in Handles,
           RetainCas(t, h) \/ UpgradeCas(t, h)
    PROVE  IInv'
  <1> USE DEF InStep, RetainCas, UpgradeCas, Return, Unshared, Advance, Fresh
  <1>a. arcs # {} /\ h \notin arcs /\ h \notin weaks
    BY FS_EmptySet DEF IInv, CountsMatchHandles
  <1>1. ArcTypeOK'
    BY <1>a, ArcConstants DEF IInv, ArcTypeOK, Steps
  <1>2. CountsMatchHandles' /\ IsFiniteSet(arcs') /\ IsFiniteSet(weaks')
        /\ arcs' \cap weaks' = {}
    BY <1>a, CountAdd DEF IInv, ArcTypeOK, CountsMatchHandles
  <1>3. CallsOwnTheirHandle' /\ ReleasesSawACount'
    BY <1>a DEF IInv, ArcTypeOK, CountsMatchHandles, CallsOwnTheirHandle, ReleasesSawACount, OnArc, OnWeak, OnNothing
  <1>4. Dropping' = Dropping
    BY DEF IInv, ArcTypeOK, Dropping
  <1>5. OneStrongSide' /\ ValuePhase' /\ BlockPhase'
    BY <1>a, <1>4 DEF IInv, ArcTypeOK, OneStrongSide, ValuePhase, BlockPhase
  <1> QED
    BY <1>1, <1>2, <1>3, <1>5 DEF IInv

\* Downgrade: a new Weak object, counted.
LEMMA DowngradeCasInv ==
    ASSUME IInv, NEW t \in Sharers, NEW h \in Handles,
           DowngradeCas(t, h)
    PROVE  IInv'
  <1> USE DEF InStep, DowngradeCas, Return, Unshared, Advance, Fresh
  <1>a. h \notin arcs /\ h \notin weaks /\ using[t] \in arcs
    BY DEF IInv, CallsOwnTheirHandle, OnArc
  <1>b. IsFiniteSet(weaks \cup {h}) /\ Cardinality(weaks) \in Nat
        /\ Cardinality(weaks \cup {h}) = Cardinality(weaks) + 1
    BY <1>a, CountAdd DEF IInv
  <1>1. ArcTypeOK'
    BY <1>a, ArcConstants DEF IInv, ArcTypeOK, Steps
  <1>2. CountsMatchHandles' /\ IsFiniteSet(arcs') /\ IsFiniteSet(weaks')
        /\ arcs' \cap weaks' = {}
    BY <1>a, <1>b DEF IInv, ArcTypeOK, CountsMatchHandles
  <1>3. CallsOwnTheirHandle' /\ ReleasesSawACount'
    BY <1>a DEF IInv, ArcTypeOK, CountsMatchHandles, CallsOwnTheirHandle, ReleasesSawACount, OnArc, OnWeak, OnNothing
  <1>4. Dropping' = Dropping
    BY DEF IInv, ArcTypeOK, Dropping
  <1>5. OneStrongSide' /\ ValuePhase' /\ BlockPhase'
    BY <1>a, <1>4 DEF IInv, ArcTypeOK, OneStrongSide, ValuePhase, BlockPhase
  <1> QED
    BY <1>1, <1>2, <1>3, <1>5 DEF IInv

\* arcAlloc: one Arc object and the strong side's weak reference.
LEMMA ConstructInv ==
    ASSUME IInv, NEW t \in Sharers, NEW h \in Handles, Construct(t, h)
    PROVE  IInv'
  <1> USE DEF InStep, Construct
  <1>a. arcs = {} /\ weaks = {} /\ ~implicit /\ Dropping = {}
    BY DEF IInv, BlockPhase, OneStrongSide
  <1>b. \A u \in Sharers : doing[u] = "idle"
    BY <1>a DEF IInv, ArcTypeOK, Steps, BlockPhase, Dropping, CallsOwnTheirHandle, OnArc, OnWeak
  <1>c. IsFiniteSet({h}) /\ Cardinality({h}) = 1
    BY FS_Singleton
  <1>d. IsFiniteSet({}) /\ Cardinality({}) = 0
    BY FS_EmptySet
  <1>1. ArcTypeOK'
    BY ArcConstants DEF IInv, ArcTypeOK, Steps
  <1>2. CountsMatchHandles' /\ IsFiniteSet(arcs') /\ IsFiniteSet(weaks')
        /\ arcs' \cap weaks' = {}
    BY <1>a, <1>c, <1>d DEF CountsMatchHandles
  <1>3. CallsOwnTheirHandle' /\ ReleasesSawACount'
    BY <1>b DEF IInv, CallsOwnTheirHandle, ReleasesSawACount, OnArc, OnWeak, OnNothing
  <1>4. Dropping' = Dropping
    BY DEF Dropping
  <1>5. OneStrongSide' /\ ValuePhase' /\ BlockPhase'
    BY <1>a, <1>b, <1>4 DEF OneStrongSide, ValuePhase, BlockPhase
  <1> QED
    BY <1>1, <1>2, <1>3, <1>5 DEF IInv

\* Moving a handle between threads.
LEMMA GiveInv ==
    ASSUME IInv, NEW t \in Sharers, NEW u \in Sharers, NEW h \in Handles,
           Give(t, u, h)
    PROVE  IInv'
  <1> USE DEF InStep, Give
  <1>1. ArcTypeOK'
    BY DEF IInv, ArcTypeOK
  <1>3. CallsOwnTheirHandle' /\ ReleasesSawACount'
    BY DEF IInv, ArcTypeOK, CallsOwnTheirHandle, ReleasesSawACount, OnArc, OnWeak, OnNothing
  <1>4. Dropping' = Dropping
    BY DEF Dropping
  <1>5. OneStrongSide' /\ ValuePhase' /\ BlockPhase'
    BY <1>4 DEF IInv, OneStrongSide, ValuePhase, BlockPhase
  <1> QED
    BY <1>1, <1>3, <1>5 DEF IInv, CountsMatchHandles

\* arcRelease: one reference less; only the last one enters the drop phase.
LEMMA ReleaseCasInv ==
    ASSUME IInv, NEW t \in Sharers, ReleaseCas(t)
    PROVE  IInv'
  <1> USE DEF InStep, ReleaseCas, Unshared, Advance
  <1>a. using[t] \in arcs /\ using[t] \in Handles /\ holder[using[t]] = t
    BY DEF IInv, ArcTypeOK, CallsOwnTheirHandle, OnArc
  <1>b. current[t] # 0 /\ current[t] = strong
    BY DEF IInv, ReleasesSawACount
  <1>c. /\ IsFiniteSet(arcs') /\ strong \in Nat \ {0}
        /\ Cardinality(arcs') = strong - 1
        /\ (strong = 1) <=> (arcs' = {})
    BY <1>a, CountRemove DEF IInv, CountsMatchHandles
  <1>d. implicit /\ Dropping = {}
    BY <1>a DEF IInv, OneStrongSide
  <1>1. ArcTypeOK'
    BY <1>b, <1>c, ArcConstants DEF IInv, ArcTypeOK, Steps
  <1>2. CountsMatchHandles' /\ IsFiniteSet(arcs') /\ IsFiniteSet(weaks')
        /\ arcs' \cap weaks' = {}
    BY <1>b, <1>c DEF IInv, CountsMatchHandles
  <1>3. CallsOwnTheirHandle' /\ ReleasesSawACount'
    BY <1>a DEF IInv, ArcTypeOK, CallsOwnTheirHandle, ReleasesSawACount, OnArc, OnWeak, OnNothing
  <1>4. Dropping' = IF arcs' = {} THEN {t} ELSE {}
    BY <1>b, <1>c, <1>d DEF IInv, ArcTypeOK, Dropping
  <1>5. OneStrongSide'
    BY <1>4, <1>d DEF OneStrongSide
  <1>6. ValuePhase' /\ BlockPhase'
    BY <1>a, <1>b, <1>c, <1>d DEF IInv, ArcTypeOK, ValuePhase, BlockPhase, Dropping
  <1> QED
    BY <1>1, <1>2, <1>3, <1>5, <1>6 DEF IInv

\* dropValue: only the thread that holds the strong side gets here.
LEMMA DropValueInv ==
    ASSUME IInv, NEW t \in Sharers, DropValue(t)
    PROVE  IInv'
  <1> USE DEF InStep, DropValue, Advance
  <1>a. t \in Dropping /\ implicit /\ arcs = {}
    BY DEF IInv, OneStrongSide, Dropping
  <1>b. \A u \in Sharers : u \in Dropping => u = t
    BY <1>a DEF IInv, OneStrongSide
  <1>1. ArcTypeOK'
    BY DEF IInv, ArcTypeOK, Steps
  <1>3. CallsOwnTheirHandle' /\ ReleasesSawACount'
    BY DEF IInv, ArcTypeOK, CallsOwnTheirHandle, ReleasesSawACount, OnArc, OnWeak, OnNothing
  <1>4. Dropping' = Dropping
    BY DEF IInv, ArcTypeOK, Dropping
  <1>5. OneStrongSide'
    BY <1>4 DEF IInv, OneStrongSide
  <1>6. ValuePhase' /\ BlockPhase'
    BY <1>a, <1>b DEF IInv, ArcTypeOK, ValuePhase, BlockPhase, Dropping
  <1> QED
    BY <1>1, <1>3, <1>5, <1>6 DEF IInv, CountsMatchHandles

\* arcReleaseWeak by arcDestroy: the strong side's weak reference goes.
LEMMA DestroyCasInv ==
    ASSUME IInv, NEW t \in Sharers, ReleaseWeakCas(t), doing[t] = "destroy_cas"
    PROVE  IInv'
  <1> USE DEF InStep, ReleaseWeakCas, Advance
  <1>a. t \in Dropping /\ implicit /\ arcs = {} /\ using[t] = NoHandle
    BY DEF IInv, OneStrongSide, Dropping, CallsOwnTheirHandle, OnNothing
  <1>b. current[t] # 0 /\ current[t] = weak /\ ~implicit'
    BY DEF IInv, ReleasesSawACount
  <1>c. \A u \in Sharers : u \in Dropping => u = t
    BY <1>a DEF IInv, OneStrongSide
  <1>d. weaks' = weaks
    BY <1>a, ArcConstants DEF IInv, ArcTypeOK
  <1>e. weak = Cardinality(weaks) + 1 /\ Cardinality(weaks) \in Nat
        /\ (Cardinality(weaks) = 0 <=> weaks = {})
    BY <1>a, FS_CardinalityType, FS_EmptySet DEF IInv, CountsMatchHandles
  <1>1. ArcTypeOK'
    BY <1>b, <1>d, <1>e, ArcConstants DEF IInv, ArcTypeOK, Steps
  <1>2. CountsMatchHandles' /\ IsFiniteSet(arcs') /\ IsFiniteSet(weaks')
        /\ arcs' \cap weaks' = {}
    <2>1. Cardinality(weaks') = Cardinality(weaks) /\ IsFiniteSet(weaks')
      BY <1>d, Zenon DEF IInv
    <2>2. weak' = Cardinality(weaks)
      BY <1>b, <1>e
    <2>3. strong' = Cardinality(arcs')
      BY DEF IInv, CountsMatchHandles
    <2>4. CountsMatchHandles'
      BY <1>b, <1>e, <2>1, <2>2, <2>3 DEF CountsMatchHandles
    <2> QED
      BY <2>1, <2>4 DEF IInv
  <1>3. CallsOwnTheirHandle' /\ ReleasesSawACount'
    BY <1>d DEF IInv, ArcTypeOK, CallsOwnTheirHandle, ReleasesSawACount, OnArc, OnWeak, OnNothing
  <1>4. Dropping' = {}
    BY <1>c DEF IInv, ArcTypeOK, Dropping
  <1>5. OneStrongSide'
    BY <1>a, <1>b, <1>4 DEF OneStrongSide
  <1>6. ValuePhase'
    BY <1>a, <1>c DEF IInv, ArcTypeOK, ValuePhase, Dropping
  <1>7. BlockPhase'
    BY <1>a, <1>b, <1>d, <1>e DEF IInv, ArcTypeOK, BlockPhase
  <1> QED
    BY <1>1, <1>2, <1>3, <1>5, <1>6, <1>7 DEF IInv

\* arcReleaseWeak by Weak[Symbol.dispose]: one Weak object less.
LEMMA WeakDisposeCasInv ==
    ASSUME IInv, NEW t \in Sharers, ReleaseWeakCas(t), doing[t] = "release_weak_cas"
    PROVE  IInv'
  <1> USE DEF InStep, ReleaseWeakCas, Advance
  <1>a. using[t] \in weaks /\ using[t] \in Handles /\ holder[using[t]] = t
    BY DEF IInv, ArcTypeOK, CallsOwnTheirHandle, OnWeak
  <1>b. current[t] # 0 /\ current[t] = weak /\ implicit' = implicit
    BY DEF IInv, ArcTypeOK, ReleasesSawACount
  <1>c. /\ IsFiniteSet(weaks') /\ Cardinality(weaks) \in Nat \ {0}
        /\ Cardinality(weaks') = Cardinality(weaks) - 1
        /\ (Cardinality(weaks) = 1) <=> (weaks' = {})
    BY <1>a, CountRemove DEF IInv
  <1>d. (weak = 1) <=> (weaks' = {} /\ ~implicit)
    BY <1>c DEF IInv, CountsMatchHandles
  <1>1. ArcTypeOK'
    BY <1>b, ArcConstants DEF IInv, ArcTypeOK, Steps
  <1>2. CountsMatchHandles' /\ IsFiniteSet(arcs') /\ IsFiniteSet(weaks')
        /\ arcs' \cap weaks' = {}
    <2>1. weak' = Cardinality(weaks') + (IF implicit THEN 1 ELSE 0)
      BY <1>b, <1>c DEF IInv, CountsMatchHandles
    <2>2. strong' = Cardinality(arcs')
      BY DEF IInv, CountsMatchHandles
    <2> QED
      BY <1>b, <1>c, <2>1, <2>2 DEF IInv, CountsMatchHandles
  <1>3. CallsOwnTheirHandle' /\ ReleasesSawACount'
    BY <1>a DEF IInv, ArcTypeOK, CallsOwnTheirHandle, ReleasesSawACount, OnArc, OnWeak, OnNothing
  <1>4. Dropping' = Dropping
    BY DEF IInv, ArcTypeOK, Dropping
  <1>5. OneStrongSide' /\ ValuePhase'
    BY <1>b, <1>4 DEF IInv, ArcTypeOK, OneStrongSide, ValuePhase
  <1>6. BlockPhase'
    BY <1>a, <1>b, <1>d DEF IInv, ArcTypeOK, BlockPhase, OneStrongSide
  <1> QED
    BY <1>1, <1>2, <1>3, <1>5, <1>6 DEF IInv

\* free: no reference of either kind is left.
LEMMA FreeInv ==
    ASSUME IInv, NEW t \in Sharers, Free(t)
    PROVE  IInv'
  <1> USE DEF InStep, Free, Advance
  <1>a. weaks = {} /\ ~implicit /\ arcs = {}
    BY DEF IInv, BlockPhase, OneStrongSide
  <1>1. ArcTypeOK'
    BY DEF IInv, ArcTypeOK, Steps
  <1>3. CallsOwnTheirHandle' /\ ReleasesSawACount'
    BY DEF IInv, ArcTypeOK, CallsOwnTheirHandle, ReleasesSawACount, OnArc, OnWeak, OnNothing
  <1>4. Dropping' = Dropping
    BY DEF IInv, ArcTypeOK, Dropping
  <1>5. OneStrongSide' /\ ValuePhase' /\ BlockPhase'
    BY <1>a, <1>4 DEF IInv, ArcTypeOK, OneStrongSide, ValuePhase, BlockPhase
  <1> QED
    BY <1>1, <1>3, <1>5 DEF IInv, CountsMatchHandles

-----------------------------------------------------------------------------
\* Every step of every thread preserves the inductive invariant.
LEMMA NextInv == IInv /\ [ArcNext]_avars => IInv'
  <1> SUFFICES ASSUME IInv, [ArcNext]_avars PROVE IInv'
    OBVIOUS
  <1>1. CASE UNCHANGED avars
    BY <1>1 DEF avars, IInv, ArcTypeOK, CountsMatchHandles, CallsOwnTheirHandle,
       ReleasesSawACount, OneStrongSide, ValuePhase, BlockPhase, Dropping
  <1>2. ASSUME NEW t \in Sharers, CallStep(t) PROVE IInv'
    BY <1>2, LoadInv, RetryInv, RefuseInv, GainStrongInv, DowngradeCasInv,
       ReleaseCasInv, DropValueInv, DestroyCasInv, WeakDisposeCasInv, FreeInv
       DEF CallStep, ReleaseWeakCas, InStep
  <1>3. ASSUME NEW t \in Sharers, ProgramStep(t) PROVE IInv'
    <2>1. ASSUME NEW h \in Handles,
                 \/ CloneBegin(t, h) \/ DisposeBegin(t, h) \/ DowngradeBegin(t, h)
                 \/ UpgradeBegin(t, h) \/ WeakDisposeBegin(t, h)
          PROVE  IInv'
      <3>1. {"retain", "release", "downgrade", "upgrade", "release_weak"} \subseteq Steps
        BY DEF Steps
      <3> QED
        BY <2>1, <3>1, BeginInv DEF CloneBegin, DisposeBegin, DowngradeBegin,
           UpgradeBegin, WeakDisposeBegin
    <2>2. ASSUME ConstructFails(t) PROVE IInv'
      BY <2>2 DEF ConstructFails, IInv, ArcTypeOK, CountsMatchHandles,
         CallsOwnTheirHandle, ReleasesSawACount, OneStrongSide, ValuePhase,
         BlockPhase, Dropping
    <2> QED
      BY <1>3, <2>1, <2>2, ConstructInv, GiveInv DEF ProgramStep
  <1> QED
    BY <1>1, <1>2, <1>3 DEF ArcNext

\* The inductive invariant holds in every reachable state.
THEOREM Invariance == ArcSpec => []IInv
  BY InitInv, NextInv, PTL DEF ArcSpec

\* Type correctness of the header, the handles and the calls.
THEOREM TypeCorrect == ArcSpec => []ArcTypeOK
  <1>1. IInv => ArcTypeOK
    BY DEF IInv
  <1> QED
    BY <1>1, Invariance, PTL

\* arcRetain, arcRelease, arcDowngrade, arcUpgrade and arcReleaseWeak keep
\* the counters equal to the number of references, for any interleaving.
THEOREM CountsCorrect == ArcSpec => []CountsMatchHandles
  <1>1. IInv => CountsMatchHandles
    BY DEF IInv
  <1> QED
    BY <1>1, Invariance, PTL

\* No Arc object ever sees a dropped value.
THEOREM NoDanglingArc == ArcSpec => []ValueLivesWhileShared
  <1>1. IInv => ValueLivesWhileShared
    BY DEF IInv, ValuePhase, ValueLivesWhileShared
  <1> QED
    BY <1>1, Invariance, PTL

\* No runtime function ever touches a freed header; with no handle and no
\* running call left, value and block are gone.
THEOREM HeaderFreedAtLast == ArcSpec => []FreedAtLast
  <1>1. ASSUME IInv, arcs \cup weaks # {} \/ \E t \in Sharers : doing[t] # "idle"
        PROVE  block = "live"
    BY <1>1 DEF IInv, ArcTypeOK, Steps, CallsOwnTheirHandle, OnArc, OnWeak, BlockPhase,
       OneStrongSide, Dropping
  <1>2. ASSUME IInv, block # "none", arcs \cup weaks = {}, \A t \in Sharers : doing[t] = "idle"
        PROVE  value = "dropped" /\ block = "freed"
    BY <1>2 DEF IInv, ArcTypeOK, BlockPhase, OneStrongSide, ValuePhase, Dropping
  <1>3. IInv => FreedAtLast
    BY <1>1, <1>2 DEF FreedAtLast
  <1> QED
    BY <1>3, Invariance, PTL

\* Value and block each go through their life once, in the right order.
THEOREM CleanupHappensOnce == ArcSpec => CleanupOnce
  <1> DEFINE A == /\ value' # value => /\ <<value, value'>> \in
                                            {<<"none", "stored">>, <<"stored", "dropped">>}
                                       /\ value' = "dropped" => block = "live" /\ arcs = {}
                  /\ block' # block => /\ <<block, block'>> \in
                                            {<<"none", "live">>, <<"live", "freed">>}
                                       /\ block' = "freed" => value = "dropped"
  <1>1. ASSUME IInv, [ArcNext]_avars PROVE [A]_avars
    <2>1. CASE UNCHANGED avars
      BY <2>1
    <2>2. ASSUME NEW t \in Sharers, DropValue(t) PROVE A
      BY <1>1, <2>2 DEF InStep, DropValue, IInv, ValuePhase, OneStrongSide, BlockPhase, Dropping
    <2>3. ASSUME NEW t \in Sharers, Free(t) PROVE A
      BY <1>1, <2>3 DEF InStep, Free, IInv, ValuePhase, BlockPhase
    <2>4. ASSUME NEW t \in Sharers, NEW h \in Handles, Construct(t, h) PROVE A
      BY <1>1, <2>4 DEF InStep, Construct, IInv, BlockPhase
    <2>5. ASSUME NEW t \in Sharers, CallStep(t) PROVE A
      <3>1. CASE value' = value /\ block' = block
        BY <3>1
      <3>2. CASE DropValue(t) \/ Free(t)
        BY <3>2, <2>2, <2>3
      <3> QED
        BY <2>5, <3>1, <3>2
           DEF CallStep, RetainLoad, RetainRefused, RetainRetry, RetainCas,
               ReleaseLoad, ReleaseCas, ReleaseRetry, ReleaseWeakLoad,
               ReleaseWeakCas, ReleaseWeakRetry, DowngradeCheck, DowngradeLoad,
               DowngradeRefused, DowngradeRetry, DowngradeCas, UpgradeLoad,
               UpgradeUndefined, UpgradeRetry, UpgradeCas, Load, CasFails, Unshared
    <2>6. ASSUME NEW t \in Sharers, ProgramStep(t) PROVE A
      <3>1. CASE value' = value /\ block' = block
        BY <3>1
      <3> QED
        BY <2>6, <3>1, <2>4
           DEF InStep, ProgramStep, ConstructFails, CloneBegin, DisposeBegin,
               DowngradeBegin, UpgradeBegin, WeakDisposeBegin, Begin, Give
    <2> QED
      BY <1>1, <2>1, <2>5, <2>6 DEF ArcNext
  <1> QED
    BY <1>1, Invariance, PTL DEF ArcSpec, CleanupOnce
=============================================================================
