---------------------------- MODULE CompiledBody ----------------------------
(* A body on its way through the compiler (crates/tn-driver/src/build.rs),   *)
(* and its run: the borrow checker refuses or passes it (OwnershipCheck),    *)
(* drop elaboration places flags and drops (DropElaboration), and the code   *)
(* generator turns each instruction into loads and stores                    *)
(* (crates/tn-codegen-llvm/src/lib.rs).                                      *)
(*                                                                           *)
(* The values it makes are numbered.  Next to the machine's own state - the  *)
(* bits in each place and the drop flags - the module keeps what a reader of *)
(* the source would: which place owns a value, how often the value ended,    *)
(* and how often it was disposed of.  Branches, errors and cancellations     *)
(* happen in every possible way.                                            *)
EXTENDS OwnershipCheck, DropElaboration

CONSTANTS
    Bodies,     \* the bodies to compile and run
    MaxValues   \* a run that needs more values stops: bounds the loops

ASSUME CompiledBodyAssumption ==
    /\ MaxValues \in Nat
    /\ \A body \in Bodies : \A a \in Arguments(body) : body.kinds[a] = "value"
    /\ \A body \in Bodies : body.arguments <= MaxValues

VARIABLES
    code,       \* the body, as lowered until it is compiled, and elaborated from then
    block,      \* the basic block it is in
    edge,       \* 0, or the edge of the block's terminator it is on
    at,         \* the next instruction of the block or edge
    bits,       \* bits[p]: the value stored in part p (Garbage, Nothing: absent)
    flag,       \* flag[p]: the drop flag of a local, or of a part of one
    points,     \* points[l]: the <<part, value>>s reference or closure l refers to
    owner,      \* owner[v]: the part that owns value v (Nowhere: none, any more)
    ends,       \* ends[v]: how often value v was dropped or given away
    disposals,  \* disposals[v]: how often value v was disposed of
    cancelled,  \* has a suspension been cancelled?
    outcome     \* "lowered", "refused" or "running", or how the run ended

machine == <<bits, flag, points>>
history == <<owner, ends, disposals>>
vars == <<code, block, edge, at, machine, history, cancelled, outcome>>

Garbage == 0
Nothing == -1
Nowhere == <<>>

Here == code.blocks[block]
Instructions == IF edge = 0 THEN Here.code ELSE Here.terminator.edges[edge].code
Instruction == Instructions[at]
AtInstruction(op) == outcome = "running" /\ at <= Len(Instructions) /\ Instruction.op = op
Ending == Here.terminator
Dest(e) == Ending.edges[e].dest
AtTerminator == outcome = "running" /\ edge = 0 /\ at > Len(Instructions)
Values == DOMAIN owner
NextValue == Len(owner) + 1

Flagged(body) == {Whole(l) : l \in Droppable(body)} \cup Parts(body)

Init ==
    /\ code \in Bodies
    /\ block = 1
    /\ edge = 0
    /\ at = 1
    /\ bits = [p \in Parts(code) |-> IF Local(p) \in Arguments(code) THEN Local(p) ELSE Garbage]
    /\ flag = [p \in Flagged(code) |-> FALSE]
    /\ points = [l \in Locals(code) |-> {}]
    /\ owner = [a \in Arguments(code) |-> Whole(a)]
    /\ ends = [a \in Arguments(code) |-> 0]
    /\ disposals = [a \in Arguments(code) |-> 0]
    /\ cancelled = FALSE
    /\ outcome = "lowered"

(* The borrow checker refuses the body, or drop elaboration makes it one     *)
(* that runs.                                                               *)
Compile ==
    /\ outcome = "lowered"
    /\ IF Accepted(code) THEN code' = Elaborated(code) /\ outcome' = "running"
       ELSE outcome' = "refused" /\ UNCHANGED code
    /\ UNCHANGED <<block, edge, at, machine, history, cancelled>>

----------------------------------------------------------------------------
(* Values.                                                                  *)

(* The values in `vs` end: dropped, or given to a callee or the caller.     *)
Counted(counts, vs) == [v \in DOMAIN counts |-> IF v \in vs THEN counts[v] + 1 ELSE counts[v]]
Disowned(vs) == [v \in Values |-> IF v \in vs THEN Nowhere ELSE owner[v]]

Held(places) ==
    {bits[p] : p \in UNION {PartsOf(code, place) : place \in places}} \ {Garbage, Nothing}

(* The parts that a drop of this place destroys: lower_drop_value_at_path    *)
(* honours the flag of each part.                                           *)
Dropping(place) ==
    IF place \in DOMAIN flag /\ flag[place]
    THEN {p \in PartsOf(code, place) : flag[p] /\ bits[p] # Nothing} ELSE {}
Dropped(place) == {bits[p] : p \in Dropping(place)} \ {Garbage}

\* An assignment that dropped the old value clears the flags of the place and of all its
\* parts, a drop that of the place and those of the parts it destroyed; one that is skipped
\* leaves them.
Cleared(place, parts) ==
    IF place \in DOMAIN flag /\ flag[place]
    THEN [p \in DOMAIN flag |-> flag[p] /\ p \notin parts \cup {place}] ELSE flag

----------------------------------------------------------------------------
(* Instructions.                                                            *)

Step == at' = at + 1 /\ UNCHANGED <<code, block, edge, cancelled, outcome>>

(* StorageLive and StorageDead generate nothing.                            *)
MarkStorage ==
    /\ AtInstruction("live") \/ AtInstruction("dead")
    /\ Step
    /\ UNCHANGED <<machine, history>>

(* A value of its own: a literal, or the environment of a closure.  A        *)
(* closure that captured a value just holds it.                             *)
Makes(s) ==
    \/ s.how = "new"
    \/ s.how = "closure" /\ Local(s.operands[1].place) \in References(code)

(* What assignment s puts into part p of its place.                         *)
Filling(s, p) ==
    LET path == SubSeq(p, Len(s.place) + 1, Len(p))
    IN  CASE Makes(s) -> NextValue
          [] s.how = "use" /\ s.operands[1] = Constant -> Nothing
          [] s.how = "use" /\ s.operands[1] # Constant -> bits[s.operands[1].place \o path]
          [] s.how \in {"some", "closure"} /\ ~Makes(s) -> bits[s.operands[1].place]
          [] s.how = "pair" -> bits[s.operands[path[1]].place]

(* lower_assignment: make the value, drop what the place holds if its flag   *)
(* is set, store.  A copied operand gives its bits, a moved one its value    *)
(* too.                                                                     *)
AssignOwned ==
    /\ AtInstruction("assign")
    /\ Makes(Instruction) => NextValue <= MaxValues
    /\ LET s == Instruction
           fresh == IF Makes(s) THEN <<0>> ELSE <<>>
           filling == [p \in PartsOf(code, s.place) |-> Filling(s, p)]
           received == IF Makes(s) THEN {NextValue} ELSE Held(Movings(s.operands))
       IN  /\ DOMAIN filling # {}
           /\ bits' = filling @@ bits
           /\ owner' = [v \in DOMAIN (owner \o fresh) |->
                           IF v \in received /\ \E p \in DOMAIN filling : filling[p] = v
                           THEN CHOOSE p \in DOMAIN filling : filling[p] = v
                           ELSE Disowned(Dropped(s.place))[v]]
           /\ ends' = Counted(ends, Dropped(s.place)) \o fresh
           /\ disposals' = disposals \o fresh
           /\ flag' = Cleared(s.place, PartsOf(code, s.place))
           /\ points' = [points EXCEPT ![Local(s.place)] =
                            IF s.how \in {"use", "closure"} /\ s.operands[1] # Constant
                            THEN points[Local(s.operands[1].place)] ELSE {}]
    /\ Step

(* ... of a reference, a bound method or plain data.                        *)
AssignOther ==
    /\ AtInstruction("assign")
    /\ PartsOf(code, Instruction.place) = {}
    /\ points' = IF Local(Instruction.place) \in References(code)
                 THEN [points EXCEPT ![Local(Instruction.place)] =
                          points[Local(Instruction.operands[1].place)]]
                 ELSE points
    /\ Step
    /\ UNCHANGED <<bits, flag, history>>

(* What a reference to a place refers to; through a reference, what that     *)
(* one does.                                                                *)
Pointees(place) ==
    IF Local(place) \in References(code)
    THEN {target \in points[Local(place)] : IsSuffix(SubSeq(place, 3, Len(place)), target[1])}
    ELSE {<<p, bits[p]>> : p \in {q \in PartsOf(code, place) : bits[q] \notin {Garbage, Nothing}}}

DoBorrow ==
    /\ AtInstruction("borrow")
    /\ points' = [points EXCEPT ![Local(Instruction.place)] = Pointees(Instruction.operands[1].place)]
    /\ Step
    /\ UNCHANGED <<bits, flag, history>>

(* set_drop_flag_value: of the place and all its parts.                     *)
DoSetFlag ==
    /\ AtInstruction("flag")
    /\ flag' = [p \in DOMAIN flag |->
                   IF Within(Instruction.place, p) THEN Instruction.value ELSE flag[p]]
    /\ Step
    /\ UNCHANGED <<bits, points, history>>

(* lower_drop: if the flag is set, drop the value and clear the flag.       *)
DoDrop ==
    /\ AtInstruction("drop")
    /\ ends' = Counted(ends, Dropped(Instruction.place))
    /\ owner' = Disowned(Dropped(Instruction.place))
    /\ flag' = Cleared(Instruction.place, Dropping(Instruction.place))
    /\ Step
    /\ UNCHANGED <<bits, points, disposals>>

----------------------------------------------------------------------------
(* Terminators.                                                             *)

(* A switch on an optional goes by its tag, any other way either way.        *)
Possible(e) ==
    LET o == Ending.operands[1]
    IN  Ending.op = "switch" /\ Len(o.place) = 1 /\ code.kinds[Local(o.place)] = "optional"
            => (e = 1) = (bits[Payload(o.place)] # Nothing)

TakeEdge(e) ==
    /\ AtTerminator
    /\ e \in DOMAIN Ending.edges
    /\ Possible(e)
    /\ edge' = e
    /\ at' = 1
    /\ cancelled' = (cancelled \/ IsCancel(Ending, e))
    /\ UNCHANGED <<code, block, flag, outcome>>

(* Moved operands go to the callee or the awaited task (lower_call,          *)
(* lower_suspend).  A disposal is a call to the method of its receiver.      *)
Given == Held(Movings(Ending.operands))
Disposing == IF Ending.op = "dispose" THEN Held({Ending.operands[2].place}) ELSE {}

(* The edge delivers a value: a result, or an error.                        *)
DeliverValue(e) ==
    /\ TakeEdge(e)
    /\ Dest(e) \in Owned(code)
    /\ NextValue <= MaxValues
    /\ bits' = [p \in DOMAIN bits |-> IF Local(p) = Dest(e) THEN NextValue ELSE bits[p]]
    /\ owner' = Append(Disowned(Given), CHOOSE p \in Parts(code) : Local(p) = Dest(e))
    /\ ends' = Append(Counted(ends, Given), 0)
    /\ disposals' = Append(Counted(disposals, Disposing), 0)
    /\ UNCHANGED points

(* ... or none: nothing at all, plain data, or an absent optional.          *)
DeliverNothing(e) ==
    /\ TakeEdge(e)
    /\ Dest(e) \in Locals(code) => code.kinds[Dest(e)] \in {"optional", "plain"}
    /\ bits' = [p \in DOMAIN bits |-> IF Local(p) = Dest(e) THEN Nothing ELSE bits[p]]
    /\ owner' = Disowned(Given)
    /\ ends' = Counted(ends, Given)
    /\ UNCHANGED <<points, disposals>>

(* ... or a reference, derived from one passed or from a borrowed receiver.  *)
DeliverReference(e) ==
    /\ TakeEdge(e)
    /\ Dest(e) \in References(code)
    /\ \E o \in Range(Tail(Ending.operands)) :
           /\ Local(o.place) \in References(code) \/ o.mode = "lend"
           /\ points' = [points EXCEPT ![Dest(e)] = Pointees(o.place)]
    /\ owner' = Disowned(Given)
    /\ ends' = Counted(ends, Given)
    /\ UNCHANGED <<bits, disposals>>

(* The end of the edge's instructions.                                      *)
Arrive ==
    /\ outcome = "running"
    /\ edge # 0
    /\ at > Len(Instructions)
    /\ block' = Ending.edges[edge].block
    /\ edge' = 0
    /\ at' = 1
    /\ UNCHANGED <<code, machine, history, cancelled, outcome>>

(* Return and throw give their operand to the caller; what a cancelled task  *)
(* reaches is the end of its frame.                                          *)
Leave ==
    /\ AtTerminator
    /\ DOMAIN Ending.edges = {}
    /\ outcome' = Ending.op
    /\ ends' = Counted(ends, Given)
    /\ owner' = Disowned(Given)
    /\ UNCHANGED <<code, block, edge, at, machine, disposals, cancelled>>

Next ==
    \/ Compile
    \/ MarkStorage
    \/ AssignOwned
    \/ AssignOther
    \/ DoBorrow
    \/ DoSetFlag
    \/ DoDrop
    \/ \E e \in 1 .. 3 : DeliverValue(e) \/ DeliverNothing(e) \/ DeliverReference(e)
    \/ Arrive
    \/ Leave

Spec == Init /\ [][Next]_vars

----------------------------------------------------------------------------
(* Properties.                                                              *)

(* What lowering makes of any program is well formed, so that the validator   *)
(* never ends a compilation with "the compiler produced invalid generic MIR" *)
(* (check_ownership).  That error passes a body whose only fault is that it   *)
(* may read something uninitialized, and counts on the analysis of moves to  *)
(* refuse it: what both let through reads nothing uninitialized on any path. *)
LoweredIsValid ==
    outcome = "lowered" =>
        /\ Valid(code)
        /\ Accepted(code) => UninitializedUses(code) = {}

(* No value is destroyed twice, or destroyed by this body and again by the   *)
(* one it was given to, on any path through branches, loops, errors and      *)
(* cancellation (the drop flags of drop_elaboration.rs); and when a body     *)
(* returns, throws or is cancelled, every value it ever made has been        *)
(* destroyed or given away: temporaries, arguments of failed calls, error    *)
(* payloads, what is left of a partly moved pair and the locals of all open  *)
(* scopes (add_exit_cleanup, rewrite_scope_exit_edges).                      *)
EndedOnce ==
    \A v \in Values :
        /\ ends[v] <= 1
        /\ outcome \in {"return", "throw", "unreachable"} => ends[v] = 1

(* The operands that the next instruction or terminator reads.              *)
Reads ==
    CASE outcome # "running" -> {}
      [] outcome = "running" /\ at <= Len(Instructions) ->
            IF Instruction.op \in {"assign", "borrow"} THEN Range(Instruction.operands) ELSE {}
      [] OTHER -> IF edge = 0 THEN Range(Ending.operands) ELSE {}
ReadPlaces == {o.place : o \in {p \in Reads : p # Constant}}

\* ... and the parts whose value it destroys.
Destroyed ==
    IF outcome = "running" /\ at <= Len(Instructions) /\ Instruction.op \in {"assign", "drop"}
    THEN Dropping(Instruction.place) ELSE {}

ReadParts ==
    Destroyed \cup {p \in UNION {PartsOf(code, place) : place \in ReadPlaces} : bits[p] # Nothing}

(* What the generated code moves, lends, borrows or drops is there: its      *)
(* place owns it, and it has not been moved away, dropped or left            *)
(* uninitialized on any path.                                               *)
ReadsOwnedValue == \A p \in ReadParts : bits[p] # Garbage /\ owner[bits[p]] = p

(* Wherever a run of cleanup begins, the locals it will really drop go       *)
(* youngest first (cleanup_chain).  One that ends two scopes lists the       *)
(* locals of the inner one twice: only the first drop finds the flag set.   *)
Cleanup ==
    {i \in at .. Len(Instructions) :
        /\ Instructions[i].op = "drop" /\ Dropping(Instructions[i].place) # {}
        /\ \A j \in at .. i : Instructions[j].op \in {"drop", "dead"}
        /\ \A j \in at .. i - 1 :
               Instructions[j].op = "drop" => Instructions[j].place # Instructions[i].place}
DropsYoungestFirst ==
    outcome = "running" =>
        \A i, j \in Cleanup : i < j => Local(Instructions[i].place) > Local(Instructions[j].place)

Refers(r) == \A target \in points[r] : owner[target[2]] = target[1]

(* A reference in use - a local, or the one a closure captured - still       *)
(* refers to the value it was made for, and that value is where it was:      *)
(* nobody moved, replaced or dropped it.                                    *)
ReferencesNeverDangle == \A place \in ReadPlaces : Refers(Local(place))

(* ... at least where program points are numbered in an order of execution.  *)
ReferencesValid == IsForward(code) => ReferencesNeverDangle

(* An `await using` value that its scope destroys has been disposed of,      *)
(* once, whichever way the scope was left (lower_async_disposals).          *)
DisposedFirst ==
    AtInstruction("drop") /\ Local(Instruction.place) \in code.managed =>
        \A v \in Dropped(Instruction.place) : disposals[v] = 1

(* ... unless the task was cancelled.                                       *)
DisposedUnlessCancelled == cancelled \/ DisposedFirst
=============================================================================
