----------------------------- MODULE ValueLayout -----------------------------
(***************************************************************************)
(* How a value lies in memory (crates/tn-codegen-llvm/src/lib.rs).  Five   *)
(* pieces of the generator find its parts each for itself: what builds it  *)
(* (lower_aggregate), the tag (SetDiscriminant), what a match tests        *)
(* (lower_switch_value), a place in it (place_pointer), and its drop       *)
(* (lower_drop_value_at_pointer).                                          *)
(*                                                                         *)
(* A program makes a value of some type, wraps, widens and narrows it,     *)
(* overwrites it or a field of its object, and drops it.                   *)
(***************************************************************************)
EXTENDS Naturals, Sequences, SequencesExt, TLC

CONSTANTS
    Types,          \* the types of the values that are made
    Unions,         \* the unions they are widened to
    Classes,        \* name -> [base, fields, destructor]; base "" if there is none
    MaxMade         \* values put in the variable or in a field of its object

VARIABLES
    holds, content, \* type and memory of the variable; Unset when it is not initialized
    objects,        \* the objects of classes, by their blocks
    blocks,         \* those allocated
    intended,       \* the value the program put in the variable
    made,
    destroyed       \* a block was freed that was not allocated

lvars == <<holds, content, objects, blocks, intended, made, destroyed>>

Unset == [kind |-> "none"]
Word == [kind |-> "word"]
OwnedText == [kind |-> "string"]
RawPointer == [kind |-> "pointer"]
OptionalOf(ty) == [kind |-> "optional", of |-> <<ty>>]
UnionOf(types) == [kind |-> "union", of |-> types]
Tuple(types) == [kind |-> "tuple", of |-> types]
ArrayOf(ty, n) == [kind |-> "array", of |-> [i \in 1 .. n |-> ty]]
\* `parameters`: the fields declared with a type parameter; `destructor`: it has a drop method.
Struct(types, parameters, destructor) == [kind |-> "struct", of |-> types, parameters |-> parameters, destructor |-> destructor]
Enum(variants, numbers) == [kind |-> "enum", variants |-> variants, numbers |-> numbers]
ClassOf(name) == [kind |-> "class", name |-> name]

Atoms == {"word", "string", "pointer"}
Products == {"tuple", "array", "struct"}
IsFieldless(ty) == \A v \in DOMAIN ty.variants : ty.variants[v] = <<>>

RECURSIVE class_field_types(_)
class_field_types(name) ==
    (IF Classes[name].base = "" THEN <<>> ELSE class_field_types(Classes[name].base)) \o Classes[name].fields

\* The fields of each variant of a type; variants are counted from 0 in the code, from 1 here.
VariantsOf(ty) ==
    CASE ty.kind = "optional" -> <<<<>>, ty.of>>
      [] ty.kind = "union" -> [v \in DOMAIN ty.of |-> <<ty.of[v]>>]
      [] ty.kind = "enum" -> ty.variants
      [] ty.kind = "class" -> <<class_field_types(ty.name)>>
      [] OTHER -> <<ty.of>>

----------------------------------------------------------------------------
\* Building.  Memory is a word, a block, or a sequence of slots.

Zero == "zero"
RECURSIVE basic_type(_)
InTurn(types) == [i \in DOMAIN types |-> basic_type(types[i])]

\* Enumerations: a number, or the tag before the fields of all variants.
nominal_type(ty) == IF IsFieldless(ty) THEN 0 ELSE <<0>> \o InTurn(FlattenSeq(ty.variants))

basic_type(ty) ==   \* all zero
    CASE ty.kind \in Atoms \cup {"class"} -> Zero
      [] ty.kind \in {"optional", "union"} -> <<0>> \o InTurn(ty.of)
      [] ty.kind \in Products -> InTurn(ty.of)
      [] ty.kind = "enum" -> nominal_type(ty)

SlotsBefore(ty, v) == Len(FlattenSeq(SubSeq(ty.variants, 1, v - 1)))

\* From `offset` on, the slots are the fields.
Inserted(slots, offset, fields) ==
    [s \in DOMAIN slots |-> IF s - offset \in DOMAIN fields THEN fields[s - offset] ELSE slots[s]]

AggregateEnum(ty, v, fields) ==
    IF IsFieldless(ty) THEN ty.numbers[v] ELSE Inserted(basic_type(ty), 1 + SlotsBefore(ty, v), fields)

lower_aggregate(ty, v, fields) ==
    LET slots == basic_type(ty)
    IN CASE ty.kind = "optional" -> Inserted([slots EXCEPT ![1] = IF v # 1 THEN 1 ELSE 0], 1, fields)
         [] ty.kind = "union" -> Inserted([slots EXCEPT ![1] = v - 1], v, fields)
         [] ty.kind \in Products -> Inserted(slots, 0, fields)
         [] ty.kind = "enum" -> AggregateEnum(ty, v, fields)

\* Follows every aggregate with a variant.
SetDiscriminant(ty, v, slots) ==
    CASE ty.kind = "optional" -> [slots EXCEPT ![1] = IF v # 1 THEN 1 ELSE 0]
      [] ty.kind = "union" -> [slots EXCEPT ![1] = v - 1]
      [] ty.kind = "enum" -> IF IsFieldless(ty) THEN v - 1 ELSE [slots EXCEPT ![1] = v - 1]
      [] OTHER -> slots

\* The memory of a value x that is made part by part.
RECURSIVE Built(_, _)
Built(ty, x) ==
    CASE ty.kind \in Atoms -> x
      [] ty.kind = "class" -> x.object
      [] OTHER -> LET types == VariantsOf(ty)[x.variant]
                      fields == [i \in DOMAIN types |-> Built(types[i], x.fields[i])]
                  IN SetDiscriminant(ty, x.variant, lower_aggregate(ty, x.variant, fields))

\* The objects made on the way: a constructor stores the descriptor, then the fields.
class_object_type(name) == <<Zero>> \o InTurn(class_field_types(name))
RECURSIVE Objects(_, _)
Objects(ty, x) ==
    IF ty.kind \in Atoms THEN <<>>
    ELSE LET types == VariantsOf(ty)[x.variant]
             inner == FoldLeft(LAMBDA all, i : all @@ Objects(types[i], x.fields[i]), <<>>, [i \in DOMAIN types |-> i])
             fields == [i \in DOMAIN types |-> Built(types[i], x.fields[i])]
         IN IF ty.kind # "class" THEN inner
            ELSE inner @@ (x.object :> Inserted(class_object_type(ty.name), 1, fields))

----------------------------------------------------------------------------
\* Reading.

layout_field_index(ty, v, i) ==
    CASE ty.kind = "enum" -> 1 + SlotsBefore(ty, v) + i
      [] ty.kind = "class" -> i + 1
      [] OTHER -> i

Downcast(ty, slots, v) == IF ty.kind = "optional" THEN slots[2] ELSE slots[v + 1]

\* Field i of variant v of what lies in `slots`.
place_pointer(ty, slots, v, i) ==
    CASE ty.kind \in {"optional", "union"} -> Downcast(ty, slots, v)
      [] ty.kind = "class" -> objects[slots][layout_field_index(ty, v, i)]
      [] OTHER -> slots[layout_field_index(ty, v, i)]

lower_switch_value(ty, slots) == IF ty.kind = "enum" /\ IsFieldless(ty) THEN slots ELSE slots[1]

variant_discriminant(ty, v) == IF ty.kind = "enum" THEN ty.numbers[v] ELSE v - 1

\* The arm that a match with one for every variant takes, or 0.
ArmTaken(ty, slots) ==
    IF ty.kind \in Products \cup {"class"} THEN 1
    ELSE LET arms == {v \in DOMAIN VariantsOf(ty) : variant_discriminant(ty, v) = lower_switch_value(ty, slots)}
         IN IF arms = {} THEN 0 ELSE CHOOSE v \in arms : TRUE

\* What a program that matches and reads every part finds.
RECURSIVE Read(_, _)
Read(ty, slots) ==
    IF ty.kind \in Atoms THEN slots
    ELSE LET v == ArmTaken(ty, slots)
             types == IF v = 0 THEN <<>> ELSE VariantsOf(ty)[v]
         IN [variant |-> v, fields |-> [i \in DOMAIN types |-> Read(types[i], place_pointer(ty, slots, v, i))]]

----------------------------------------------------------------------------
\* Dropping.

\* Mutant: what is inside of tuples, arrays, optionals, unions and enumerations is not looked at.
type_needs_drop_itself(ty) == ty.kind \in {"string", "class"}

RECURSIVE type_needs_drop(_)
type_needs_drop(ty) ==   \* a parameter of the declaration, whatever it stands for, needs none
    CASE ty.kind \in Atoms -> ty.kind = "string"
      [] ty.kind = "class" -> TRUE
      [] ty.kind = "struct" -> \E i \in DOMAIN ty.of \ ty.parameters : type_needs_drop(ty.of[i])
      [] OTHER -> \E v \in DOMAIN VariantsOf(ty) : \E i \in DOMAIN VariantsOf(ty)[v] : type_needs_drop(VariantsOf(ty)[v][i])

\* A drop method frees what the pointers among the fields point to.
lower_explicit_drop(has, types, fields) ==
    FlattenSeq([i \in DOMAIN types |-> IF has /\ types[i].kind = "pointer" THEN <<fields[i]>> ELSE <<>>])

\* The blocks that dropping `slots` as a value of type ty frees.
RECURSIVE lower_drop_value_at_pointer(_, _)
DropAll(types, parts) == FlattenSeq([i \in DOMAIN types |-> lower_drop_value_at_pointer(types[i], parts[i])])

DropUnion(ty, slots) == lower_drop_value_at_pointer(ty.of[slots[1] + 1], slots[slots[1] + 2])

DropEnum(ty, slots) ==
    IF IsFieldless(ty) THEN <<>>
    ELSE LET v == slots[1] + 1 IN DropAll(ty.variants[v], SubSeq(slots, 2 + SlotsBefore(ty, v), Len(slots)))

DropClass(ty, slots) ==
    LET types == class_field_types(ty.name)
        fields == Tail(objects[slots])
    IN lower_explicit_drop(Classes[ty.name].destructor, types, fields) \o DropAll(types, fields) \o <<slots>>

lower_drop_value_at_pointer(ty, slots) ==
    CASE ty.kind = "string" -> <<slots>>
      [] ty.kind \in {"word", "pointer"} -> <<>>
      [] ty.kind = "optional" -> IF slots[1] = 1 THEN DropAll(ty.of, Tail(slots)) ELSE <<>>
      [] ty.kind = "union" -> DropUnion(ty, slots)
      [] ty.kind \in {"tuple", "array"} -> DropAll(ty.of, slots)
      [] ty.kind = "struct" -> lower_explicit_drop(ty.destructor, ty.of, slots) \o DropAll(ty.of, slots)
      [] ty.kind = "enum" -> DropEnum(ty, slots)
      [] ty.kind = "class" -> DropClass(ty, slots)

Frees(freed, allocated) ==
    /\ blocks' = (blocks \ ToSet(freed)) \cup allocated
    /\ destroyed' = (destroyed \/ ~IsInjective(freed) \/ ~(ToSet(freed) \subseteq blocks))

----------------------------------------------------------------------------
\* The values of a type.  A leaf and an object are named by where they are made; `loss` is the
\* reason why the code might forget it.
LossOf(ty, v, i, loss) ==
    IF ty.kind = "class" /\ Classes[ty.name].base # "" /\ i > Len(class_field_types(Classes[ty.name].base)) THEN "derived"
    ELSE IF ty.kind = "struct" /\ ~type_needs_drop(ty) THEN "overwritten"
    ELSE loss

RECURSIVE ValuesOf(_, _, _)
ValuesOf(ty, path, loss) ==
    IF ty.kind \in Atoms THEN {[at |-> path, loss |-> loss]}
    ELSE LET Add(v, sofar, i) == {Append(s, x) : s \in sofar, x \in ValuesOf(VariantsOf(ty)[v][i], Append(path, i), LossOf(ty, v, i, loss))}
             Fields(v) == FoldLeft(LAMBDA sofar, i : Add(v, sofar, i), {<<>>}, [i \in DOMAIN VariantsOf(ty)[v] |-> i])
             nodes == UNION {{[variant |-> v, fields |-> s] : s \in Fields(v)} : v \in DOMAIN VariantsOf(ty)}
         IN IF ty.kind # "class" THEN nodes
            ELSE {x @@ [object |-> [at |-> path, loss |-> loss], class |-> ty.name] : x \in nodes}

\* The blocks of a value.
RECURSIVE BlocksIn(_, _)
BlocksIn(ty, x) ==
    IF ty.kind \in Atoms THEN IF ty.kind = "word" THEN {} ELSE {x}
    ELSE LET types == IF ty.kind = "class" THEN class_field_types(x.class) ELSE VariantsOf(ty)[x.variant]
         IN UNION {BlocksIn(types[i], x.fields[i]) : i \in DOMAIN types} \cup IF ty.kind = "class" THEN {x.object} ELSE {}

\* What can be read of a value as one of type ty.
RECURSIVE Seen(_, _)
Seen(ty, x) ==
    IF ty.kind \in Atoms THEN x
    ELSE LET types == VariantsOf(ty)[x.variant]
         IN [variant |-> x.variant, fields |-> [i \in DOMAIN types |-> Seen(types[i], x.fields[i])]]

----------------------------------------------------------------------------
LayoutInit ==
    /\ holds = Unset /\ content = Zero /\ intended = Unset
    /\ objects = <<>> /\ blocks = {} /\ made = 0 /\ destroyed = FALSE

\* A new value goes where a value `old` of type ty was, if there was one.
Store(ty, there, old, x) ==
    LET dropped == IF there /\ type_needs_drop(ty) THEN lower_drop_value_at_pointer(ty, old) ELSE <<>>
    IN made < MaxMade /\ made' = made + 1 /\ Frees(dropped, BlocksIn(ty, x))

\* The variable is assigned; its drop flag says if it holds a value.
lower_assignment == \E ty \in IF holds = Unset THEN Types ELSE {holds} : \E x \in ValuesOf(ty, <<made>>, "") :
    /\ Store(ty, holds # Unset, content, x)
    /\ holds' = ty /\ intended' = x /\ content' = Built(ty, x) /\ objects' = Objects(ty, x)

\* A field of an object has no flag: outside of the constructor it always holds a value.
\* A raw pointer is left to the methods of the class.
lower_field_assignment == holds.kind = "class" /\ \E i \in DOMAIN class_field_types(holds.name) :
    LET ty == class_field_types(holds.name)[i]
        slot == layout_field_index(holds, 1, i)
    IN ty.kind # "pointer" /\ \E x \in ValuesOf(ty, <<made>>, LossOf(holds, 1, i, "")) :
        /\ Store(ty, TRUE, objects[content][slot], x)
        /\ objects' = Objects(ty, x) @@ [objects EXCEPT ![content][slot] = Built(ty, x)]
        /\ intended' = [intended EXCEPT !.fields[i] = x]
        /\ UNCHANGED <<holds, content>>

\* The memory goes into a value of another type: an aggregate of an optional or a union.
Wrapped(ty, v) ==
    /\ holds' = ty /\ intended' = [variant |-> v, fields |-> <<intended>>]
    /\ content' = SetDiscriminant(ty, v, lower_aggregate(ty, v, <<content>>))
    /\ UNCHANGED <<objects, blocks, made, destroyed>>

materialize_optional == holds.kind \notin {"none", "optional"} /\ Wrapped(OptionalOf(holds), 2)

\* The first alternative the type is compatible with.
materialize_union == \E u \in Unions :
    LET fit == {v \in DOMAIN u.of : u.of[v] = holds}
    IN fit # {} /\ Wrapped(u, CHOOSE v \in fit : \A w \in fit : v <= w)

\* The program has tested the tag (union_tag) and takes the payload out by its type.
union_take ==
    /\ holds.kind = "union"
    /\ LET ty == holds.of[ArmTaken(holds, content)]
           variant == CHOOSE v \in DOMAIN holds.of : holds.of[v] = ty
       IN holds' = ty /\ intended' = intended.fields[1] /\ content' = content[variant + 1]
    /\ UNCHANGED <<objects, blocks, made, destroyed>>

\* The pointer is the same, the class it is used as another.
ClassUpcast ==
    /\ holds.kind = "class" /\ Classes[holds.name].base # ""
    /\ holds' = ClassOf(Classes[holds.name].base)
    /\ UNCHANGED <<content, objects, blocks, intended, made, destroyed>>

lower_drop ==
    /\ holds # Unset
    /\ Frees(lower_drop_value_at_pointer(holds, content), {})
    /\ holds' = Unset /\ content' = Zero /\ intended' = Unset /\ objects' = <<>>
    /\ UNCHANGED made

LayoutNext ==
    \/ lower_assignment \/ lower_field_assignment
    \/ materialize_optional \/ materialize_union \/ union_take \/ ClassUpcast \/ lower_drop

----------------------------------------------------------------------------
Inside(ty) == {VariantsOf(ty)[v][i] : <<v, i>> \in UNION {{v} \X DOMAIN VariantsOf(ty)[v] : v \in DOMAIN VariantsOf(ty)}}

\* Some enumeration in it numbers its variants otherwise than 0, 1, ...
RECURSIVE Numbered(_)
Numbered(ty) ==
    IF ty.kind \in Atoms THEN FALSE
    ELSE (ty.kind = "enum" /\ \E v \in DOMAIN ty.numbers : ty.numbers[v] # v - 1) \/ \E part \in Inside(ty) : Numbered(part)

\* Some object in it is of a class derived from the one it is used as.
RECURSIVE IsDerived(_, _)
IsDerived(ty, x) ==
    IF ty.kind \in Atoms THEN FALSE
    ELSE LET types == VariantsOf(ty)[x.variant]
         IN (ty.kind = "class" /\ x.class # ty.name) \/ \E i \in DOMAIN types : IsDerived(types[i], x.fields[i])

Readable == holds # Unset => Read(holds, content) = Seen(holds, intended)

(* A value that is matched, read, wrapped and taken out again is the value the *)
(* program made, and dropping it frees every block of it once; nothing is      *)
(* freed while in use, and nothing left behind.  The code breaks this for      *)
(* enumerations with numbers of their own; it forgets what a derived class     *)
(* adds, if the object is dropped as one of its base class, and does not drop  *)
(* a struct that is overwritten if all it owns are fields that a type          *)
(* parameter declares, or what its drop method frees (lower_aggregate,         *)
(* lower_switch_value, place_pointer, lower_drop_value_at_pointer).            *)
ValuesKept ==
    /\ ~destroyed
    /\ holds = Unset \/ Numbered(holds) \/ Readable
    /\ LET owned == IF holds = Unset THEN {} ELSE BlocksIn(holds, intended)
           drop == IF holds = Unset THEN <<>> ELSE lower_drop_value_at_pointer(holds, content)
       IN /\ owned \subseteq blocks
          /\ \A block \in blocks \ owned : block.loss # ""
          /\ holds = Unset \/ IsDerived(holds, intended) \/ (IsInjective(drop) /\ ToSet(drop) = owned)

(* A match takes the arm of the variant that was made: docs/implementation-    *)
(* status.md:404, "enum switches use declared integer discriminants while      *)
(* retaining separate layout indices".  The aggregate of a fieldless variant   *)
(* is its number, but the SetDiscriminant behind it stores its index.          *)
MatchedAsMade == Readable
=============================================================================
