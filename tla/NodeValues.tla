----------------------------- MODULE NodeValues -----------------------------
(***************************************************************************)
(* What crosses between JavaScript and an addon: the types the driver      *)
(* accepts in exports (tn-driver, validate_exports), the shape tn-node-api *)
(* gives them, the conversions the code generator emits for arguments and  *)
(* results (tn-codegen-llvm, convert_*_argument and convert_*_result), and *)
(* how the wrappers of the native functions pass them.                     *)
(*                                                                         *)
(* Widths are scaled down: Bits gives the width of each integer type, of a *)
(* word of a bigint and of the significand of the short float; the code    *)
(* points are scaled with them.                                            *)
(***************************************************************************)
EXTENDS Integers, Sequences

CONSTANTS Bits,             \* of "i8", "i16", "i32", "word" and "f32"
          FirstSurrogate,   \* 0xD800
          AfterSurrogates,  \* 0xE000
          LastCodePoint     \* 0x10FFFF

ASSUME WidthsAscend ==
    /\ Bits \in [{"i8", "i16", "i32", "word", "f32"} -> 2 .. 12]
    /\ Bits["i8"] < Bits["i16"] /\ Bits["i16"] < Bits["i32"]
    /\ FirstSurrogate < AfterSurrogates /\ AfterSurrogates < LastCodePoint
    /\ LastCodePoint < 2 ^ Bits["i32"]

-----------------------------------------------------------------------------
(* Types of the language, as far as exports may use them. *)
Void == [kind |-> "void"]
Scalar(p) == [kind |-> "scalar", scalar |-> p]
String == [kind |-> "string"]
Bytes == [kind |-> "bytes"]
Optional(t) == [kind |-> "optional", of |-> t]
Fixed(t, n) == [kind |-> "fixed", of |-> t, length |-> n]
Array(t) == [kind |-> "array", of |-> t]
Slice(t) == [kind |-> "slice", of |-> t]
Reference(t) == [kind |-> "reference", of |-> t]
Promise(t) == [kind |-> "promise", of |-> t]
Class(name) == [kind |-> "class", name |-> name]

\* Types the driver takes in an export.
RECURSIVE Compatible(_)
Compatible(ty) ==
    \/ ty.kind \in {"scalar", "string", "bytes"}
    \/ ty.kind = "reference" /\ ty.of.kind \in {"string", "array"} /\ Compatible(ty.of)
    \/ ty.kind \in {"optional", "fixed", "slice", "array", "promise"} /\ Compatible(ty.of)

\* Mutant: bytes are thought to be passed by value.
NeedsIndirectNotBytes(ty) ==
    \/ ty.kind \in {"optional", "fixed", "slice"}
    \/ ty.kind = "reference" /\ ty.of.kind = "array"

\* What an exported function, constructor or method must be like.
NeedsIndirect(ty) ==
    \/ ty.kind \in {"optional", "fixed", "slice", "bytes"}
    \/ ty.kind = "reference" /\ ty.of.kind = "array"

Parameters(f) == {f.parameters[i] : i \in DOMAIN f.parameters}

ValidFunction(f) ==
    /\ ~f.unsafe
    /\ f.result = Void \/ (f.result.kind # "reference" /\ Compatible(f.result))
    /\ \A ty \in Parameters(f) : Compatible(ty)

ValidMember(f) ==
    /\ ~f.unsafe /\ ~f.async
    /\ f.result = Void \/ Compatible(f.result)
    /\ \A ty \in Parameters(f) : Compatible(ty)
    /\ f.kind = "constructor" => \A ty \in Parameters(f) : ~NeedsIndirect(ty)

Valid(f) == IF f.kind = "function" THEN ValidFunction(f) ELSE ValidMember(f)

\* The shape a type has at the border: a reference is its referent, and the
\* array behind one is borrowed.
Shape(ty) ==
    CASE ty.kind = "slice" -> [kind |-> "array", of |-> ty.of, borrowed |-> TRUE]
      [] ty.kind = "array" -> [kind |-> "array", of |-> ty.of, borrowed |-> FALSE]
      [] ty.kind = "reference" /\ ty.of.kind = "array" ->
           [kind |-> "array", of |-> ty.of.of, borrowed |-> TRUE]
      [] ty.kind = "reference" -> ty.of
      [] OTHER -> ty

-----------------------------------------------------------------------------
(* How values are passed.  The code generator has its own idea of the types *)
(* that are too large to be passed by value.                                *)
IsIndirect(ty) ==
    \/ ty.kind \in {"optional", "fixed", "slice", "bytes"}
    \/ ty.kind = "reference" /\ ty.of.kind \in {"slice", "string"}

Passed(ty) == IF IsIndirect(ty) THEN "pointer" ELSE "value"

\* The wrapper the driver asks for.  A constructor's is not the one the
\* callback calls, and an asynchronous function has none.
WrapperKind(f) ==
    LET large == \E ty \in Parameters(f) \cup {f.result} : NeedsIndirect(ty)
    IN  IF f.async \/ f.kind = "constructor" THEN "none"
        ELSE IF f.errors = <<>> THEN IF large THEN "indirect" ELSE "none"
        ELSE IF f.result = Void THEN "fallible_void"
        ELSE IF large THEN "fallible_indirect" ELSE "fallible_value"

\* What the wrapper takes and returns...
CalleeForm(f) ==
    LET kind == WrapperKind(f)
    IN  [parameters |-> [i \in DOMAIN f.parameters |->
                            IF kind \in {"indirect", "fallible_indirect"}
                            THEN Passed(f.parameters[i]) ELSE "value"],
         result |-> CASE kind = "indirect" /\ f.result # Void -> Passed(f.result)
                      [] kind \in {"fallible_void", "fallible_value", "fallible_indirect"} -> "packed"
                      [] f.errors # <<>> /\ ~f.async -> "completion"
                      [] OTHER -> "value"]

\* ... and what the callback passes and takes.
CallerForm(f) ==
    [parameters |-> [i \in DOMAIN f.parameters |->
                        IF f.async THEN "value" ELSE Passed(f.parameters[i])],
     result |-> IF f.async THEN "value"
                ELSE IF f.errors # <<>> THEN "packed"
                ELSE IF f.result = Void THEN "value" ELSE Passed(f.result)]

\* Results the 64 bits of a packed answer hold: whole, or by their address.
Packable(ty) ==
    \/ ty = Void \/ IsIndirect(ty)
    \/ ty.kind = "scalar" /\ ty.scalar \notin {"f32", "f64", "i128", "u128"}

-----------------------------------------------------------------------------
(* Values of JavaScript. *)
Number(n) == [js |-> "number", n |-> n]
BigInt(n) == [js |-> "bigint", n |-> n]
Boolean(b) == [js |-> "boolean", b |-> b]
Text(t) == [js |-> "string", text |-> t]
Octets(t) == [js |-> "octets", text |-> t]
Undefined == [js |-> "undefined"]
List(s) == [js |-> "array", elements |-> s]

Unsigned(n, width) == n % 2 ^ width
Signed(n, width) ==
    LET u == Unsigned(n, width) IN IF u < 2 ^ (width - 1) THEN u ELSE u - 2 ^ width

\* napi_get_value_int32 and its like take the lower bits of any number.
Loaded(scalar, v) ==
    IF scalar \in {"u32", "char"} THEN Unsigned(v.n, Bits["i32"]) ELSE Signed(v.n, Bits["i32"])

CharTakes(loaded) ==
    /\ loaded <= LastCodePoint
    /\ loaded < FirstSurrogate \/ loaded >= AfterSurrogates

\* Mutant: the unsigned types are compared as signed numbers.
InRangeSigned(scalar, loaded) ==
    LET bits == Unsigned(loaded, Bits["i32"])
    IN  CASE scalar = "i8" -> loaded = Signed(loaded, Bits["i8"])
          [] scalar = "i16" -> loaded = Signed(loaded, Bits["i16"])
          [] scalar = "u8" -> loaded < 2 ^ Bits["i8"]
          [] scalar = "u16" -> loaded < 2 ^ Bits["i16"]
          [] OTHER -> TRUE

\* The range tests of the narrow types, on 32 bits; those of the unsigned ones
\* compare the bits, a negative number's are large.
InRange(scalar, loaded) ==
    LET bits == Unsigned(loaded, Bits["i32"])
    IN  CASE scalar = "i8" -> loaded = Signed(loaded, Bits["i8"])
          [] scalar = "i16" -> loaded = Signed(loaded, Bits["i16"])
          [] scalar = "u8" -> bits < 2 ^ Bits["i8"]
          [] scalar = "u16" -> bits < 2 ^ Bits["i16"]
          [] OTHER -> TRUE

\* Is a bigint of 64 bits taken without loss?
Lossless(scalar, n) ==
    n = IF scalar = "i64" THEN Signed(n, Bits["word"]) ELSE Unsigned(n, Bits["word"])

\* A bigint in words: how many it has, and its magnitude.  Words it does not
\* have are left as they were found, and nothing has written them before.
Magnitude(n) == IF n < 0 THEN -n ELSE n
Words(n) ==
    IF n = 0 THEN 0 ELSE CHOOSE w \in 1 .. 9 :
        2 ^ (Bits["word"] * (w - 1)) <= Magnitude(n) /\ Magnitude(n) < 2 ^ (Bits["word"] * w)
WideTakes(scalar, n) == Words(n) <= 2 /\ (scalar = "u128" => n >= 0)
WideMagnitude(n, stale) ==
    LET word == 2 ^ Bits["word"]
        low == IF Words(n) >= 1 THEN Magnitude(n) % word ELSE stale[1]
        high == IF Words(n) >= 2 THEN Magnitude(n) \div word ELSE stale[2]
    IN  high * word + low
WideValue(scalar, n, stale) ==
    LET magnitude == WideMagnitude(n, stale)
    IN  IF scalar = "u128" THEN magnitude
        ELSE Signed(IF n < 0 THEN -magnitude ELSE magnitude, 2 * Bits["word"])

\* A short float keeps the significand's bits.
Rounded(n) ==
    IF Magnitude(n) < 2 ^ Bits["f32"] THEN n ELSE (n \div 2) * 2

Narrow == {"i8", "i16", "i32", "u8", "u16", "u32"}

\* Is the value one this scalar type takes?
ScalarTakes(scalar, v) ==
    CASE scalar = "bool" -> v.js = "boolean"
      [] scalar \in {"i64", "u64"} -> v.js = "bigint" /\ Lossless(scalar, v.n)
      [] scalar \in {"i128", "u128"} -> v.js = "bigint" /\ WideTakes(scalar, v.n)
      [] scalar \in {"f32", "f64"} -> v.js = "number"
      [] scalar = "char" -> v.js = "number" /\ CharTakes(Loaded(scalar, v))
      [] scalar \in Narrow -> v.js = "number" /\ InRange(scalar, Loaded(scalar, v))

\* The native value it becomes.
ScalarValue(scalar, v, stale) ==
    CASE scalar = "bool" -> IF v.b THEN 1 ELSE 0
      [] scalar \in {"i64", "u64", "f64"} -> v.n
      [] scalar \in {"i128", "u128"} -> WideValue(scalar, v.n, stale)
      [] scalar = "f32" -> Rounded(v.n)
      [] scalar = "u8" -> Unsigned(Loaded(scalar, v), Bits["i8"])
      [] scalar = "u16" -> Unsigned(Loaded(scalar, v), Bits["i16"])
      [] OTHER -> Loaded(scalar, v)

\* Arguments: a present optional is a sequence of one.
RECURSIVE ArgumentValue(_, _, _)
ArgumentValue(ty, v, stale) ==
    LET shape == Shape(ty)
    IN  CASE shape.kind = "scalar" -> ScalarValue(shape.scalar, v, stale)
          [] shape.kind \in {"string", "bytes"} -> v.text
          [] shape.kind = "optional" ->
               IF v.js = "undefined" THEN <<>> ELSE <<ArgumentValue(shape.of, v, stale)>>
          [] shape.kind \in {"fixed", "array"} ->
               [i \in DOMAIN v.elements |-> ArgumentValue(shape.of, v.elements[i], stale)]

-----------------------------------------------------------------------------
(* Results.  The two words of a wide integer are those of its bits, its sign *)
(* is given besides, and JavaScript takes them for a magnitude.              *)
WideResult(scalar, n) ==
    IF scalar = "i128" /\ n < 0 THEN BigInt(-Unsigned(n, 2 * Bits["word"])) ELSE BigInt(n)

ScalarResult(scalar, n) ==
    CASE scalar = "bool" -> Boolean(n = 1)
      [] scalar \in {"i64", "u64"} -> BigInt(n)
      [] scalar \in {"i128", "u128"} -> WideResult(scalar, n)
      [] OTHER -> Number(n)

RECURSIVE ResultValue(_, _)
ResultValue(ty, v) ==
    LET shape == Shape(ty)
    IN  CASE shape.kind = "void" -> Undefined
          [] shape.kind = "scalar" -> ScalarResult(shape.scalar, v)
          [] shape.kind = "string" -> Text(v)
          [] shape.kind = "bytes" -> Octets(v)
          [] shape.kind = "optional" ->
               IF v = <<>> THEN Undefined ELSE ResultValue(shape.of, v[1])
          [] shape.kind \in {"fixed", "array"} ->
               List([i \in DOMAIN v |-> ResultValue(shape.of, v[i])])
          [] shape.kind = "promise" -> ResultValue(shape.of, v)

=============================================================================
