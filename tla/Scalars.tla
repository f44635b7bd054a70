------------------------------ MODULE Scalars ------------------------------
(***************************************************************************)
(* What compiled operators compute (lower_rvalue, lower_binary and         *)
(* lower_cast of crates/tn-codegen-llvm/src/lib.rs), and the functions the *)
(* code generator supplies for Ord, Equal and Hash on built-in types.      *)
(*                                                                         *)
(* An integer is its bits, a number from 0; a float is a record of its     *)
(* bits and its place in the order, or Nan; a text is a sequence of bytes. *)
(***************************************************************************)
EXTENDS Integers, Sequences, Bitwise

CONSTANTS
    IntegerTypes,   \* records of a number of bits and a sign
    Operands,       \* the values of each that are tried
    HashBits,       \* bits of a hash (u64)
    HashStart, HashPrime,
    ByteBits,       \* bits of a byte
    Floats, Nan,
    Texts,
    OtherValues,         \* sets of values of one type each, neither numbers nor texts
    Panic, Approximate, Unsupported, NotYet   \* results: the last, that the generator has no code

ASSUME TypesHaveBits == \A ty \in IntegerTypes : ty.bits \in Nat \ {0} /\ ty.signed \in BOOLEAN

VARIABLES operation, result   \* what is computed, of which operands, and what it gave

scalars == <<operation, result>>

number(ty, x) == IF ty.signed /\ x >= 2 ^ (ty.bits - 1) THEN x - 2 ^ ty.bits ELSE x
bitsOf(ty, n) == n % 2 ^ ty.bits
fits(ty, n) == number(ty, bitsOf(ty, n)) = n
AllBits(ty) == 0 .. 2 ^ ty.bits - 1
Minimum(ty) == 2 ^ (ty.bits - 1)
AllOnes(ty) == 2 ^ ty.bits - 1

guard(valid, x) == IF valid THEN x ELSE Panic

\* LLVM's intrinsics: the result, and whether it is too large for the type.
WithOverflow(operator, ty, left, right) ==
    LET l == number(ty, left)
        r == number(ty, right)
        n == CASE operator = "+" -> l + r [] operator = "-" -> l - r [] operator = "*" -> l * r
    IN [value |-> bitsOf(ty, n), overflow |-> ~fits(ty, n)]

checked_integer_arithmetic(operator, ty, left, right) ==
    LET checked == WithOverflow(operator, ty, left, right) IN guard(~checked.overflow, checked.value)

\* LLVM's shr: copies of the sign come in from the left, or zeros.
right_shift(ty, x, count) == bitsOf(ty, number(ty, x) \div 2 ^ count)

guard_shift_count(ty, count) == count < ty.bits

\* Mutant: nobody looks for the bits that are shifted out.
checked_left_shift_unchecked(ty, left, right) ==
    IF guard_shift_count(ty, right) THEN bitsOf(ty, left * 2 ^ right) ELSE Panic

checked_left_shift(ty, left, right) ==
    IF ~guard_shift_count(ty, right) THEN Panic
    ELSE LET shifted == bitsOf(ty, left * 2 ^ right)
             restored == right_shift(ty, shifted, right)
         IN guard(restored = left, shifted)

\* LLVM's div and rem round to zero.
Absolute(n) == IF n < 0 THEN -n ELSE n
quotient(ty, left, right) ==
    LET l == number(ty, left)
        r == number(ty, right)
        q == Absolute(l) \div Absolute(r)
    IN IF (l < 0) = (r < 0) THEN q ELSE -q
remainder(ty, left, right) == number(ty, left) - quotient(ty, left, right) * number(ty, right)

divided(operator, ty, left, right) ==
    IF right = 0 THEN Panic
    ELSE guard(~(ty.signed /\ left = Minimum(ty) /\ right = AllOnes(ty)),
               bitsOf(ty, IF operator = "/" THEN quotient(ty, left, right) ELSE remainder(ty, left, right)))

integer_predicate(operator, ty, left, right) ==
    LET l == number(ty, left)
        r == number(ty, right)
    IN CASE operator = "===" -> left = right [] operator = "!==" -> left # right
         [] operator = "<" -> l < r [] operator = "<=" -> l <= r
         [] operator = ">" -> l > r [] operator = ">=" -> l >= r

Arithmetic == {"+", "-", "*"}
Comparisons == {"===", "!==", "<", "<=", ">", ">="}
Operators == Arithmetic \cup Comparisons \cup {"/", "%", "<<", ">>", "&", "|", "^"}

lower_integer_binary(operator, ty, left, right) ==
    CASE operator \in Arithmetic -> checked_integer_arithmetic(operator, ty, left, right)
      [] operator \in {"/", "%"} -> divided(operator, ty, left, right)
      [] operator = "<<" -> checked_left_shift(ty, left, right)
      [] operator = ">>" -> IF guard_shift_count(ty, right) THEN right_shift(ty, left, right) ELSE Panic
      [] operator = "&" -> left & right
      [] operator = "|" -> left | right
      [] operator = "^" -> left ^^ right
      [] operator \in Comparisons -> integer_predicate(operator, ty, left, right)

\* A float's arithmetic rounds and is left out; a comparison with Nan is false, but for !==.
lower_float_binary(operator, left, right) ==
    CASE operator \in Arithmetic \cup {"/", "%"} -> Approximate
      [] operator \notin Arithmetic \cup {"/", "%"} \cup Comparisons -> Unsupported
      [] operator \in Comparisons /\ Nan \in {left, right} -> operator = "!=="
      [] operator \in Comparisons /\ Nan \notin {left, right} ->
            CASE operator = "===" -> left.order = right.order [] operator = "!==" -> left.order # right.order
              [] operator = "<" -> left.order < right.order [] operator = "<=" -> left.order <= right.order
              [] operator = ">" -> left.order > right.order [] operator = ">=" -> left.order >= right.order

\* build_int_cast: a narrower integer is extended by copies of its highest bit, of whatever type it is.
lower_cast(from, x, bits) == IF bits > from THEN number([bits |-> from, signed |-> TRUE], x) % 2 ^ bits ELSE x % 2 ^ bits

----------------------------------------------------------------------------
\* A value of the language is [of, type, is].

OfInteger(ty, x) == [of |-> "integer", type |-> ty, is |-> x]
OfFloat(x) == [of |-> "float", type |-> "f64", is |-> x]
OfText(x) == [of |-> "string", type |-> "string", is |-> x]

\* memcmp of the first n bytes: the first two that differ decide.
memcmp(left, right, n) ==
    LET differ == {i \in 1 .. n : left[i] # right[i]}
    IN IF differ = {} THEN 0
       ELSE LET i == CHOOSE i \in differ : \A j \in differ : i <= j IN left[i] - right[i]

stringEquals(left, right) == Len(left) = Len(right) /\ memcmp(left, right, Len(left)) = 0

\* Mutant: a text and a longer one that begins with it are the same.
stringCompareCommon(left, right) == memcmp(left, right, IF Len(left) < Len(right) THEN Len(left) ELSE Len(right))

stringCompare(left, right) ==
    LET common == IF Len(left) < Len(right) THEN Len(left) ELSE Len(right)
        status == memcmp(left, right, common)
    IN IF status # 0 THEN status ELSE Len(left) - Len(right)

u64 == [bits |-> HashBits, signed |-> FALSE]
Plus(x, y) == IF x = Panic THEN Panic ELSE checked_integer_arithmetic("+", u64, x, y)

\* Each byte is cast to u64 and added, with its index, to the hash so far.
bytesHash(text) ==
    LET hash[i \in 0 .. Len(text)] ==
            IF i = 0 THEN HashStart
            ELSE LET sum == Plus(Plus(hash[i - 1], lower_cast(ByteBits, text[i], HashBits)), i - 1)
                 IN IF sum = Panic THEN Panic ELSE sum % HashPrime
    IN Plus(hash[Len(text)], Len(text) % HashPrime)

Ordering(less, greater) == IF greater THEN "Greater" ELSE IF less THEN "Less" ELSE "Equal"

builtin_ord(a, b) ==
    CASE a.of = "integer" -> Ordering(integer_predicate("<", a.type, a.is, b.is), integer_predicate(">", a.type, a.is, b.is))
      [] a.of = "float" -> Ordering(lower_float_binary("<", a.is, b.is), lower_float_binary(">", a.is, b.is))
      [] a.of = "string" -> Ordering(stringCompare(a.is, b.is) < 0, stringCompare(a.is, b.is) > 0)

builtin_equal(a, b) ==
    CASE a.of = "integer" -> a.is = b.is
      [] a.of = "float" -> lower_float_binary("===", a.is, b.is)
      [] a.of = "string" -> stringEquals(a.is, b.is)

builtin_hash(a) ==
    CASE a.of = "float" -> IF a.is = Nan THEN 0 ELSE a.is.bits
      [] a.of = "string" -> bytesHash(a.is)
      [] a.of = "integer" -> IF a.type.bits <= HashBits THEN bitsOf(u64, number(a.type, a.is))
                             ELSE (a.is % 2 ^ HashBits) ^^ (a.is \div 2 ^ HashBits)

----------------------------------------------------------------------------
\* The operators of the language.

InterfaceOf(operator) ==
    CASE operator = "+" -> "Add" [] operator = "-" -> "Sub" [] operator = "*" -> "Mul" [] operator = "/" -> "Div"
      [] operator = "%" -> "Rem" [] operator = "&" -> "BitAnd" [] operator = "|" -> "BitOr" [] operator = "^" -> "BitXor"
      [] operator = "<<" -> "Shl" [] operator = ">>" -> "Shr" [] operator \in {"===", "!=="} -> "Equal" [] OTHER -> "Ord"

is_numeric(a) == a.of \in {"integer", "float"}

\* What the type checker accepts, of two operands of one type.
supports_operator(a, operator) ==
    \/ is_numeric(a)
    \/ operator \in {"===", "!=="} /\ a.of \in {"bool", "char", "string", "optional", "class"}
    \/ a.of \in {"struct", "class"} /\ InterfaceOf(operator) \in a.type
prefix(a, operator) == IF operator = "!" THEN a.of = "bool" ELSE is_numeric(a)

lower_string_binary(operator, left, right) ==
    CASE operator = "===" -> stringEquals(left, right) [] operator = "!==" -> ~stringEquals(left, right)
      [] operator = "<" -> stringCompare(left, right) < 0 [] operator = "<=" -> stringCompare(left, right) <= 0
      [] operator = ">" -> stringCompare(left, right) > 0 [] operator = ">=" -> stringCompare(left, right) >= 0
      [] OTHER -> Unsupported

\* The tags decide, whatever the values are.
lower_optional_equality(operator, left, right) == (left.present = right.present) = (operator = "===")

lower_pointer_binary(operator, left, right) ==
    IF operator \in {"===", "!=="} THEN (left = right) = (operator = "===") ELSE Unsupported

\* A struct is none of what this can compute, and no operator calls a method.
lower_binary(operator, a, b) ==
    CASE a.of = "string" -> lower_string_binary(operator, a.is, b.is)
      [] a.of = "optional" -> lower_optional_equality(operator, a.is, b.is)
      [] a.of = "class" -> lower_pointer_binary(operator, a.is, b.is)
      [] a.of = "float" -> lower_float_binary(operator, a.is, b.is)
      [] a.of \in {"integer", "bool", "char"} -> lower_integer_binary(operator, a.type, a.is, b.is)
      [] a.of = "struct" -> Unsupported

lower_unary(operator, a) ==
    CASE operator = "!" -> 1 - a.is
      [] a.of = "float" -> IF operator = "-" THEN Approximate ELSE Unsupported
      [] operator = "-" -> checked_integer_arithmetic("-", a.type, 0, a.is)
      [] operator = "~" -> AllOnes(a.type) - a.is

----------------------------------------------------------------------------
Asked(kind, operator, a, b) == operation = [kind |-> kind, operator |-> operator, left |-> a, right |-> b]

\* What a program can ask of two values of one type.
Operation(a, b) ==
    \/ \E operator \in Operators : Asked("binary", operator, a, b)
    \/ a = b /\ \E operator \in {"-", "~", "!"} : Asked("unary", operator, a, b)
    \/ a.of \in {"integer", "float", "string"} /\ Asked("interfaces", "", a, b)

ScalarsInit ==
    /\ result = NotYet
    /\ \/ \E ty \in IntegerTypes : \E x, y \in Operands[ty] : Operation(OfInteger(ty, x), OfInteger(ty, y))
       \/ \E x, y \in Floats \cup {Nan} : Operation(OfFloat(x), OfFloat(y))
       \/ \E x, y \in Texts : Operation(OfText(x), OfText(y))
       \/ \E i \in DOMAIN OtherValues : \E a, b \in OtherValues[i] : Operation(a, b)

CheckedBinary ==
    /\ operation.kind = "binary" /\ supports_operator(operation.left, operation.operator)
    /\ result' = lower_binary(operation.operator, operation.left, operation.right)

Unary ==
    /\ operation.kind = "unary" /\ prefix(operation.left, operation.operator)
    /\ result' = lower_unary(operation.operator, operation.left)

Interfaces ==
    /\ operation.kind = "interfaces"
    /\ LET a == operation.left
           b == operation.right
       IN result' = [ord |-> builtin_ord(a, b), back |-> builtin_ord(b, a), equal |-> builtin_equal(a, b),
                     hashes |-> <<builtin_hash(a), builtin_hash(b)>>,
                     same |-> lower_binary("===", a, b), less |-> lower_binary("<", a, b)]

ScalarsNext == result = NotYet /\ UNCHANGED operation /\ (CheckedBinary \/ Unary \/ Interfaces)

----------------------------------------------------------------------------
\* n is l / r without its fraction, and m what is left over.
Divides(l, r, n, m) == l = n * r + m /\ Absolute(m) < Absolute(r) /\ (m = 0 \/ (m < 0) = (l < 0))

\* The result of an integer operator on l and r, or a panic.
IntegerExact(ty, operator) ==
    LET left == operation.left.is
        right == operation.right.is
        l == number(ty, left)
        r == number(ty, right)
        n == number(ty, result)
        Gives(exact) == IF fits(ty, exact) THEN result # Panic /\ n = exact ELSE result = Panic
        InDigits(Digit(_, _)) ==
            \A i \in 0 .. ty.bits - 1 : (result \div 2 ^ i) % 2 = Digit((left \div 2 ^ i) % 2, (right \div 2 ^ i) % 2)
        counts == r \in 0 .. ty.bits - 1
    IN CASE operation.kind = "unary" /\ operator = "-" -> Gives(-l)
         [] operator = "+" -> Gives(l + r)
         [] operator = "-" -> Gives(l - r)
         [] operator = "*" -> Gives(l * r)
         [] operator \in {"/", "%"} ->
                IF r = 0 \/ (r = -1 /\ ~fits(ty, -l)) THEN result = Panic
                ELSE /\ result # Panic
                     /\ IF operator = "/" THEN Divides(l, r, n, l - n * r)
                        ELSE \E q \in -Absolute(l) .. Absolute(l) : Divides(l, r, q, n)
         [] operator = "<<" -> IF counts THEN Gives(l * 2 ^ r) ELSE result = Panic
         [] operator = ">>" -> IF counts THEN n * 2 ^ r <= l /\ l < (n + 1) * 2 ^ r ELSE result = Panic
         [] operator = "&" -> LET Digit(a, b) == a * b IN InDigits(Digit)
         [] operator = "|" -> LET Digit(a, b) == IF a + b = 0 THEN 0 ELSE 1 IN InDigits(Digit)
         [] operator = "^" -> LET Digit(a, b) == (a + b) % 2 IN InDigits(Digit)
         [] operator = "~" -> LET Digit(a, b) == 1 - b IN InDigits(Digit)
         [] operator \in {"===", "!=="} -> result = ((l = r) = (operator = "==="))
         [] operator \in {"<", ">="} -> result = ((l < r) = (operator = "<"))
         [] operator \in {">", "<="} -> result = ((l > r) = (operator = ">"))

\* The type takes the operator from an interface that it implements.
FromInterface(a, operator) == a.of \in {"struct", "class"} /\ InterfaceOf(operator) \in a.type

(* Every operator the type checker accepts of built-in types has code, but for *)
(* the bitwise ones of floats: on integers it gives the exact mathematical     *)
(* result, or the program panics, and that only if there is none, the result   *)
(* does not fit, or a shift count is not below the width; values are equal if  *)
(* they are the same value, objects if they are the same object, and optionals *)
(* if both hold a value or neither does (supports_operator, lower_binary,      *)
(* lower_unary).  An operator from an interface is left out here: it is what   *)
(* OperatorsHaveCode is about.                                                 *)
OperatorsExact ==
    LET a == operation.left
        b == operation.right
        operator == operation.operator
    IN (operation.kind # "interfaces" /\ result # NotYet /\ ~FromInterface(a, operator)) =>
           /\ (result = Unsupported) = (a.of = "float" /\ operator \in {"&", "|", "^", "<<", ">>", "~"})
           /\ a.of \in {"integer", "bool", "char"} =>
                 IF operator = "!" THEN result = 1 - a.is ELSE IntegerExact(a.type, operator)
           /\ a.of \in {"string", "class"} => result = ((a.is = b.is) = (operator = "==="))
           /\ a.of = "optional" => result = ((a.is.present = b.is.present) = (operator = "==="))

(* An operator that the type checker accepts, since the type takes it from an  *)
(* interface, has code: it selects the interface's witness                     *)
(* (docs/implementation-status.md:358; supports_operator, lower_binary).       *)
OperatorsHaveCode ==
    operation.kind = "binary" /\ FromInterface(operation.left, operation.operator) => result # Unsupported

(* What a table or a heap is told of two values agrees with itself and with    *)
(* the operators: equal values are ordered as equal and hash alike, the order  *)
(* is the same read backwards, and every value has a hash.  A float that is    *)
(* not a number equals nothing, and the hashes of the two zeros differ         *)
(* (declare_builtin_ord_witnesses, declare_builtin_hash_witnesses,             *)
(* declare_builtin_equal_witnesses).                                           *)
InterfacesAgree ==
    operation.kind = "interfaces" /\ result # NotYet =>
        LET a == operation.left
            b == operation.right
            zeros == a.of = "float" /\ a # b
        IN /\ Panic \notin {result.hashes[1], result.hashes[2]}
           /\ result.equal = result.same /\ (result.ord = "Less") = result.less
           /\ Nan \notin {a.is, b.is} =>
                 /\ result.equal = (result.ord = "Equal")
                 /\ result.equal /\ ~zeros => result.hashes[1] = result.hashes[2]
           /\ <<result.ord, result.back>> \in {<<"Less", "Greater">>, <<"Equal", "Equal">>, <<"Greater", "Less">>}
=============================================================================
