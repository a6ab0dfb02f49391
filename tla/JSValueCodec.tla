---------------------------- MODULE JSValueCodec ----------------------------
(***************************************************************************)
(* The value layouts of quickjs.h side by side.  Each step calls one     *)
(* constructor of the public inline API with one argument, encodes the    *)
(* result in the NaN-boxed layout (nb), the struct layout (st) and the     *)
(* JS_CHECK_JSVALUE layout (ck), and keeps it with the logical argument it *)
(* was made from (x).  The last two results are kept, so that properties  *)
(* can compare two values built by different constructors.               *)
(***************************************************************************)
EXTENDS CArith, JSTags, Sequences

CONSTANTS
    Int32Args,      \* int32_t arguments (TLC integers)
    Uint32Args,     \* uint32_t arguments (words)
    Int64Args,      \* int64_t arguments (CArith sign and magnitude)
    DoubleArgs,     \* double arguments (IEEE bits [hi, lo])
    PtrArgs,        \* 32-bit heap addresses (words)
    JunkWords,      \* what an uninitialised half of a union may hold
    CvtOverflow     \* what (int)d yields out of the int range

ASSUME Int32Args \subseteq MinI32 .. MaxI32
ASSUME Uint32Args \subseteq Words /\ PtrArgs \subseteq Words /\ JunkWords \subseteq Words
ASSUME \A x \in Int64Args : x.hi < 2^20

NB == INSTANCE NanBoxLayout
(* The struct layout of a value whose unwritten union bytes hold j.  Its  *)
(* getters and predicates read no byte JS_MKVAL leaves unset, so the       *)
(* results are decoded through STR, the instance with zero there.          *)
ST(j) == INSTANCE StructLayout WITH Unset <- j
STR == INSTANCE StructLayout WITH Unset <- ZeroW
CK == INSTANCE CheckedLayout

VARIABLE regs       \* <<newest, previous>> results

vars == <<regs>>

\* A result: the logical argument and its encoding in the three layouts.
Result(kind, x, nb, st, ck) == [kind |-> kind, x |-> x, nb |-> nb, st |-> st, ck |-> ck]

Store(r) == regs' = <<r, regs[1]>>

\* A pointer in the struct layout: the 32-bit address zero-extended.
Ptr64(p) == [hi |-> ZeroW, lo |-> p]

NewBool(b, j) ==
    Store(Result("bool", b, NB!API!JS_NewBool(b), ST(j)!API!JS_NewBool(b),
                 CK!API!JS_NewBool(b)))

NewInt32(i, j) ==
    Store(Result("int", I64OfInt(i), NB!API!JS_NewInt32(i), ST(j)!API!JS_NewInt32(i),
                 CK!API!JS_NewInt32(i)))

NewInt64(x, j) ==
    Store(Result("int", x, NB!API!JS_NewInt64(x), ST(j)!API!JS_NewInt64(x),
                 CK!API!JS_NewInt64(x)))

NewUint32(w, j) ==
    Store(Result("int", I64(FALSE, 0, w), NB!API!JS_NewUint32(w), ST(j)!API!JS_NewUint32(w),
                 CK!API!JS_NewUint32(w)))

NewFloat64(d) ==
    Store(Result("double", d, NB!API!JS_NewFloat64(d), STR!API!JS_NewFloat64(d),
                 CK!API!JS_NewFloat64(d)))

NewCatchOffset(i, j) ==
    Store(Result("catch", i, NB!API!JS_NewCatchOffset(i), ST(j)!API!JS_NewCatchOffset(i),
                 CK!API!JS_NewCatchOffset(i)))

(* A heap value of a reference-counted kind at address p (JS_MKPTR, the   *)
(* way the engine wraps a freshly allocated object, string, symbol, ...). *)
MkPtr(tag, p) ==
    Store(Result("ptr", [tag |-> tag, p |-> p], NB!JS_MKPTR(tag, p), STR!JS_MKPTR(tag, Ptr64(p)),
                 CK!JS_MKPTR(tag, p)))

(* A BigInt from an int64_t (the caller of __JS_NewShortBigInt, outside   *)
(* quickjs.h): the compact tag when the value fits the int32_t payload,   *)
(* else a heap BigInt at address p.                                       *)
ShortBigIntFits(x) == FitsInt32(x)

NewBigInt64(x, p, j) ==
    Store(IF ShortBigIntFits(x)
          THEN Result("bigint", x, NB!__JS_NewShortBigInt(x), ST(j)!__JS_NewShortBigInt(x),
                                   CK!__JS_NewShortBigInt(x))
          ELSE Result("bigint", x, NB!JS_MKPTR(JS_TAG_BIG_INT, p),
                                   STR!JS_MKPTR(JS_TAG_BIG_INT, Ptr64(p)),
                                   CK!JS_MKPTR(JS_TAG_BIG_INT, p)))

\* The special constants JS_NULL, JS_UNDEFINED, JS_EXCEPTION, JS_UNINITIALIZED.
Special(tag, j) ==
    Store(Result("special", tag, NB!JS_MKVAL(tag, 0), ST(j)!JS_MKVAL(tag, 0), CK!JS_MKVAL(tag, 0)))

SpecialTags == {JS_TAG_NULL, JS_TAG_UNDEFINED, JS_TAG_EXCEPTION, JS_TAG_UNINITIALIZED}

Init ==
    \E j \in JunkWords :
        regs = << Result("special", JS_TAG_UNDEFINED, NB!API!JS_UNDEFINED, ST(j)!API!JS_UNDEFINED, CK!API!JS_UNDEFINED),
                  Result("special", JS_TAG_UNDEFINED, NB!API!JS_UNDEFINED, ST(j)!API!JS_UNDEFINED, CK!API!JS_UNDEFINED) >>

(* j: what the stack slot of the struct layout's JSValue held before.     *)
Next ==
    \/ \E d \in DoubleArgs : NewFloat64(d)
    \/ \E tag \in RefCountedTags, p \in PtrArgs : MkPtr(tag, p)
    \/ \E j \in JunkWords :
          \/ \E b \in BOOLEAN : NewBool(b, j)
          \/ \E i \in Int32Args : NewInt32(i, j) \/ NewCatchOffset(i, j)
          \/ \E x \in Int64Args : NewInt64(x, j)
          \/ \E w \in Uint32Args : NewUint32(w, j)
          \/ \E x \in Int64Args, p \in PtrArgs : NewBigInt64(x, p, j)
          \/ \E tag \in SpecialTags : Special(tag, j)

Spec == Init /\ [][Next]_vars

-----------------------------------------------------------------------------
Kinds == {"bool", "int", "double", "catch", "ptr", "bigint", "special"}

\* Every result is a well-formed value of each layout, and the NaN-boxed
\* normalised tag is one of the enumerated tags.
TypeOK ==
    \A i \in 1 .. 2 :
        /\ regs[i].kind \in Kinds
        /\ regs[i].nb \in NB!NBValues
        /\ regs[i].st \in STR!STValues
        /\ regs[i].ck \in CK!CKValues
        /\ NB!JS_VALUE_GET_NORM_TAG(regs[i].nb) \in Tags

\* IEEE 754: a NaN has an all-ones exponent and a non-zero fraction.
IsNaN(d) == d.hi.m \div 2^20 = 2047 /\ (d.hi.m % 2^20 # 0 \/ d.lo # ZeroW)

\* The canonical quiet NaN, 0x7ff8000000000000.
CanonicalNaN == [hi |-> W(0, 2146959360), lo |-> ZeroW]

\* The results that must point at a heap object.
IsHeap(r) == r.kind = "ptr" \/ (r.kind = "bigint" /\ ~ShortBigIntFits(r.x))

(* JS_VALUE_HAS_REF_COUNT, the test JS_FreeValue and JS_DupValue make      *)
(* before touching the header at the pointer, holds exactly for the heap  *)
(* values in both layouts: no double bit pattern (NaN payloads included), *)
(* int, bool or special constant is ever taken for a heap object.         *)
RefCountClassSound ==
    \A i \in 1 .. 2 :
        /\ NB!API!JS_VALUE_HAS_REF_COUNT(regs[i].nb) <=> IsHeap(regs[i])
        /\ STR!API!JS_VALUE_HAS_REF_COUNT(regs[i].st) <=> IsHeap(regs[i])

(* Decoding a NaN-boxed value gives back what the constructor was given:  *)
(* the tag JS_VALUE_GET_NORM_TAG reports and the payload its getter       *)
(* reads; a NaN argument of any sign or payload comes back as the one     *)
(* canonical JS_NAN, and every other double bit for bit.                  *)
RoundTrip ==
    \A i \in 1 .. 2 :
        LET r   == regs[i]
            v   == r.nb
            tag == NB!JS_VALUE_GET_NORM_TAG(v)
        IN  CASE r.kind = "int" ->
                   IF FitsInt32(r.x)
                   THEN tag = JS_TAG_INT /\ I64OfInt(NB!JS_VALUE_GET_INT(v)) = r.x
                   ELSE tag = JS_TAG_FLOAT64 /\ NB!JS_VALUE_GET_FLOAT64(v) = ToDouble(r.x)
              [] r.kind = "double" ->
                   /\ tag = JS_TAG_FLOAT64
                   /\ NB!JS_VALUE_IS_NAN(v) = IsNaN(r.x)
                   /\ NB!JS_VALUE_GET_FLOAT64(v) = IF IsNaN(r.x) THEN CanonicalNaN ELSE r.x
              [] r.kind = "bool" ->
                   tag = JS_TAG_BOOL /\ NB!JS_VALUE_GET_INT(v) = IF r.x THEN 1 ELSE 0
              [] r.kind = "catch" ->
                   tag = JS_TAG_CATCH_OFFSET /\ NB!JS_VALUE_GET_INT(v) = r.x
              [] r.kind = "ptr" ->
                   tag = r.x.tag /\ NB!JS_VALUE_GET_PTR(v) = r.x.p
              [] r.kind = "bigint" ->
                   IF ShortBigIntFits(r.x)
                   THEN /\ tag = JS_TAG_SHORT_BIG_INT
                        /\ I64OfInt(NB!JS_VALUE_GET_SHORT_BIG_INT(v)) = r.x
                   ELSE tag = JS_TAG_BIG_INT
              [] r.kind = "special" -> tag = r.x

(* The NaN-boxed and the struct layout agree on every result: same        *)
(* normalised tag, same payload through the getters (NaNs compare as      *)
(* NaNs), same answers from the inline predicates, and the same           *)
(* JS_VALUE_IS_BOTH_INT / JS_VALUE_IS_BOTH_FLOAT verdict on the pair.     *)
LayoutsAgree ==
    /\ \A i \in 1 .. 2 :
        LET n == regs[i].nb
            s == regs[i].st
            tag == STR!JS_VALUE_GET_NORM_TAG(s)
        IN  /\ NB!JS_VALUE_GET_NORM_TAG(n) = tag
            /\ tag \in Int32PayloadTags =>
                   NB!JS_VALUE_GET_INT(n) = STR!JS_VALUE_GET_INT(s)
            /\ tag = JS_TAG_FLOAT64 =>
                   IF STR!JS_VALUE_IS_NAN(s) THEN NB!JS_VALUE_IS_NAN(n)
                   ELSE NB!JS_VALUE_GET_FLOAT64(n) = STR!JS_VALUE_GET_FLOAT64(s)
            /\ tag \in RefCountedTags =>
                   Ptr64(NB!JS_VALUE_GET_PTR(n)) = STR!JS_VALUE_GET_PTR(s)
            /\ NB!API!JS_IsNumber(n) = STR!API!JS_IsNumber(s)
            /\ NB!API!JS_IsBigInt(n) = STR!API!JS_IsBigInt(s)
    /\ NB!API!JS_VALUE_IS_BOTH_INT(regs[1].nb, regs[2].nb)
         = STR!API!JS_VALUE_IS_BOTH_INT(regs[1].st, regs[2].st)
    /\ NB!API!JS_VALUE_IS_BOTH_FLOAT(regs[1].nb, regs[2].nb)
         = STR!API!JS_VALUE_IS_BOTH_FLOAT(regs[1].st, regs[2].st)

(* Two struct-layout numbers read alike: the same tag, and the same int32 *)
(* or double through the getter of that tag (the union bytes an int32     *)
(* leaves unset may differ).                                               *)
STSameNumber(a, b) ==
    /\ a.tag = b.tag
    /\ a.tag = JS_TAG_INT => STR!JS_VALUE_GET_INT(a) = STR!JS_VALUE_GET_INT(b)
    /\ a.tag = JS_TAG_FLOAT64 => STR!JS_VALUE_GET_FLOAT64(a) = STR!JS_VALUE_GET_FLOAT64(b)

=============================================================================
