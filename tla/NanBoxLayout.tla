---------------------------- MODULE NanBoxLayout ----------------------------
(***************************************************************************)
(* The NaN-boxed layout (JS_NAN_BOXING, the default on 32-bit hosts): a   *)
(* JSValue is one uint64_t, kept as its high word hi (the tag) and its low *)
(* word lo (int32 payload or 32-bit pointer).  A double is stored as its   *)
(* bits minus JS_FLOAT64_TAG_ADDEND << 32, after NaNs are made canonical,  *)
(* so that every float decodes to a tag outside JS_TAG_FIRST..FLOAT64-1.   *)
(* A double is the record [hi, lo] of its IEEE bits.                       *)
(***************************************************************************)
EXTENDS CArith, JSTags

Doubles  == [hi : Words, lo : Words]
NBValues == [hi : Words, lo : Words]

JS_VALUE_GET_TAG(v)           == IntOfWord(v.hi)
JS_VALUE_GET_INT(v)           == IntOfWord(v.lo)
JS_VALUE_GET_SHORT_BIG_INT(v) == IntOfWord(v.lo)
JS_VALUE_GET_PTR(v)           == v.lo

\* Mutant: the (uint32_t) cast dropped, a negative val sign-extends over the tag.
MkValNoUint32Cast(tag, val) ==
    [hi |-> IF val < 0 THEN W(1, MaxI32) ELSE WordOfInt(tag), lo |-> WordOfInt(val)]

JS_MKVAL(tag, val) == [hi |-> WordOfInt(tag), lo |-> WordOfInt(val)]
JS_MKPTR(tag, ptr) == [hi |-> WordOfInt(tag), lo |-> ptr]

QNaNHigh == 2146959360          \* 0x7ff80000
InfHigh  == 2146435072          \* 0x7ff00000

JS_FLOAT64_TAG_ADDEND == (QNaNHigh - JS_TAG_FIRST) + 1

JS_VALUE_GET_FLOAT64(v) == [hi |-> AddW(v.hi, JS_FLOAT64_TAG_ADDEND), lo |-> v.lo]

JS_NAN == [hi |-> SubW(W(0, QNaNHigh), JS_FLOAT64_TAG_ADDEND), lo |-> ZeroW]

\* Mutant: >= for >, infinities taken for NaNs.
IsNaNBitsWithInf(d) == d.hi.m >= InfHigh

\* (u.u64 & 0x7fffffffffffffff) > 0x7ff0000000000000
IsNaNBits(d) == d.hi.m > InfHigh \/ (d.hi.m = InfHigh /\ d.lo # ZeroW)

\* Mutant: no NaN normalisation.
NewFloat64Unnormalised(d) == [hi |-> SubW(d.hi, JS_FLOAT64_TAG_ADDEND), lo |-> d.lo]

__JS_NewFloat64(d) ==
    IF IsNaNBits(d) THEN JS_NAN
    ELSE [hi |-> SubW(d.hi, JS_FLOAT64_TAG_ADDEND), lo |-> d.lo]

\* The int32_t parameter: an int64_t argument is converted at the call.
__JS_NewShortBigInt(d) == JS_MKVAL(JS_TAG_SHORT_BIG_INT, TruncInt32(d))

\* (unsigned)(tag - JS_TAG_FIRST) >= (JS_TAG_FLOAT64 - JS_TAG_FIRST)
JS_TAG_IS_FLOAT64(tag) ==
    ~ULt(AddW(WordOfInt(tag), -JS_TAG_FIRST), W(0, JS_TAG_FLOAT64 - JS_TAG_FIRST))

\* Mutant: the raw tag, as JS_VALUE_GET_TAG.
GetNormTagRaw(v) == JS_VALUE_GET_TAG(v)

JS_VALUE_GET_NORM_TAG(v) ==
    IF JS_TAG_IS_FLOAT64(JS_VALUE_GET_TAG(v)) THEN JS_TAG_FLOAT64
                                             ELSE JS_VALUE_GET_TAG(v)

JS_VALUE_IS_NAN(v) == v.hi = JS_NAN.hi

API == INSTANCE JSValueAPI
=============================================================================
