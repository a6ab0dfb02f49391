---------------------------- MODULE CheckedLayout ----------------------------
(***************************************************************************)
(* The JS_CHECK_JSVALUE layout (quickjs.h 131-163), built on a 64-bit     *)
(* host: a JSValue is a pointer-sized integer, the tag in its low 4 bits   *)
(* and the payload shifted left by 4 above it. It is kept as low (the      *)
(* value & 15) and high (the value >> 4, an arithmetic shift).            *)
(***************************************************************************)
EXTENDS CArith, JSTags, Bitwise

CONSTANT CvtOverflow    \* what (int)d yields out of the int range

CKValues == [low : 0 .. 15, high : MinI32 .. MaxI32]

(* tag | (intptr_t)val << 4: a negative tag sign-extends, and its ones    *)
(* cover every payload bit.                                                *)
JS_MKVAL(tag, val) == [low |-> tag % 16, high |-> IF tag < 0 THEN -1 ELSE val]

\* tag | (intptr_t)ptr for a 32-bit address zero-extended to 64 bits.
JS_MKPTR(tag, ptr) ==
    [low  |-> (tag % 16) | (ptr.m % 16),
     high |-> IF tag < 0 THEN -1 ELSE (ptr.s * 2^27) + (ptr.m \div 16)]

JS_VALUE_GET_TAG(v)           == v.low
JS_VALUE_GET_NORM_TAG(v)      == v.low
JS_VALUE_GET_INT(v)           == v.high
JS_VALUE_GET_SHORT_BIG_INT(v) == v.high

\* v & ~15 as a 64-bit [hi, lo] pair.
JS_VALUE_GET_PTR(v) ==
    LET h == v.high % 2^28
    IN  [hi |-> IF v.high < 0 THEN W(1, MaxI32) ELSE ZeroW,
         lo |-> W(h \div 2^27, (h % 2^27) * 16)]

JS_VALUE_GET_FLOAT64(v) == ToDouble(I64OfInt(v.high))

JS_TAG_IS_FLOAT64(tag) == tag = JS_TAG_FLOAT64

JS_NAN == JS_MKVAL(JS_TAG_FLOAT64, 0)

__JS_NewFloat64(d) == JS_MKVAL(JS_TAG_FLOAT64, DoubleToInt(d, CvtOverflow))

\* The int32_t parameter: an int64_t argument is converted at the call.
__JS_NewShortBigInt(d) == JS_MKVAL(JS_TAG_SHORT_BIG_INT, TruncInt32(d))

JS_VALUE_IS_NAN(v) == FALSE

API == INSTANCE JSValueAPI
=============================================================================
