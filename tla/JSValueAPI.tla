----------------------------- MODULE JSValueAPI -----------------------------
(***************************************************************************)
(* The layout-independent inline part of quickjs.h: the constructors and  *)
(* predicates written once over the layout macros.  A layout module       *)
(* defines the macros below and instantiates this module, which takes      *)
(* them by name.                                                           *)
(***************************************************************************)
EXTENDS CArith, JSTags

CONSTANTS
    JS_MKVAL(_, _),
    JS_VALUE_GET_TAG(_),
    JS_TAG_IS_FLOAT64(_),
    __JS_NewFloat64(_)

\* JS_VALUE_IS_BOTH_INT: (tag1 | tag2) == 0 holds exactly when both are 0.
JS_VALUE_IS_BOTH_INT(v1, v2) ==
    WordOfInt(JS_VALUE_GET_TAG(v1)) = ZeroW /\ WordOfInt(JS_VALUE_GET_TAG(v2)) = ZeroW

JS_VALUE_IS_BOTH_FLOAT(v1, v2) ==
    JS_TAG_IS_FLOAT64(JS_VALUE_GET_TAG(v1)) /\ JS_TAG_IS_FLOAT64(JS_VALUE_GET_TAG(v2))

\* (unsigned)tag >= (unsigned)JS_TAG_FIRST
JS_VALUE_HAS_REF_COUNT(v) ==
    ~ULt(WordOfInt(JS_VALUE_GET_TAG(v)), WordOfInt(JS_TAG_FIRST))

JS_NULL          == JS_MKVAL(JS_TAG_NULL, 0)
JS_UNDEFINED     == JS_MKVAL(JS_TAG_UNDEFINED, 0)
JS_FALSE         == JS_MKVAL(JS_TAG_BOOL, 0)
JS_TRUE          == JS_MKVAL(JS_TAG_BOOL, 1)
JS_EXCEPTION     == JS_MKVAL(JS_TAG_EXCEPTION, 0)
JS_UNINITIALIZED == JS_MKVAL(JS_TAG_UNINITIALIZED, 0)

JS_NewBool(val) == JS_MKVAL(JS_TAG_BOOL, IF val THEN 1 ELSE 0)

JS_NewInt32(val) == JS_MKVAL(JS_TAG_INT, val)

JS_NewFloat64(d) == __JS_NewFloat64(d)

JS_NewCatchOffset(val) == JS_MKVAL(JS_TAG_CATCH_OFFSET, val)

\* val is an int64_t given as sign and magnitude (CArith).
JS_NewInt64(val) ==
    IF FitsInt32(val) THEN JS_NewInt32(TruncInt32(val))
                      ELSE JS_NewFloat64(ToDouble(val))

JS_NewUint32(val) ==
    IF val.s = 0 THEN JS_NewInt32(val.m)
                 ELSE JS_NewFloat64(ToDouble(I64(FALSE, 0, val)))

JS_IsNumber(v) ==
    JS_VALUE_GET_TAG(v) = JS_TAG_INT \/ JS_TAG_IS_FLOAT64(JS_VALUE_GET_TAG(v))

JS_IsBigInt(v) ==
    JS_VALUE_GET_TAG(v) \in {JS_TAG_BIG_INT, JS_TAG_SHORT_BIG_INT}

\* JS_IsBool, JS_IsNull, ... JS_IsModule: one tag comparison each.
JS_IsTag(v, tag) == JS_VALUE_GET_TAG(v) = tag
=============================================================================
