---------------------------- MODULE StructLayout ----------------------------
(***************************************************************************)
(* The struct layout (!JS_NAN_BOXING, the default on 64-bit hosts): a     *)
(* JSValue is { JSValueUnion u; int64_t tag; }.  The 8-byte union is kept *)
(* as the bits [hi, lo] of a little-endian host: an int32 member is the   *)
(* low word, a double or a pointer the whole 8 bytes.                     *)
(***************************************************************************)
EXTENDS CArith, JSTags

CONSTANT Unset  \* the four bytes of the union an int32 member leaves as they were

Doubles  == [hi : Words, lo : Words]
STValues == [u : [hi : Words, lo : Words], tag : Int]

JS_VALUE_GET_TAG(v)           == v.tag
JS_VALUE_GET_NORM_TAG(v)      == v.tag
JS_VALUE_GET_INT(v)           == IntOfWord(v.u.lo)
JS_VALUE_GET_FLOAT64(v)       == v.u
JS_VALUE_GET_SHORT_BIG_INT(v) == IntOfWord(v.u.lo)
JS_VALUE_GET_PTR(v)           == v.u

(* JS_MKPTR writes the whole 8-byte pointer.  JS_MKVAL writes only the    *)
(* int32 member: the C++ inline function leaves the other four bytes of   *)
(* its uninitialised local, and the C compound literal does not promise   *)
(* them either.                                                            *)
JS_MKPTR(tag, p)   == [u |-> p, tag |-> tag]
JS_MKVAL(tag, val) == [u |-> [hi |-> Unset, lo |-> WordOfInt(val)], tag |-> tag]

QNaN == [hi |-> W(0, 2146959360), lo |-> ZeroW]    \* NAN: 0x7ff8000000000000
JS_NAN == [u |-> QNaN, tag |-> JS_TAG_FLOAT64]

\* (unsigned)tag == JS_TAG_FLOAT64
JS_TAG_IS_FLOAT64(tag) == tag = JS_TAG_FLOAT64

__JS_NewFloat64(d) == [u |-> d, tag |-> JS_TAG_FLOAT64]

(* The int64_t argument is stored in the int32_t member short_big_int of  *)
(* a JSValue that is not initialised: the other four bytes of the union   *)
(* hold whatever was there.                                                *)
__JS_NewShortBigInt(d) ==
    [u |-> [hi |-> Unset, lo |-> WordOfInt(TruncInt32(d))], tag |-> JS_TAG_SHORT_BIG_INT]

\* (u.u64 & 0x7fffffffffffffff) > 0x7ff0000000000000
JS_VALUE_IS_NAN(v) ==
    /\ v.tag = JS_TAG_FLOAT64
    /\ \/ v.u.hi.m > 2146435072
       \/ v.u.hi.m = 2146435072 /\ v.u.lo # ZeroW

API == INSTANCE JSValueAPI
=============================================================================
