--------------------------- MODULE MCJSValueCodec ---------------------------
(***************************************************************************)
(* Arguments for JSValueCodec, chosen at the boundaries the encodings     *)
(* turn on: the int32 range, bit 31 of a uint32, the IEEE exponent of     *)
(* infinity, the signalling and quiet NaNs, and the band of NaN high      *)
(* words 0x7ff80001 .. 0x7ff80011 that, unnormalised, would decode as the *)
(* tags JS_TAG_FIRST .. JS_TAG_SHORT_BIG_INT.                              *)
(***************************************************************************)
EXTENDS JSValueCodec

MCInt32Args == {MinI32, -1, 0, 1, MaxI32}

MCUint32Args == {W(0, 0), W(0, MaxI32), W(1, 0), W(1, 1), W(1, MaxI32)}

MCInt64Args ==
    { I64OfInt(MinI32), I64OfInt(-1), I64OfInt(0), I64OfInt(MaxI32),
      I64(FALSE, 0, W(1, 0)),          \*  2^31
      I64(TRUE, 0, W(1, 1)),           \* -2^31 - 1
      I64(FALSE, 0, W(1, MaxI32)),     \*  2^32 - 1
      I64(TRUE, 1, W(0, 0)),           \* -2^32
      I64(FALSE, 1048575, W(1, MaxI32)) } \* 2^52 - 1

HighWords == { 0, 1, 1072693248,               \* 0, denormal, 1.0
               1073217536, 1105199104,         \* 1.5, 2^31
               2146435071, 2146435072,         \* DBL_MAX, infinity
               2146435073, 2146959359,         \* signalling NaNs
               2146959360, 2146959361,         \* quiet NaN, first tag band
               2146959369, 2146959370,         \* 0x7ff80009, 0x7ff8000a
               2146959377, 2146959378, MaxI32 }

MCDoubleArgs == { [hi |-> W(s, m), lo |-> lo] :
                    s \in {0, 1}, m \in HighWords, lo \in {ZeroW, W(0, 1)} }

MCPtrArgs == {W(0, 16), W(1, 64)}

MCJunkWords == {ZeroW, W(1, 1515870810)}

\* cvttsd2si on x86-64: the "integer indefinite" value.
MCCvtOverflow == MinI32
=============================================================================
