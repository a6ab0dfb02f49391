------------------------------- MODULE CArith -------------------------------
(***************************************************************************)
(* C integer and floating-point conversions the value layouts of          *)
(* quickjs.h rely on: uint32_t words, two's complement casts, int64_t     *)
(* range tests and the exact int64_t -> double conversion.  TLC integers  *)
(* are signed 32-bit, so a 32-bit word is kept as its top bit s and its   *)
(* low 31 bits m, an int64_t as sign and magnitude, and no operator ever  *)
(* forms an intermediate value outside TLC's range.                       *)
(***************************************************************************)
EXTENDS Integers

MaxI32 == 2147483647            \* INT32_MAX
MinI32 == -MaxI32 - 1           \* INT32_MIN

Words == [s : {0, 1}, m : 0 .. MaxI32]

W(s, m) == [s |-> s, m |-> m]

ZeroW == W(0, 0)

\* (uint32_t)i for an int32_t i: two's complement.
WordOfInt(i) == IF i >= 0 THEN W(0, i) ELSE W(1, (i + MaxI32) + 1)

\* (int32_t)w: the word read back as a signed integer.
IntOfWord(w) == IF w.s = 0 THEN w.m ELSE (w.m - MaxI32) - 1

\* w + c mod 2^32, for 0 <= c <= INT32_MAX: a carry out of bit 30 flips bit 31.
AddW(w, c) ==
    IF w.m <= MaxI32 - c THEN W(w.s, w.m + c)
                         ELSE W(1 - w.s, ((w.m - MaxI32) - 1) + c)

\* w - c mod 2^32, for 0 <= c <= INT32_MAX: a borrow into bit 31 flips it.
SubW(w, c) ==
    IF w.m >= c THEN W(w.s, w.m - c)
                ELSE W(1 - w.s, ((w.m - c) + MaxI32) + 1)

\* a < b as unsigned integers.
ULt(a, b) == a.s < b.s \/ (a.s = b.s /\ a.m < b.m)

(***************************************************************************)
(* An int64_t of magnitude below 2^52 as sign and magnitude: the value is  *)
(* (neg ? -1 : 1) * (hi * 2^32 + lo).  Zero is never negative.             *)
(***************************************************************************)
I64(neg, hi, lo) == [neg |-> neg /\ (hi # 0 \/ lo # ZeroW), hi |-> hi, lo |-> lo]

I64OfInt(i) == IF i >= 0 THEN I64(FALSE, 0, W(0, i))
               ELSE I64(TRUE, 0, IF i = MinI32 THEN W(1, 0) ELSE W(0, -i))

\* val >= INT32_MIN && val <= INT32_MAX
FitsInt32(x) == x.hi = 0 /\ (x.lo.s = 0 \/ (x.neg /\ x.lo = W(1, 0)))

\* (int32_t)x: the low word of x's two's complement form.
TruncInt32(x) ==
    LET negLo == IF x.lo = ZeroW THEN ZeroW
                 ELSE AddW(W(1 - x.lo.s, MaxI32 - x.lo.m), 1)
    IN  IntOfWord(IF x.neg THEN negLo ELSE x.lo)

\* (double)x, exact below 2^52, as the bits [hi, lo] of the IEEE double.
ToDouble(x) ==
    LET Log2(n) == CHOOSE e \in 0 .. 30 : n \div 2^e = 1
        \* m \div 2^k and m % 2^k for the 31 low bits m of a word, 0 < k <= 31
        Above(m, k) == IF k = 31 THEN 0 ELSE m \div 2^k
        Below(m, k) == IF k = 31 THEN m ELSE m % 2^k
        e == IF x.hi > 0 THEN 32 + Log2(x.hi)
             ELSE IF x.lo.s = 1 THEN 31 ELSE Log2(x.lo.m)
        k == e - 20             \* mantissa bits that spill into the low word
        top == IF k <= 0 THEN x.lo.m * 2^(-k)
               ELSE (IF x.hi > 0 THEN x.hi * 2^(32 - k) ELSE 0)
                    + x.lo.s * 2^(31 - k) + Above(x.lo.m, k)
        rest == IF k <= 0 THEN 0 ELSE Below(x.lo.m, k)
        lo == IF k <= 1 THEN W(rest, 0)
              ELSE W(rest \div 2^(k - 1), (rest % 2^(k - 1)) * 2^(32 - k))
    IN  IF x.hi = 0 /\ x.lo = ZeroW THEN [hi |-> ZeroW, lo |-> ZeroW]
        ELSE [hi |-> W(IF x.neg THEN 1 ELSE 0, (1023 + e) * 2^20 + (top - 2^20)),
              lo |-> lo]

(* (int)d: the double [hi, lo] truncated toward zero. Out of the int      *)
(* range, and for infinities and NaNs, the conversion is undefined: ovf   *)
(* is what the build's instruction yields (INT32_MIN on x86-64).          *)
DoubleToInt(d, ovf) ==
    LET e    == d.hi.m \div 2^20 - 1023
        frac == 2^20 + (d.hi.m % 2^20)
        k    == 52 - e
        low  == d.lo.s * 2^(31 - k) + (IF k = 31 THEN 0 ELSE d.lo.m \div 2^k)
        mag  == IF e <= 20 THEN frac \div 2^(20 - e) ELSE (frac * 2^(e - 20)) + low
    IN  CASE e < 0 -> 0
          [] e <= 30 -> IF d.hi.s = 1 THEN -mag ELSE mag
          [] e = 31 /\ d.hi.s = 1 /\ (d.hi.m % 2^20) = 0 /\ d.lo = ZeroW -> MinI32
          [] OTHER -> ovf
=============================================================================
