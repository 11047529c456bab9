-------------------------------- MODULE Int64 -------------------------------
(***************************************************************************)
(* The double word arithmetic of abstract-machine/klib/src/int64.c, which  *)
(* a compiler for a machine of single words calls: division, remainder and *)
(* the counts of leading and trailing zeros.  A word has W bits.           *)
(***************************************************************************)
EXTENDS Integers

CONSTANTS
    W,          \* bits of a word (su_int), a power of two
    Operand     \* the double words the functions are called with

VARIABLES
    op,         \* the call: [f, a, b]
    res         \* what it returned, and what it left in *rem

int64Vars == <<op, res>>

Bit(k) == 2 ^ k
Word == 0 .. Bit(W) - 1
Wrap(x) == x % Bit(2 * W)               \* of a double word
hi(x) == x \div Bit(W)
lo(x) == x % Bit(W)
all(h, l) == h * Bit(W) + l
Shl(x, k) == (x * Bit(k)) % Bit(W)      \* of a word
Shr(x, k) == x \div Bit(k)
PowerOf2(x) == \E k \in 0 .. W - 1 : x = Bit(k)

-----------------------------------------------------------------------------
(* Counting zeros by halves: is the upper (the lower) half empty?          *)

__clzsi2(a) ==
    LET chop[h \in 1 .. W \div 2, x \in Word] ==
            IF h = 1 THEN IF x >= 2 THEN 0 ELSE 2 - x
            ELSE IF Shr(x, h) = 0 THEN h + chop[h \div 2, x]
            ELSE chop[h \div 2, Shr(x, h)]
    IN  chop[W \div 2, a]

__ctzsi2(a) ==
    LET chop[h \in 1 .. W \div 2, x \in Word] ==
            IF h = 1 THEN IF x % 2 = 1 THEN 0 ELSE 2 - (x % 4) \div 2
            ELSE IF x % Bit(h) = 0 THEN h + chop[h \div 2, Shr(x, h)]
            ELSE chop[h \div 2, x]
    IN  chop[W \div 2, a]

__clzdi2(a) == IF hi(a) = 0 THEN __clzsi2(lo(a)) + W ELSE __clzsi2(hi(a))
__ctzdi2(a) == IF lo(a) = 0 THEN __ctzsi2(hi(a)) + W ELSE __ctzsi2(lo(a))

-----------------------------------------------------------------------------
(* Unsigned division: many special cases, then one bit of the quotient in  *)
(* each round.                                                             *)

\* What the general case starts with: q holds the bits of n that r does not,
\* in its upper end; r = n >> sr.
Start(n, sr) ==
    [sr |-> sr,
     q |-> IF sr = W THEN all(lo(n), 0)
           ELSE IF sr < W THEN all(Shl(lo(n), W - sr), 0)
           ELSE all(Shl(hi(n), 2 * W - sr) + Shr(lo(n), sr - W), Shl(lo(n), 2 * W - sr)),
     r |-> IF sr = W THEN hi(n)
           ELSE IF sr < W THEN all(Shr(hi(n), sr), Shl(hi(n), W - sr) + Shr(lo(n), sr))
           ELSE Shr(hi(n), sr - W)]

\* The rounds: r and q are shifted as one number, the bit that falls out of
\* the comparison with d enters q a round later.
Rounds(s, d) ==
    LET top == Bit(2 * W - 1)
        round[k \in 0 .. s.sr] ==
            IF k = 0 THEN [q |-> s.q, r |-> s.r, carry |-> 0]
            ELSE LET p == round[k - 1]
                     r == Wrap(2 * p.r + p.q \div top)
                     fits == Wrap(d - r - 1) >= top      \* the sign bit
                 IN  [q |-> Wrap(2 * p.q + p.carry),
                      r |-> IF fits THEN Wrap(r - d) ELSE r,
                      carry |-> IF fits THEN 1 ELSE 0]
        last == round[s.sr]
    IN  [q |-> Wrap(2 * last.q + last.carry), r |-> last.r]

\* [q, r] of a, b # 0: dividing by zero traps.  A shift sr below zero is a
\* large unsigned number.
__udivmoddi4(a, b) ==
    LET Result(q, r) == [q |-> q, r |-> r]
        General(sr) == Rounds(Start(a, sr), b)
        closer == __clzsi2(hi(b)) - __clzsi2(hi(a))
    IN  IF hi(a) = 0
        THEN IF hi(b) = 0 THEN Result(lo(a) \div lo(b), lo(a) % lo(b)) ELSE Result(0, lo(a))
        ELSE IF lo(b) = 0
        THEN IF lo(a) = 0
             THEN Result(hi(a) \div hi(b), all(hi(a) % hi(b), 0))
             ELSE IF PowerOf2(hi(b))
             THEN Result(Shr(hi(a), __ctzsi2(hi(b))), all(hi(a) % hi(b), lo(a)))
             ELSE IF closer \notin 0 .. W - 2 THEN Result(0, a) ELSE General(closer + 1)
        ELSE IF hi(b) = 0
        THEN IF lo(b) = 1 THEN Result(a, 0)
             ELSE IF PowerOf2(lo(b))
             THEN LET sr == __ctzsi2(lo(b))
                  IN  Result(all(Shr(hi(a), sr), Shl(hi(a), W - sr) + Shr(lo(a), sr)), lo(a) % lo(b))
             ELSE General(1 + W + __clzsi2(lo(b)) - __clzsi2(hi(a)))
        ELSE IF closer \notin 0 .. W - 1 THEN Result(0, a) ELSE General(closer + 1)

-----------------------------------------------------------------------------
(* Signed division: the signs off, then on again.                          *)

Negative(x) == x >= Bit(2 * W - 1)
Negate(x) == Wrap(-x)
Magnitude(x) == IF Negative(x) THEN Negate(x) ELSE x

__divdi3(a, b) ==
    LET q == __udivmoddi4(Magnitude(a), Magnitude(b)).q
    IN  IF Negative(a) # Negative(b) THEN Negate(q) ELSE q

\* Fault: the remainder takes the sign of the divisor.
__moddi3_SignOfB(a, b) ==
    LET r == __udivmoddi4(Magnitude(a), Magnitude(b)).r
    IN  IF Negative(b) THEN Negate(r) ELSE r

__moddi3(a, b) ==
    LET r == __udivmoddi4(Magnitude(a), Magnitude(b)).r
    IN  IF Negative(a) THEN Negate(r) ELSE r

__divmoddi4(a, b) ==
    LET d == __divdi3(a, b) IN [q |-> d, r |-> Wrap(a - d * b)]

__udivdi3(a, b) == __udivmoddi4(a, b).q
__umoddi3(a, b) == __udivmoddi4(a, b).r

Int64Init == op = [f |-> "none", a |-> 0, b |-> 0] /\ res = [q |-> 0, r |-> 0]

Divide(f, a, b, result) ==
    /\ b # 0
    /\ op' = [f |-> f, a |-> a, b |-> b]
    /\ res' = result

Count(a) ==
    /\ a # 0
    /\ op' = [f |-> "count", a |-> a, b |-> 0]
    /\ res' = [q |-> __clzdi2(a), r |-> __ctzdi2(a)]

Int64Next ==
    /\ op.f = "none"
    /\ \E a, b \in Operand :
         \/ Divide("unsigned", a, b, [q |-> __udivdi3(a, b), r |-> __umoddi3(a, b)])
         \/ Divide("signed", a, b, [q |-> __divdi3(a, b), r |-> __moddi3(a, b)])
         \/ Divide("divmod", a, b, __divmoddi4(a, b))
         \/ Count(a)
-----------------------------------------------------------------------------

Signed(x) == IF Negative(x) THEN x - Bit(2 * W) ELSE x
Abs(x) == IF x < 0 THEN -x ELSE x

(* Every special case and the rounds of the general one give the quotient  *)
(* and the remainder of the integers: n = q d + r with r less than d, of   *)
(* the sign of n, except that the quotient of the least number by -1 does  *)
(* not fit and wraps (int64.c:328-731); and a nonzero number is an odd one *)
(* shifted by its trailing zeros, with the leading zeros above it.         *)
ArithmeticExact ==
    LET a == op.a  b == op.b  q == res.q  r == res.r
    IN  CASE op.f = "unsigned" -> a = q * b + r /\ r < b
          [] op.f \in {"signed", "divmod"} ->
                /\ Wrap(Signed(q) * Signed(b) + Signed(r)) = a
                /\ Abs(Signed(r)) < Abs(Signed(b))
                /\ r # 0 => Negative(r) = Negative(a)
                /\ Abs(Signed(q)) = Abs(Signed(a)) \div Abs(Signed(b))
          [] op.f = "count" ->
                /\ a % Bit(r) = 0 /\ (a \div Bit(r)) % 2 = 1
                /\ a < Bit(2 * W - q) /\ a >= Bit(2 * W - q - 1)
          [] OTHER -> TRUE
=============================================================================
