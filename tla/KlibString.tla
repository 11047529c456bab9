----------------------------- MODULE KlibString -----------------------------
(***************************************************************************)
(* abstract-machine/klib/src/string.c: each function takes the memory m, a *)
(* function from addresses to bytes, and returns the memory it leaves or   *)
(* its result.                                                             *)
(***************************************************************************)
EXTENDS Integers

\* The loop while (n--) { *dst = *src; ... }: one byte after another, from the
\* lowest address up (step 1) or from the highest down (step -1).
CopyLoop(m, dst, src, n, step) ==
    LET copied[k \in 0 .. n] ==
            IF k = 0 THEN m
            ELSE LET i == IF step = 1 THEN k - 1 ELSE n - k
                 IN  [copied[k - 1] EXCEPT ![dst + i] = copied[k - 1][src + i]]
    IN  copied[n]

memset(m, s, c, n) == [a \in DOMAIN m |-> IF a \in s .. s + n - 1 THEN c ELSE m[a]]

memcpy(m, out, in, n) == CopyLoop(m, out, in, n, 1)

\* Upwards when the source is below the destination, downwards when above it.
memmove(m, dst, src, n) ==
    IF src < dst THEN CopyLoop(m, dst, src, n, 1)
    ELSE IF src > dst THEN CopyLoop(m, dst, src, n, -1)
    ELSE m

\* What a char of x86 is worth: it is signed.
SignedChar(b) == IF b >= 128 THEN b - 256 ELSE b

\* Fault: a string that is a prefix of the other counts as the greater one.
Order_NulIsGreat(a, b) == IF a # 0 /\ SignedChar(a) < SignedChar(b) THEN -1 ELSE 1

\* The first offset below n at which the two ranges differ, or n.
Mismatch(m, s1, s2, n) ==
    CHOOSE k \in 0 .. n : /\ \A i \in 0 .. k - 1 : m[s1 + i] = m[s2 + i]
                          /\ k = n \/ m[s1 + k] # m[s2 + k]

\* The sign comes from the first bytes, unsigned, wherever the mismatch is.
memcmp(m, s1, s2, n) ==
    IF Mismatch(m, s1, s2, n) = n THEN 0 ELSE IF m[s1] > m[s2] THEN 1 ELSE -1

strlen(m, s) == CHOOSE k \in 0 .. 1000 : m[s + k] = 0 /\ \A i \in 0 .. k - 1 : m[s + i] # 0

strcpy(m, dst, src) ==
    [CopyLoop(m, dst, src, strlen(m, src), 1) EXCEPT ![dst + strlen(m, src)] = 0]

\* Copies n bytes whatever they are, and always adds a terminator behind them.
strncpy(m, dst, src, n) == [CopyLoop(m, dst, src, n, 1) EXCEPT ![dst + n] = 0]

strcat(m, dst, src) == strcpy(m, dst + strlen(m, dst), src)

Order(a, b) == IF a = 0 \/ SignedChar(a) < SignedChar(b) THEN -1 ELSE 1

strcmp(m, s1, s2) ==
    LET k == Mismatch(m, s1, s2, strlen(m, s1) + 1)
    IN  IF k > strlen(m, s1) THEN 0 ELSE Order(m[s1 + k], m[s2 + k])

\* The loop runs on past a common terminator.
strncmp(m, s1, s2, n) ==
    LET k == Mismatch(m, s1, s2, n)
    IN  IF k = n THEN 0 ELSE Order(m[s1 + k], m[s2 + k])
=============================================================================
