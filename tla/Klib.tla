-------------------------------- MODULE Klib --------------------------------
(***************************************************************************)
(* Calls of abstract-machine/klib: the string functions (KlibString) on a  *)
(* small memory, and the formatted output of stdio.c, whose characters are *)
(* their codes.  The functions keep no state, so a behaviour is one call.  *)
(***************************************************************************)
EXTENDS KlibString, Sequences, SequencesExt

CONSTANTS
    MemSize,        \* the bytes the callers have
    ByteVal,        \* the bytes the memory holds before the call
    Number          \* the numbers printed

VARIABLES
    mem,            \* [0 .. MemSize -> byte]
    call, ret,      \* the last call of string.c and what it returned
    printed, out    \* the last call of sprintf and the string it made

klibVars == <<mem, call, ret, printed, out>>

\* The last byte lies behind the callers' and belongs to somebody else.
Address == 0 .. MemSize
Call(f, a, b, n) == [f |-> f, a |-> a, b |-> b, n |-> n]
NoCall == Call("none", 0, 0, 0)
NoPrint == [conv |-> 0, width |-> 0, value |-> 0]

KlibInit ==
    /\ mem \in [Address -> ByteVal]
    /\ call = NoCall /\ ret = 0
    /\ printed = NoPrint /\ out = <<>>

IsString(a) == \E i \in a .. MemSize - 1 : mem[i] = 0
Fits(a, n) == a + n <= MemSize

Disjoint(a, b, n) == a + n <= b \/ b + n <= a

\* The calls whose preconditions hold: ranges inside the callers' memory, strings
\* that end, and no overlap where the function is not made for it.  strncpy asks
\* for no more room than n; its source has n bytes, a shorter string too.
Legal(c) ==
    LET len == IF IsString(c.b) THEN strlen(mem, c.b) ELSE 0
        end == IF IsString(c.a) THEN c.a + strlen(mem, c.a) ELSE c.a
    IN  CASE c.f = "memset"  -> Fits(c.a, c.n)
          [] c.f \in {"memmove", "memcmp", "strncmp"} -> Fits(c.a, c.n) /\ Fits(c.b, c.n)
          [] c.f = "memcpy"  -> Fits(c.a, c.n) /\ Fits(c.b, c.n) /\ Disjoint(c.a, c.b, c.n)
          [] c.f = "strcmp"  -> IsString(c.a) /\ IsString(c.b)
          [] c.f = "strcpy"  -> IsString(c.b) /\ Fits(c.a, len + 1) /\ Disjoint(c.a, c.b, len + 1)
          [] c.f = "strncpy" -> Fits(c.a, c.n) /\ Fits(c.b, c.n) /\ Disjoint(c.a, c.b, c.n)
          [] c.f = "strcat"  -> /\ IsString(c.a) /\ IsString(c.b)
                                /\ Fits(end, len + 1) /\ Disjoint(end, c.b, len + 1)

Moves == {"memset", "memmove", "memcpy", "strcpy", "strncpy", "strcat"}

After(c) ==
    CASE c.f = "memset"  -> memset(mem, c.a, c.b, c.n)
      [] c.f = "memmove" -> memmove(mem, c.a, c.b, c.n)
      [] c.f = "memcpy"  -> memcpy(mem, c.a, c.b, c.n)
      [] c.f = "strcpy"  -> strcpy(mem, c.a, c.b)
      [] c.f = "strncpy" -> strncpy(mem, c.a, c.b, c.n)
      [] c.f = "strcat"  -> strcat(mem, c.a, c.b)
      [] OTHER           -> mem

Returned(c) ==
    CASE c.f = "memcmp"  -> memcmp(mem, c.a, c.b, c.n)
      [] c.f = "strcmp"  -> strcmp(mem, c.a, c.b)
      [] c.f = "strncmp" -> strncmp(mem, c.a, c.b, c.n)
      [] OTHER           -> 0

Fresh == call = NoCall /\ printed = NoPrint

StringCall(c) ==
    /\ Legal(c)
    /\ mem' = After(c) /\ ret' = Returned(c) /\ call' = c
    /\ UNCHANGED <<printed, out>>

-----------------------------------------------------------------------------
(* stdio.c *)

\* C's division rounds to zero: digits of a negative number are below '0'.
Quot(x, b) == IF x >= 0 THEN x \div b ELSE -((-x) \div b)

RECURSIVE Digits(_, _)
Digits(x, b) ==
    IF x = 0 THEN <<>> ELSE Append(Digits(Quot(x, b), b), x - b * Quot(x, b) + 48)

Zeros(k) == [i \in 1 .. k |-> 48]

\* %d and %x (width 0), %0Nd and %0Nx: no digit at all for a padded 0.
Formatted(x, b, width) ==
    LET d == Digits(x, b)
    IN  IF width = 0 THEN IF x = 0 THEN <<48>> ELSE d
        ELSE (IF width > Len(d) THEN Zeros(width - Len(d)) ELSE <<>>) \o d

BaseOf(conv) == IF conv = 100 THEN 10 ELSE 16

\* fmt is made of characters and of the directives %s, %d, %x, %0Nd, %0Nx and
\* %\c; any other directive prints nothing.
RECURSIVE vsprintf(_, _)
vsprintf(fmt, ap) ==
    LET rest(k) == SubSeq(fmt, k + 1, Len(fmt))
    IN  IF fmt = <<>> THEN <<>>
        ELSE IF fmt[1] # 37 THEN <<fmt[1]>> \o vsprintf(rest(1), ap)
        ELSE CASE fmt[2] = 115 -> Head(ap) \o vsprintf(rest(2), Tail(ap))
               [] fmt[2] \in {100, 120} ->
                      Formatted(Head(ap), BaseOf(fmt[2]), 0) \o vsprintf(rest(2), Tail(ap))
               [] fmt[2] = 48 /\ fmt[4] \in {100, 120} ->
                      Formatted(Head(ap), BaseOf(fmt[4]), fmt[3] - 48) \o vsprintf(rest(4), Tail(ap))
               [] fmt[2] = 48 /\ fmt[4] \notin {100, 120} -> vsprintf(rest(4), ap)
               [] fmt[2] = 92 -> <<IF fmt[3] = 110 THEN 10 ELSE fmt[3]>> \o vsprintf(rest(3), ap)
               [] OTHER -> vsprintf(rest(2), ap)

\* sprintf("<%...>%s", value, "!") of one number.
SPrintf(conv, width, x) ==
    LET directive == IF width = 0 THEN <<37, conv>> ELSE <<37, 48, width + 48, conv>>
    IN  /\ printed' = [conv |-> conv, width |-> width, value |-> x]
        /\ out' = vsprintf(<<60>> \o directive \o <<62, 37, 115>>, <<x, <<33>>>>)
        /\ UNCHANGED <<mem, call, ret>>

\* A behaviour is one call.
KlibNext ==
    /\ Fresh
    /\ \/ \E f \in Moves \cup {"memcmp", "strcmp", "strncmp"}, a, b \in 0 .. MemSize - 1, n \in 0 .. MemSize :
              StringCall(Call(f, a, b, n))
       \/ \E conv \in {100, 120}, width \in 0 .. 3, x \in Number : SPrintf(conv, width, x)
-----------------------------------------------------------------------------
(* What the C library promises, stated on the memory before and after.     *)

Moved(m, a, b, n) == [i \in Address |-> IF i \in a .. a + n - 1 THEN m[b + i - a] ELSE m[i]]

Less(s, t) == \E k \in 1 .. Len(t) : /\ \A i \in 1 .. k - 1 : i <= Len(s) /\ s[i] = t[i]
                                     /\ k > Len(s) \/ s[k] < t[k]
Sign(s, t) == IF s = t THEN 0 ELSE IF Less(s, t) THEN -1 ELSE 1
Ascii(s) == \A i \in DOMAIN s : s[i] < 128

\* What a comparison of s and t answers: whether they are equal, and if all
\* their bytes are below 128 which one is less.
Compares(s, t, r) == /\ r = 0 <=> s = t
                     /\ Ascii(s) /\ Ascii(t) => r = Sign(s, t)
Str(m, a) == [i \in 1 .. strlen(m, a) |-> m[a + i - 1]]
Range0(m, a, n) == [i \in 1 .. n |-> m[a + i - 1]]

(* Each call changes the memory, and answers, as the C library does        *)
(* (string.c:7-135).  It does not hold, and is not claimed, for memmove of *)
(* overlapping ranges, which copies in the wrong direction (line 91: each  *)
(* byte may be copied twice); for the sign of memcmp, which comes from the *)
(* first bytes (line 125); for the order of strings with bytes from 128 on,*)
(* which are compared as signed (lines 55 and 70); for strncmp past a      *)
(* common terminator; for strncpy of a shorter string, which is not filled *)
(* up with NULs but read past its end; and for the byte behind the n of    *)
(* strncpy, which is not the caller's and is overwritten (line 30).        *)
MatchesLibc ==
    [][ LET c == call' IN
        CASE c.f = "memset"  -> mem' = [i \in Address |-> IF i \in c.a .. c.a + c.n - 1 THEN c.b ELSE mem[i]]
          [] c.f = "memcpy"  -> mem' = Moved(mem, c.a, c.b, c.n)
          [] c.f = "memmove" -> Disjoint(c.a, c.b, c.n) \/ c.a = c.b => mem' = Moved(mem, c.a, c.b, c.n)
          [] c.f = "strcpy"  -> Str(mem', c.a) = Str(mem, c.b) /\ mem' = Moved(mem, c.a, c.b, strlen(mem, c.b) + 1)
          [] c.f = "strncpy" -> \A i \in Address \ {c.a + c.n} : mem'[i] = Moved(mem, c.a, c.b, c.n)[i]
          [] c.f = "strcat"  -> /\ Str(mem', c.a) = Str(mem, c.a) \o Str(mem, c.b)
                                /\ mem' = Moved(mem, c.a + strlen(mem, c.a), c.b, strlen(mem, c.b) + 1)
          [] c.f = "memcmp"  -> ret' = 0 <=> Range0(mem, c.a, c.n) = Range0(mem, c.b, c.n)
          [] c.f = "strcmp"  -> Compares(Str(mem, c.a), Str(mem, c.b), ret')
          [] c.f = "strncmp" -> 0 \notin ToSet(Range0(mem, c.a, c.n)) =>
                                    Compares(Range0(mem, c.a, c.n), Range0(mem, c.b, c.n), ret')
          [] OTHER           -> mem' = mem
      ]_<<mem, call, ret>>

\* The number a string of digits stands for in base b, all of them below ten.
ValueOf(s, b) == FoldLeft(LAMBDA v, ch : b * v + ch - 48, 0, s)

Digit == 48 .. 57

\* What stands between < and >!.
Shown == SubSeq(out, 2, Len(out) - 2)

\* Base 16 needs no letter for v, which has at most eight digits.
NoLetter(v) == \A k \in 0 .. 7 : (v \div 16^k) % 16 < 10

(* A number printed is a string of decimal digits that reads back as the   *)
(* number, whatever the conversion, takes the width asked for or the digits*)
(* it needs, and leaves the text around it untouched (stdio.c:26-150).     *)
(* Of a negative number, whose digits fall below '0' (line 53), and of a   *)
(* number that needs a letter in base 16, for which the character ten or   *)
(* more behind '0' is written (lines 71 and 111), only the width and the   *)
(* text around it are claimed.                                             *)
PrintsNumber ==
    printed # NoPrint =>
        /\ Head(out) = 60 /\ SubSeq(out, Len(out) - 1, Len(out)) = <<62, 33>>
        /\ Len(Shown) >= printed.width
        /\ printed.value >= 0 /\ (printed.conv = 120 => NoLetter(printed.value)) =>
              /\ ToSet(Shown) \subseteq Digit
              /\ ValueOf(Shown, BaseOf(printed.conv)) = printed.value
              /\ Len(Shown) > printed.width /\ Len(Shown) > 1 => Head(Shown) # 48
=============================================================================
