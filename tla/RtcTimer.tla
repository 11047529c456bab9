------------------------------ MODULE RtcTimer ------------------------------
(***************************************************************************)
(* The timer of the x86 machine, abstract-machine/am/src/x86/qemu/ioe.c:   *)
(* the date is read one clock register at a time while the clock runs, the *)
(* frequency of the time stamp counter is estimated from two such dates.   *)
(* A date is second, minute and hour: the other fields are read alike.     *)
(***************************************************************************)
EXTENDS Integers, Sequences

CONSTANTS
    FirstTsc,       \* the values of the counter at boot
    Run,            \* bound: how far the counter runs in one behaviour
    Freq,           \* counts in a second
    Minute, Hour    \* seconds in a minute, minutes in an hour

\* Starting takes no more than an hour.
ASSUME RtcAssumption ==
    /\ Freq \in Nat \ {0} /\ Minute \in Nat \ {0} /\ Hour \in Nat \ {0}
    /\ FirstTsc \subseteq Nat
    /\ Run \in Nat /\ Run <= (Minute * Hour) * Freq

VARIABLES
    tsc, boot,      \* the time stamp counter, now and at boot
    rtcPc,          \* "t0" and "t1" in wait_sec, "rtc" in timer_rtc, "idle"
    date,           \* the fields of the date read so far
    begun,          \* history: the counter when this date was begun
    t0,             \* the first date of wait_sec
    marks           \* what wait_sec found, at most twice: [date, tsc, torn]

rtcVars == <<tsc, boot, rtcPc, date, begun, t0, marks>>

Now(c) == c \div Freq
DateAt(c) == <<Now(c) % Minute, (Now(c) \div Minute) % Hour, Now(c) \div (Minute * Hour)>>

\* The clock keeps its fields in decimal digits of four bits.
Bcd(x) == (x % 10) + 16 * (x \div 10)
read_rtc(field) == LET ret == Bcd(DateAt(tsc)[field]) IN (ret % 16) + (ret \div 16) * 10

RtcInit ==
    /\ tsc \in FirstTsc /\ boot = tsc /\ begun = tsc
    /\ rtcPc = "t0"
    /\ date = <<>> /\ t0 = <<>> /\ marks = <<>>

\* Time passes between any two reads; the reads of one date take less than a
\* minute.
Tick ==
    /\ rtcPc # "idle"
    /\ tsc < boot + Run
    /\ Now(tsc + 1) < Now(begun) + Minute
    /\ tsc' = tsc + 1
    /\ UNCHANGED <<boot, rtcPc, date, begun, t0, marks>>

\* One register of read_rtc_async.
ReadField ==
    /\ rtcPc # "idle" /\ Len(date) < 3
    /\ date' = Append(date, read_rtc(Len(date) + 1))
    /\ begun' = IF date = <<>> THEN tsc ELSE begun
    /\ UNCHANGED <<tsc, boot, rtcPc, t0, marks>>

NewDate(p) == rtcPc' = p /\ date' = <<>> /\ begun' = tsc /\ UNCHANGED <<tsc, boot>>

Torn(d) == \A c \in begun .. tsc : DateAt(c) # d

\* wait_sec: two dates a moment apart; done when their seconds differ.
WaitFirst ==
    /\ rtcPc = "t0" /\ Len(date) = 3
    /\ t0' = date
    /\ NewDate("t1") /\ UNCHANGED marks

InHour(d) == d[2] * Minute + d[1]
Elapsed(m) == InHour(m[2].date) - InHour(m[1].date)

\* estimate_freq: a second mark not later than the first starts all over.
WaitSecond ==
    /\ rtcPc = "t1" /\ Len(date) = 3
    /\ UNCHANGED t0
    /\ LET found == Append(marks, [date |-> date, tsc |-> tsc, torn |-> Torn(date)])
       IN  IF date[1] = t0[1] THEN NewDate("t0") /\ UNCHANGED marks
           ELSE IF Len(found) = 1 THEN NewDate("t0") /\ marks' = found
           ELSE IF Elapsed(found) <= 0 THEN NewDate("t0") /\ marks' = <<>>
           ELSE NewDate("rtc") /\ marks' = found

\* Fault: a date is not read again.
Recheck_Missing ==
    /\ rtcPc = "rtc" /\ Len(date) = 3 /\ rtcPc' = "idle"
    /\ UNCHANGED <<tsc, boot, date, begun, t0, marks>>

\* timer_rtc: read again if the second has changed meanwhile.
Recheck ==
    /\ rtcPc = "rtc" /\ Len(date) = 3
    /\ IF read_rtc(1) # date[1] THEN NewDate("rtc")
       ELSE rtcPc' = "idle" /\ UNCHANGED <<tsc, boot, date, begun>>
    /\ UNCHANGED <<t0, marks>>

RtcNext == Tick \/ ReadField \/ WaitFirst \/ WaitSecond \/ Recheck

RtcSpec == RtcInit /\ [][RtcNext]_rtcVars
-----------------------------------------------------------------------------

(* A date timer_rtc returns is one the clock showed while it was read: no  *)
(* second of one minute beside the next minute (the loop at ioe.c:92-95).  *)
NoTornDate == rtcPc = "idle" => ~Torn(date)

(* The seconds the frequency is divided by (ioe.c:74-77) are those that    *)
(* passed between the two marks, past the end of a minute or an hour,      *)
(* unless the clock moved on inside one of the two dates, which wait_sec   *)
(* does not check for.                                                     *)
EstimateSound ==
    Len(marks) = 2 =>
        \/ marks[1].torn \/ marks[2].torn
        \/ \E c, d \in boot .. tsc :
             /\ DateAt(c) = marks[1].date /\ DateAt(d) = marks[2].date
             /\ c <= marks[1].tsc /\ d <= marks[2].tsc
             /\ Elapsed(marks) = Now(d) - Now(c)

\* timer_rtc returns no date torn by a tick, and estimate_freq divides by the
\* time that passed (ioe.c: read_rtc, wait_sec).
RtcSound == NoTornDate /\ EstimateSound
=============================================================================
