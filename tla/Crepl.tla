-------------------------------- MODULE Crepl -------------------------------
(***************************************************************************)
(* crepl/crepl.c: a read-eval-print loop that compiles each line to a      *)
(* shared library and loads it.  A line is a sequence of tokens, "int"     *)
(* first if it defines a function; its value is its text.                  *)
(***************************************************************************)
EXTENDS Integers, SequencesExt

CONSTANTS
    Scripts,        \* what may be typed: sequences of lines
    LineSize,       \* tokens the line buffer holds
    Compiles(_),    \* the compiler accepts a text
    Calls(_),       \* functions a text calls, which another must define
    OldLibs         \* libraries that earlier sessions may have left in /tmp

NUL == "0"

VARIABLES
    input,          \* the lines not read yet, typed at the terminal all processes read
    typed,          \* history: number of lines read
    so,             \* the libraries in /tmp: cnt -> text
    ps,             \* the processes; each waits for the next one, the last runs
    answers         \* values printed: [n, line, value, clean, compiled]

creplVars == <<input, typed, so, ps, answers>>

Empty == [i \in 1 .. LineSize |-> NUL]

\* A process: its counter, line buffer, loaded libraries and place in the loop;
\* history: the line it read, its number, whether the one before compiled, and
\* whether status is that of a compiler that ended.
Start == [cnt |-> 0, line |-> Empty, libs |-> <<>>, pc |-> "read", status |-> 0,
          got |-> <<>>, n |-> 0, clean |-> TRUE, compiled |-> FALSE]

CreplInit ==
    /\ input \in Scripts /\ typed = 0
    /\ so \in OldLibs
    /\ ps = <<Start>>
    /\ answers = <<>>

Me == Last(ps)
Become(p) == ps' = Append(Front(ps), p)
Running(pc) == ps # <<>> /\ Me.pc = pc

\* wait returns.  WEXITSTATUS of a process that was killed is 0.
Reaped(p, status, compiled) == [p EXCEPT !.pc = "reaped", !.status = status, !.compiled = compiled]

\* A process ends: the one that waits for it gets its status.
End(status) ==
    ps' = IF Len(ps) = 1 THEN <<>>
          ELSE Append(Front(Front(ps)), Reaped(ps[Len(ps) - 1], status, FALSE))

\* fgets: the line and a NUL over the start of the buffer.
Over(buf, s) == [i \in 1 .. LineSize |-> IF i <= Len(s) THEN s[i] ELSE IF i = Len(s) + 1 THEN NUL ELSE buf[i]]

Read ==
    /\ Running("read")
    /\ UNCHANGED <<so, answers>>
    /\ IF input = <<>> THEN End(0) /\ UNCHANGED <<input, typed>>
       ELSE /\ input' = Tail(input) /\ typed' = typed + 1
            /\ Become([Me EXCEPT !.line = Over(@, Head(input)), !.pc = "fork",
                                 !.got = Head(input), !.n = typed + 1])

\* The whole buffer is written to the source file; NULs in it are blanks.
Source == SelectSeq(Me.line, LAMBDA c : c # NUL)
flag == Me.line[1] # "int"

\* /tmp without the library that is to be made.
NoLibrary == [c \in (DOMAIN so) \ {Me.cnt} |-> so[c]]

\* fork fails, or its child becomes the compiler, which succeeds, finds an
\* error, or is killed, with the library that was there or without it.  A child
\* that cannot start the compiler falls through to the top of the loop with all
\* its parent's state.
Fork ==
    /\ Running("fork")
    /\ UNCHANGED <<input, typed, answers>>
    /\ \/ End(1) /\ UNCHANGED so
       \/ /\ Compiles(Source)
          /\ so' = (Me.cnt :> Source) @@ so
          /\ Become(Reaped(Me, 0, TRUE))
       \/ /\ ~Compiles(Source)
          /\ Become(Reaped(Me, 1, TRUE)) /\ UNCHANGED so
       \/ Become(Reaped(Me, 0, FALSE)) /\ so' \in {so, NoLibrary}
       \/ /\ ps' = Append(Front(ps), [Me EXCEPT !.pc = "wait"]) \o <<[Me EXCEPT !.pc = "read", !.clean = FALSE]>>
          /\ UNCHANGED so

\* dlopen: a library loaded under this name is not loaded again, a new one
\* must find every function it calls.
Library == IF Me.cnt \in DOMAIN Me.libs THEN Me.libs[Me.cnt] ELSE so[Me.cnt]
Defined == {Me.libs[c][2] : c \in {d \in DOMAIN Me.libs : Me.libs[d][1] = "int"}}
CanLoad == Me.cnt \in (DOMAIN Me.libs) \cup (DOMAIN so) /\ Calls(Library) \subseteq Defined

\* Fault: every library gets the same name.
Loaded_SameName == [Me EXCEPT !.pc = "read", !.clean = TRUE, !.line = Empty,
                              !.libs = (Me.cnt :> Library) @@ @]

Loaded == [Me EXCEPT !.pc = "read", !.clean = TRUE, !.cnt = @ + 1, !.line = Empty,
                     !.libs = (Me.cnt :> Library) @@ @]

\* After wait: load and, for an expression, call and print; or the message.
\* A library without the wrapper gives dlsym nothing to call, and the process
\* is killed.  Only a line that was loaded is cleared from the buffer.
Evaluate ==
    /\ Running("reaped")
    /\ UNCHANGED <<input, typed, so>>
    /\ IF Me.status # 0
       THEN Become([Me EXCEPT !.pc = "read", !.clean = FALSE]) /\ UNCHANGED answers
       ELSE IF ~CanLoad THEN End(1) /\ UNCHANGED answers
       ELSE IF flag /\ Library[1] = "int" THEN End(0) /\ UNCHANGED answers
       ELSE /\ answers' = IF ~flag THEN answers
                          ELSE Append(answers, [n |-> Me.n, line |-> Me.got, value |-> Library,
                                                clean |-> Me.clean, compiled |-> Me.compiled])
            /\ Become(Loaded)

CreplNext == Read \/ Fork \/ Evaluate
-----------------------------------------------------------------------------

(* What is printed for a line that its own compiler compiled is the value  *)
(* of that line, once, and in the order typed (crepl.c:44-137), if the line*)
(* before it compiled: no library of an earlier line or of an earlier      *)
(* session under the same name, no rest of an earlier line in the buffer,  *)
(* whatever other processes the loop has made of itself.  After a line that*)
(* did not compile the buffer is not cleared (line 136 is skipped), and the*)
(* rest of that line is compiled with a shorter next one; a child that     *)
(* could not start the compiler (line 107) goes on with its parent's line  *)
(* in its buffer.  That is why the condition is there.  Of a line whose    *)
(* child was killed, or was such a child, nothing is claimed: WEXITSTATUS  *)
(* is then 0 (line 115), and what is loaded any library that was in /tmp.  *)
(* The value is the text that is called; which of several definitions of a *)
(* function it calls is not followed.                                      *)
AnswersLine ==
    LET own == SelectSeq(answers, LAMBDA a : a.compiled)
    IN  /\ \A k \in DOMAIN own : own[k].clean => own[k].value = own[k].line
        /\ \A k \in 2 .. Len(own) : own[k - 1].n < own[k].n
=============================================================================
