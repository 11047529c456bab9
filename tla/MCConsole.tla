----------------------------- MODULE MCConsole ------------------------------
(* One program and one reader; a user who types two lines, erasing across  *)
(* the end of the cook buffer, goes to terminal 2 and back, or shifts.     *)
EXTENDS Console

Down(k) == [code |-> k, keydown |-> TRUE]
Codes(s) == [i \in DOMAIN s |-> Down(s[i])]

Up(k) == [code |-> k, keydown |-> FALSE]

\* A, return, A, backspace; backspace, return, backspace twice; Alt, 2, 1; caps
\* lock, shift and A, then control and A.
MCScript ==
    {Codes(<<30, 28, 30, 14>>), Codes(<<14, 28, 14, 14>>), Codes(<<56, 3, 2>>),
     <<Down(58), Up(58), Down(42), Down(30), Up(30), Down(29), Down(30)>>}
MCTty == 1 .. 2
MCWriter == {"program", "tty-task"}
MCText == <<97, 10>>
MCWelcome == <<49>>
=============================================================================
