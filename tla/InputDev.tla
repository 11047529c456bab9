------------------------------ MODULE InputDev ------------------------------
(***************************************************************************)
(* The input device of kernel/src/dev/dev_input.c: the input task turns    *)
(* the strokes the keyboard controller holds into events of a ring that    *)
(* any task may read.                                                      *)
(*                                                                         *)
(* A semaphore is the counter KmtSem is shown to implement; the spin lock  *)
(* of the ring makes each critical section one step.                       *)
(***************************************************************************)
EXTENDS Integers, SequencesExt, FiniteSets, TLC

CONSTANTS
    NEVENTS,        \* the size of the ring
    Script,         \* bound: the sequences of strokes [code, keydown] made,
                    \* code being the scan code less its release bit
    MaxTicks,       \* bound: ticks sent in one behaviour
    IrqCap,         \* bound: interrupts the input task has not yet seen
    Consumer        \* the tasks that read the device

ASSUME InputAssumption == NEVENTS \in Nat \ {0}

\* Scan codes to key codes; both Alt keys have the one code the table gives to
\* RALT, and a prefix byte (96, a release) has none.
keylut == 2 :> "1" @@ 3 :> "2" @@ 14 :> "BACKSPACE" @@ 28 :> "RETURN"
          @@ 29 :> "LCTRL" @@ 30 :> "A" @@ 42 :> "LSHIFT" @@ 54 :> "RSHIFT"
          @@ 56 :> "RALT" @@ 58 :> "CAPSLOCK" @@ 96 :> "NONE"

\* What io_read(AM_INPUT_KEYBRD) makes of a stroke.
input_keybrd(s) == [code |-> keylut[s.code], keydown |-> s.keydown]

\* Key codes to characters, without and with shift: the letters, a digit of
\* each terminal and the keys the terminal cooks stand for their kind.
keymap == [k \in {"1", "2", "A", "RETURN", "BACKSPACE"} |->
            CASE k = "1" -> <<49, 33>> [] k = "2" -> <<50, 64>> [] k = "A" -> <<97, 65>>
              [] k = "RETURN" -> <<10, 10>> [] k = "BACKSPACE" -> <<8, 8>>]

Letter == 97 .. 122
Shift == {"LSHIFT", "RSHIFT"}
Ctrl  == {"LCTRL", "RCTRL"}
Alt   == {"LALT", "RALT"}

event(ctrl, alt, data) == [ctrl |-> ctrl, alt |-> alt, data |-> data]
NoEvent == event(FALSE, FALSE, 0)       \* also what the task sends as a tick

VARIABLES
    pressed,        \* history: every stroke made
    kbd,            \* the strokes the controller still holds
    sem_kbdirq,
    in,             \* input_t; down is the set of modifiers held
    itask,          \* where the input task is
    ticks,          \* the ticks sent
    taking,         \* the consumers past sem_wait in pop_event
    got,            \* history: the events read, ticks left out
    panicked        \* "", or the message of the panic that stopped the machine

inputVars == <<pressed, kbd, sem_kbdirq, in, itask, ticks, taking, got, panicked>>

input_init == [events |-> [i \in 0 .. NEVENTS - 1 |-> NoEvent],
               front |-> 0, rear |-> 0, event_sem |-> 0,
               capslock |-> FALSE, down |-> {}]

InputInit ==
    /\ pressed = <<>> /\ kbd = <<>> /\ got = <<>>
    /\ sem_kbdirq = 0
    /\ in = input_init
    /\ itask = "drain"
    /\ ticks = 0 /\ taking = {}
    /\ panicked = ""

is_empty == in.rear = in.front

-----------------------------------------------------------------------------
(* The keyboard and its interrupts.                                        *)

Stroke == UNION {Range(script) : script \in Script}

\* The last stroke on key k before position i of ks pressed it.
HeldAt(ks, i, k) ==
    \E j \in 1 .. i - 1 : /\ ks[j] = [code |-> k, keydown |-> TRUE]
                          /\ \A h \in j + 1 .. i - 1 : ks[h].code # k

\* A key held down repeats; only a key held down can be let go.
KeyStroke(s) ==
    /\ \E script \in Script : IsPrefix(Append(pressed, s), script)
    /\ s.keydown \/ HeldAt(pressed, Len(pressed) + 1, s.code)
    /\ pressed' = Append(pressed, s)
    /\ kbd' = Append(kbd, s)
    /\ UNCHANGED <<sem_kbdirq, in, itask, ticks, taking, got, panicked>>

\* The timer and the keyboard share the handler, so one always comes.
input_notify ==
    /\ sem_kbdirq < IrqCap
    /\ sem_kbdirq' = sem_kbdirq + 1
    /\ UNCHANGED <<pressed, kbd, in, itask, ticks, taking, got, panicked>>

-----------------------------------------------------------------------------
(* The input task.                                                         *)

\* next is where the task goes after the signal that ends push_event.
push_event(ev, next) ==
    LET r == (in.rear + 1) % NEVENTS
    IN  /\ in' = [in EXCEPT !.events[in.rear] = ev, !.rear = r]
        /\ panicked' = IF r = in.front THEN "input queue full" ELSE ""
        /\ itask' = next

\* The event a pressed character key stands for.
KeyEvent(code, ctrl, alt, shift, caps) ==
    LET ch == keymap[code][1]
    IN  IF ctrl \/ alt THEN event(ctrl, alt, ch)
        ELSE event(FALSE, FALSE,
                   keymap[code][IF shift # (ch \in Letter /\ caps) THEN 2 ELSE 1])

Held(keys) == in.down \cap keys # {}

input_keydown(s) ==
    \/ /\ s.code \in Shift \cup Ctrl \cup Alt
       /\ in' = [in EXCEPT !.down = IF s.keydown THEN @ \cup {s.code}
                                                 ELSE @ \ {s.code}]
       /\ UNCHANGED <<itask, panicked>>
    \/ /\ s.code = "CAPSLOCK"
       /\ in' = [in EXCEPT !.capslock = (@ # s.keydown)]
       /\ UNCHANGED <<itask, panicked>>
    \/ /\ s.code \in DOMAIN keymap /\ s.keydown
       /\ push_event(KeyEvent(s.code, Held(Ctrl), Held(Alt), Held(Shift),
                              in.capslock), "signal_drain")
    \/ /\ s.code \notin Shift \cup Ctrl \cup Alt \cup {"CAPSLOCK"}
       /\ s.code \in DOMAIN keymap => ~s.keydown
       /\ UNCHANGED <<in, itask, panicked>>

\* A code that is no key ends the loop as an empty controller does.
Drain ==
    /\ itask = "drain"
    /\ \/ /\ kbd # <<>> /\ input_keybrd(Head(kbd)).code # "NONE"
          /\ kbd' = Tail(kbd)
          /\ input_keydown(input_keybrd(Head(kbd)))
       \/ /\ kbd # <<>> => input_keybrd(Head(kbd)).code = "NONE"
          /\ kbd' = IF kbd = <<>> THEN kbd ELSE Tail(kbd)
          /\ itask' = "timer"
          /\ UNCHANGED <<in, panicked>>
    /\ UNCHANGED <<pressed, sem_kbdirq, ticks, taking, got>>

\* More than 100 ms have passed since the last tick, or not.
Tick ==
    /\ itask = "timer"
    /\ \/ /\ is_empty /\ ticks < MaxTicks
          /\ push_event(NoEvent, "signal_wait")
          /\ ticks' = ticks + 1
       \/ itask' = "wait" /\ UNCHANGED <<in, ticks, panicked>>
    /\ UNCHANGED <<pressed, kbd, sem_kbdirq, taking, got>>

\* The sem_signal that ends push_event, after the lock is given back.
PushSignal ==
    /\ itask \in {"signal_drain", "signal_wait"}
    /\ in' = [in EXCEPT !.event_sem = @ + 1]
    /\ itask' = IF itask = "signal_drain" THEN "drain" ELSE "wait"
    /\ UNCHANGED <<pressed, kbd, sem_kbdirq, ticks, taking, got, panicked>>

WaitIrq ==
    /\ itask = "wait" /\ sem_kbdirq > 0
    /\ sem_kbdirq' = sem_kbdirq - 1
    /\ itask' = "drain"
    /\ UNCHANGED <<pressed, kbd, in, ticks, taking, got, panicked>>

dev_input_task == Drain \/ Tick \/ PushSignal \/ WaitIrq

-----------------------------------------------------------------------------
(* A reader: pop_event waits for a token, then takes the lock.             *)

PopWait(c) ==
    /\ c \notin taking /\ in.event_sem > 0
    /\ in' = [in EXCEPT !.event_sem = @ - 1]
    /\ taking' = taking \cup {c}
    /\ UNCHANGED <<pressed, kbd, sem_kbdirq, itask, ticks, got, panicked>>

Popped == in.events[in.front]

PopTake(c) ==
    /\ c \in taking
    /\ panicked' = IF is_empty THEN "input queue empty" ELSE ""
    /\ in' = [in EXCEPT !.front = (@ + 1) % NEVENTS]
    /\ got' = IF Popped = NoEvent THEN got ELSE Append(got, Popped)
    /\ taking' = taking \ {c}
    /\ UNCHANGED <<pressed, kbd, sem_kbdirq, itask, ticks>>

Keyboard == input_notify \/ \E s \in Stroke : KeyStroke(s)

InputNext ==
    /\ panicked = ""
    /\ Keyboard \/ dev_input_task \/ \E c \in Consumer : PopWait(c) \/ PopTake(c)

-----------------------------------------------------------------------------

(* What the strokes mean: one event for each character key pressed,        *)
(* under the modifiers held and the caps lock as it then is.               *)
Meaning(strokes) ==
    LET ks == [i \in DOMAIN strokes |-> input_keybrd(strokes[i])]
        chars == SelectSeq([i \in 1 .. Len(ks) |-> i],
                           LAMBDA i : ks[i].keydown /\ ks[i].code \in DOMAIN keymap)
        held(i, keys) == \E k \in keys : HeldAt(ks, i, k)
        caps(i) == Cardinality({j \in 1 .. i - 1 : ks[j] = [code |-> "CAPSLOCK",
                                                            keydown |-> TRUE]}) % 2 = 1
        shifted(i) == held(i, Shift) # (ks[i].code = "A" /\ caps(i))
        plain(i) == ~held(i, Ctrl) /\ ~held(i, Alt)
    IN  [n \in DOMAIN chars |->
            LET i == chars[n]
            IN  event(held(i, Ctrl), held(i, Alt),
                      keymap[ks[i].code][IF plain(i) /\ shifted(i) THEN 2 ELSE 1])]
=============================================================================
