--------------------------------- MODULE Timers ---------------------------------
(* The three timer exercises of seance_4: alarm.c (alarm and SIGALRM), timer.c *)
(* (timer_create and a real-time signal), timerfd.c (a descriptor that is      *)
(* read).  Each waits for three ticks, then for three shorter ones.  Time is   *)
(* not measured: a timer that is armed may expire.                             *)
EXTENDS Naturals, Sequences, SequencesExt

CONSTANT Late    \* bound: expirations of the timerfd between two reads

\* What is assumed of it; the modules that instantiate this one say so.
LateAssumption == Late \in Nat \ {0}

VARIABLES
    program,
    tpc,        \* control point of main
    period,     \* seconds the timer is armed for; 0: disarmed
    due,        \* a signal that is not delivered yet, or the expirations not read yet
    fired       \* the periods of the ticks so far; ticks is its length

vars == <<program, tpc, period, due, fired>>
ticks == Len(fired)
Signals == program \in {"alarm", "timer"}

Init ==
    /\ program \in {"alarm", "timer", "timerfd"}
    /\ tpc = "start"
    /\ period = 0 /\ due = 0 /\ fired = <<>>

\* alarm(6), arm(6), set_timer(tfd, 5, 5)
Start ==
    /\ tpc = "start"
    /\ period' = IF Signals THEN 6 ELSE 5
    /\ tpc' = IF Signals THEN "test" ELSE "read"
    /\ UNCHANGED <<program, due, fired>>

\* The kernel: the timers with a signal fire once, the timerfd again and again.
Expire ==
    /\ period > 0
    /\ due < IF Signals THEN 1 ELSE Late
    /\ due' = due + 1
    /\ UNCHANGED <<program, tpc, period, fired>>

ArmsAgain(n) == n < 6

\* on_alarm: two seconds after every tick.  on_tick: two seconds from the third on.
NextPeriod(n) ==
    IF ~ArmsAgain(n) THEN 0
    ELSE IF program = "timer" /\ n < 3 THEN 6 ELSE 2

\* on_alarm, on_tick: the handler interrupts main anywhere; only a pause that has
\* begun returns.
Handler ==
    /\ Signals /\ due = 1
    /\ due' = 0
    /\ fired' = Append(fired, period)
    /\ period' = NextPeriod(ticks + 1)
    /\ tpc' = IF tpc = "paused" THEN "test" ELSE tpc
    /\ UNCHANGED program

\* while (ticks < 6) pause();
Test ==
    /\ tpc = "test"
    /\ tpc' = IF ticks < 6 THEN "pause" ELSE "stop"
    /\ UNCHANGED <<program, period, due, fired>>

Pause ==
    /\ tpc = "pause"
    /\ tpc' = "paused"
    /\ UNCHANGED <<program, period, due, fired>>

\* read blocks until there is an expiration and takes them all.
Read ==
    /\ tpc = "read" /\ due > 0
    /\ due' = 0
    /\ fired' = Append(fired, period)
    /\ tpc' = IF ticks + 1 = 3 THEN "modify" ELSE IF ticks + 1 = 6 THEN "stop" ELSE "read"
    /\ UNCHANGED <<program, period>>

\* set_timer(tfd, 2, 2) forgets the expirations that are not read.
Modify ==
    /\ tpc = "modify"
    /\ period' = 2 /\ due' = 0
    /\ tpc' = "read"
    /\ UNCHANGED <<program, fired>>

\* alarm(0), timer_settime and timer_delete, set_timer(tfd, 0, 0)
Stop ==
    /\ tpc = "stop"
    /\ period' = 0 /\ due' = 0
    /\ tpc' = "done"
    /\ UNCHANGED <<program, fired>>

Main == Start \/ Test \/ Pause \/ Read \/ Modify \/ Stop

\* main sleeps after the last tick.
MissedLastTick == tpc = "paused" /\ ticks = 6
Ended == tpc = "done" \/ MissedLastTick

Next ==
    \/ Main \/ Expire \/ Handler
    \/ Ended /\ UNCHANGED vars

Fairness == WF_vars(Main) /\ WF_vars(Expire) /\ WF_vars(Handler)

Spec == Init /\ [][Next]_vars /\ Fairness

-----------------------------------------------------------------------------
(* Properties. *)

\* The ticks come with the periods that the code arms (alarm.c: 2 seconds from the
\* second tick on), and main ends after the sixth, except when that tick comes between
\* the test of ticks and pause: then it sleeps for ever.
Schedule ==
    [alarm |-> <<6, 2, 2, 2, 2, 2>>, timer |-> <<6, 6, 6, 2, 2, 2>>, timerfd |-> <<5, 5, 5, 2, 2, 2>>]
==============================================================================
