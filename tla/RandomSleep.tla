----------------------------- MODULE RandomSleep -----------------------------
(***************************************************************************)
(* random-sleep (src/Random-Sleep/random-sleep.c): a run of the program    *)
(* with two bounds, from its arguments to its exit.  Times are counted in  *)
(* units of nanosleep(), which may be interrupted after any of them.       *)
(*                                                                         *)
(* A delay above MaxTime does not fit time_t; its conversion is undefined  *)
(* and yields any value, the ones nanosleep() rejects included.            *)
(***************************************************************************)
EXTENDS Integers

CONSTANT
    MaxTime     \* the longest time a timespec can hold

ASSUME MaxTimeAssumption == MaxTime \in Nat

VARIABLES
    sleeper,    \* what the process does
    low, high,  \* delayMin and delayMax
    delay,      \* the time to sleep
    sleepTime,  \* the argument of nanosleep()
    remaining,  \* remainingTime
    slept,      \* history: the time spent in nanosleep() since the last trial
    result      \* the exit status

sleepVars == <<sleeper, low, high, delay, sleepTime, remaining, slept, result>>

\* Any number that nanosleep() rejects.
Invalid == -1
Times == 0 .. MaxTime \cup {Invalid}

-----------------------------------------------------------------------------

\* No process.
SleepInit ==
    /\ sleeper = "none"
    /\ low = 0 /\ high = 0 /\ delay = 0 /\ sleepTime = 0 /\ slept = 0
    /\ remaining = 0
    /\ result = 0

\* The program is called with two arguments.
Called(min, max) ==
    /\ sleeper' = "called"
    /\ low' = min /\ high' = max
    /\ slept' = 0
    /\ UNCHANGED <<delay, sleepTime, remaining, result>>

\* The bounds are no interval.
RejectBounds ==
    /\ sleeper = "called"
    /\ low < 0 \/ low > high
    /\ sleeper' = "rejected"
    /\ result' = 1
    /\ UNCHANGED <<low, high, delay, sleepTime, remaining, slept>>

\* runiform() and the conversion to a timespec.  remainingTime is not
\* initialised; only a sleepTime that is rejected lets the program read it.
ChooseDelay ==
    /\ sleeper = "called"
    /\ 0 <= low /\ low <= high
    /\ \E d \in low .. high :
         /\ delay' = d
         /\ IF d <= MaxTime
              THEN sleepTime' = d /\ UNCHANGED remaining
              ELSE sleepTime' \in Times /\ remaining' \in Times
    /\ sleeper' = "sleeping"
    /\ UNCHANGED <<low, high, slept, result>>

\* nanosleep() returns 0.
WakeUp ==
    /\ sleeper = "sleeping"
    /\ sleepTime # Invalid
    /\ slept' = slept + sleepTime
    /\ sleeper' = "finished"
    /\ result' = 0
    /\ UNCHANGED <<low, high, delay, sleepTime, remaining>>

\* A bug: the whole time is slept again after an interruption.
InterruptedRestarts ==
    /\ sleeper = "sleeping"
    /\ \E t \in 1 .. sleepTime :
         /\ slept' = slept + (sleepTime - t)
         /\ remaining' = t
         /\ UNCHANGED sleepTime
    /\ UNCHANGED <<sleeper, low, high, delay, result>>

\* nanosleep() returns -1 with EINTR and what is left of the time; the loop
\* goes on with it.
Interrupted ==
    /\ sleeper = "sleeping"
    /\ \E t \in 1 .. sleepTime :
         /\ slept' = slept + (sleepTime - t)
         /\ remaining' = t
         /\ sleepTime' = t
    /\ UNCHANGED <<sleeper, low, high, delay, result>>

\* nanosleep() returns -1 with EINVAL and leaves remainingTime alone; the
\* loop goes on with what it holds.
InvalidTime ==
    /\ sleeper = "sleeping"
    /\ sleepTime = Invalid
    /\ sleepTime' = remaining
    /\ UNCHANGED <<sleeper, low, high, delay, remaining, slept, result>>

\* A signal ends the process.
KillSleep(status) ==
    /\ sleeper \in {"called", "sleeping"}
    /\ sleeper' = "killed"
    /\ result' = status
    /\ UNCHANGED <<low, high, delay, sleepTime, remaining, slept>>

\* The process is waited for; only its history is left.
Reaped ==
    /\ sleeper' = "none"
    /\ low' = 0 /\ high' = 0 /\ delay' = 0 /\ sleepTime' = 0 /\ remaining' = 0
    /\ UNCHANGED <<slept, result>>

-----------------------------------------------------------------------------

SleepTypeOK ==
    /\ sleeper \in {"none", "called", "rejected", "sleeping", "finished",
                    "killed"}
    /\ low \in Int /\ high \in Int
    /\ delay \in Nat /\ slept \in Nat
    /\ sleepTime \in Times /\ remaining \in Times
    /\ result \in Nat

(***************************************************************************)
(* While it sleeps, the time slept and the time left make the delay, how   *)
(* often a signal interrupts nanosleep(); so at the end the delay has      *)
(* passed, neither less nor a part of it twice.  It lies between the       *)
(* bounds of the command line.                                             *)
(***************************************************************************)
SleepsTheDelay ==
    /\ sleeper = "sleeping" /\ delay <= MaxTime => slept + sleepTime = delay
    /\ sleeper = "finished" /\ delay <= MaxTime => slept = delay
    /\ sleeper \in {"sleeping", "finished"} => delay \in low .. high

=============================================================================
