------------------------------- MODULE TryHard -------------------------------
(***************************************************************************)
(* try-hard (src/Try-Hard/try-hard): a command is tried again until it     *)
(* succeeds or the trials are used up.  Between two trials the script      *)
(* calls random-sleep (module RandomSleep) with an interval that grows, or *)
(* sleep(1) in deterministic mode.                                         *)
(*                                                                         *)
(* Delays are natural numbers of some small unit.  awk prints them with    *)
(* "%g", that is, rounded to a nearest number of six digits: Printable     *)
(* stands for the numbers of so many digits.                               *)
(***************************************************************************)
EXTENDS RandomSleep

CONSTANTS
    Trials,     \* the numbers that MAX_TRIALS may be
    Delays,     \* the values of -m, -T and MAX_DELAY
    Increments, \* the values of -A
    Factors,    \* the values of -M, in tenths
    Printable,  \* the numbers "%g" can print
    Longest,    \* the longest delay
    Statuses,   \* the exit statuses of the command
    TrialCap,   \* where the model stops counting trials
    Unusable    \* what matches ^[0-9]*$ without being a number to test:
                \* nothing at all, or more digits than an integer has

\* What read makes of the output of an awk that did not run: no delay.
Missing == -1

\* The command has not ended yet.
None == -1

ASSUME TrialsAssumption == Trials \subseteq Nat /\ Unusable \notin Trials
ASSUME DelaysAssumption == /\ Longest \in Nat /\ Delays \subseteq 0 .. Longest
ASSUME IncreaseAssumption == Increments \subseteq Nat /\ Factors \subseteq Nat
ASSUME StatusAssumption == Statuses \subseteq Nat /\ 0 \in Statuses
\* The cap exceeds every limit, so that no comparison tells it from counting.
ASSUME CapAssumption == TrialCap \in Nat \ {0} /\ \A n \in Trials : n < TrialCap

Nearest(d, p) ==
    \A q \in Printable :
        (IF d < p THEN p - d ELSE d - p) <= (IF d < q THEN q - d ELSE d - q)

ASSUME PrintableAssumption ==
    /\ Printable \subseteq Nat /\ 0 \in Printable
    /\ \A d \in 0 .. Longest : \E p \in Printable : p <= Longest /\ Nearest(d, p)

VARIABLES
    args,       \* the command line
    pc,         \* what the script does
    trial,      \* the number of the trial
    exitStatus, \* of the command, in the last trial
    minDelay, maxDelay,     \* the interval to wait
    code,       \* the exit status of the script
    tried,      \* history: how often the command was run
    last        \* history: how it ended the last time

scriptVars == <<args, pc, trial, exitStatus, minDelay, maxDelay, code, tried,
                last>>
vars == <<scriptVars, sleepVars>>

\* usable: MAX_DELAY is a number, and random-sleep is there if it is needed.
Arguments ==
    [trials : Trials \cup {Unusable}, usable : BOOLEAN, max : Delays,
     min : Delays, increment : Increments, factor : Factors, truncate : Delays,
     deterministic : BOOLEAN]

Lesser(a, b) == IF a < b THEN a ELSE b
Greater(a, b) == IF a > b THEN a ELSE b

Rounded(d) == CHOOSE p \in Printable : p <= Longest /\ Nearest(d, p)

Init ==
    /\ args \in Arguments
    /\ pc = "check"
    /\ trial = 0 /\ exitStatus = 0 /\ code = 0 /\ tried = 0
    /\ last = None
    /\ minDelay = 0 /\ maxDelay = 0
    /\ SleepInit

-----------------------------------------------------------------------------

\* [ A op B ] fails, with a message on stderr, where B is no number.
TestLess(a, b) == a # Unusable /\ a < b

\* A bug: one trial too many.
TestExceeded(a, b) == b # Unusable /\ a > b

TestReached(a, b) == b # Unusable /\ a >= b

RejectArguments ==
    /\ pc = "check"
    /\ TestLess(args.trials, 1) \/ ~args.usable
    /\ pc' = "exited" /\ code' = 1
    /\ UNCHANGED <<args, trial, exitStatus, minDelay, maxDelay, tried, last,
                   sleepVars>>

\* awk fails.  The script goes on with two empty strings.
NoDelays == minDelay' = Missing /\ maxDelay' = Missing

\* A bug: the delays are taken as they are given.
FirstDelaysUnsorted ==
    /\ minDelay' = Rounded(args.min)
    /\ maxDelay' = Rounded(args.max)

FirstDelays ==
    \/ /\ minDelay' = Rounded(Lesser(args.min, args.max))
       /\ maxDelay' = Rounded(Greater(args.min, args.max))
    \/ NoDelays

AcceptArguments ==
    /\ pc = "check"
    /\ ~TestLess(args.trials, 1) /\ args.usable
    /\ FirstDelays
    /\ pc' = "next"
    /\ UNCHANGED <<args, trial, exitStatus, code, tried, last,
                   sleepVars>>

\* The loop counts as long as it runs; the model stops at its cap.
Counted(n) == IF n < TrialCap THEN n + 1 ELSE n

\* A bug: the script does not count.
StartTrialUncounted ==
    /\ pc = "next"
    /\ trial' = 1
    /\ tried' = Counted(tried)
    /\ slept' = 0
    /\ pc' = "command"
    /\ UNCHANGED <<args, exitStatus, minDelay, maxDelay, code, last,
                   sleeper, low, high, delay, sleepTime, remaining, result>>

StartTrial ==
    /\ pc = "next"
    /\ trial' = Counted(trial)
    /\ tried' = Counted(tried)
    /\ slept' = 0
    /\ pc' = "command"
    /\ UNCHANGED <<args, exitStatus, minDelay, maxDelay, code, last,
                   sleeper, low, high, delay, sleepTime, remaining, result>>

\* A bug: the status of the first failure is kept.
CommandFailsFirst ==
    /\ pc = "command"
    /\ last' \in Statuses \ {0}
    /\ exitStatus' = IF exitStatus = 0 THEN last' ELSE exitStatus
    /\ pc' = "failed"
    /\ UNCHANGED <<args, trial, minDelay, maxDelay, code, tried, sleepVars>>

\* "$@" && exit 0
CommandSucceeds ==
    /\ pc = "command"
    /\ last' = 0
    /\ pc' = "exited" /\ code' = 0
    /\ UNCHANGED <<args, trial, exitStatus, minDelay, maxDelay, tried, sleepVars>>

\* ... || exitStatus=$?
CommandFails ==
    /\ pc = "command"
    /\ exitStatus' \in Statuses \ {0}
    /\ last' = exitStatus'
    /\ pc' = "failed"
    /\ UNCHANGED <<args, trial, minDelay, maxDelay, code, tried, sleepVars>>

GiveUp ==
    /\ pc = "failed"
    /\ TestReached(trial, args.trials)
    /\ pc' = "exited" /\ code' = exitStatus
    /\ UNCHANGED <<args, trial, exitStatus, minDelay, maxDelay, tried, last,
                   sleepVars>>

\* A bug: a delay that exceeds the truncation starts over.
BoundedStartsOver(d) ==
    IF (d * args.factor) \div 10 + args.increment <= args.truncate
      THEN Greater((d * args.factor) \div 10 + args.increment, args.min)
      ELSE args.min

\* A bug: the lower boundary is forgotten.
BoundedWithoutMin(d) ==
    Lesser((d * args.factor) \div 10 + args.increment, args.truncate)

Bounded(d) ==
    Greater(Lesser((d * args.factor) \div 10 + args.increment, args.truncate),
            args.min)

\* The delays for the next trial.  The wait after the first trial takes the
\* delays of the command line.
Increased ==
    IF trial > 1
      THEN \/ /\ minDelay' = Rounded(Lesser(Bounded(minDelay), Bounded(maxDelay)))
              /\ maxDelay' = Rounded(Greater(Bounded(minDelay), Bounded(maxDelay)))
           \/ NoDelays
      ELSE UNCHANGED <<minDelay, maxDelay>>

TryAgain ==
    /\ pc = "failed"
    /\ ~TestReached(trial, args.trials)
    /\ Increased
    /\ pc' = "wait"
    /\ UNCHANGED <<args, trial, exitStatus, code, tried, last,
                   sleepVars>>

\* A bug: the interval of the command line is used for every wait.
CallRandomSleepUnincreased ==
    /\ pc = "wait" /\ ~args.deterministic
    /\ Called(Rounded(args.min), Rounded(args.max))
    /\ pc' = "waiting"
    /\ UNCHANGED <<args, trial, exitStatus, minDelay, maxDelay, code, tried,
                   last>>

CallRandomSleep ==
    /\ pc = "wait" /\ ~args.deterministic
    /\ Called(minDelay, maxDelay)
    /\ pc' = "waiting"
    /\ UNCHANGED <<args, trial, exitStatus, minDelay, maxDelay, code, tried,
                   last>>

\* sleep(1) sleeps as long as it is told to.
CallSleep ==
    /\ pc = "wait" /\ args.deterministic
    /\ Called(maxDelay, maxDelay)
    /\ pc' = "waiting"
    /\ UNCHANGED <<args, trial, exitStatus, minDelay, maxDelay, code, tried,
                   last>>

Slept ==
    /\ pc = "waiting"
    /\ sleeper = "finished"
    /\ Reaped
    /\ pc' = "next"
    /\ UNCHANGED <<args, trial, exitStatus, minDelay, maxDelay, code, tried, last>>

\* The script runs with set -e.
SleepFailed ==
    /\ pc = "waiting"
    /\ sleeper \in {"rejected", "killed"}
    /\ pc' = "exited" /\ code' = result
    /\ UNCHANGED <<args, trial, exitStatus, minDelay, maxDelay, tried, last,
                   sleepVars>>

Sleeping ==
    /\ RejectBounds \/ ChooseDelay \/ WakeUp \/ InvalidTime
    /\ UNCHANGED scriptVars

Signalled ==
    /\ Interrupted \/ KillSleep(143)
    /\ UNCHANGED scriptVars

Done ==
    /\ pc = "exited"
    /\ UNCHANGED vars

Script ==
    \/ RejectArguments \/ AcceptArguments
    \/ StartTrial \/ CommandSucceeds \/ CommandFails
    \/ GiveUp \/ TryAgain
    \/ CallRandomSleep \/ CallSleep \/ Slept \/ SleepFailed

Next == Script \/ Sleeping \/ Signalled \/ Done

Spec == Init /\ [][Next]_vars

\* The script and its children run, and the command ends.  Nothing makes a
\* signal come, or the command succeed.
FairSpec == Spec /\ WF_vars(Script) /\ WF_vars(Sleeping)

-----------------------------------------------------------------------------

\* The variables hold what the script and the program keep in them; the
\* trials never exceed the ones asked for (lines 218 and 227).
TypeOK ==
    /\ args \in Arguments
    /\ pc \in {"check", "next", "command", "failed", "wait", "waiting", "exited"}
    /\ trial \in 0 .. TrialCap
    /\ tried \in 0 .. (IF args.trials = Unusable THEN TrialCap ELSE args.trials)
    /\ exitStatus \in Statuses /\ last \in Statuses \cup {None}
    /\ code \in Statuses \cup {1, 143}
    /\ minDelay \in (Printable \cap 0 .. Longest) \cup {Missing}
    /\ maxDelay \in (Printable \cap 0 .. Longest) \cup {Missing}
    /\ SleepTypeOK

\* What the exit status says of the trials made (lines 178 to 232): 0 means
\* that the command succeeded in the end; 1 without a trial that the arguments
\* were rejected.  Unless waiting failed, any other status is that of the last
\* trial, after as many trials as asked for.  If it did, see ExitOfLastTrial.
ExitTells ==
    pc = "exited" =>
        /\ code = 0 <=> last = 0
        /\ tried = 0 => code = 1
        /\ tried > 0 /\ code # 0 /\ sleeper \notin {"rejected", "killed"}
             => tried = args.trials /\ code = last

\* try-hard.1: "On failure, the exit code of the last failed trial is
\* returned."  The code contradicts it: with set -e a random-sleep that is
\* killed, or refuses the empty delays of an awk that failed, ends the script
\* with a status of its own (line 263).
ExitOfLastTrial == pc = "exited" /\ tried > 0 => code = last

\* The delays of the second and later waits lie between the minimum and the
\* truncation, or are both the minimum where that is the greater one, up to
\* what printing them changes (lines 235 to 255).
DelaysInBounds ==
    pc \in {"wait", "waiting"} /\ trial > 1 /\ minDelay # Missing =>
        /\ Rounded(args.min) <= minDelay
        /\ maxDelay <= Rounded(Greater(args.truncate, args.min))

\* random-sleep refuses its arguments (lines 161 to 167 of random-sleep.c) only
\* when awk did not run, however the options were chosen.
WaitNeverRefused == sleeper = "rejected" => minDelay = Missing

\* A trial after the first one starts when a time from the interval announced
\* for it has passed, however often signals interrupt the sleep.
PausesBetweenTrials ==
    pc = "next" /\ trial > 0 /\ maxDelay <= MaxTime =>
        slept \in (IF args.deterministic THEN {maxDelay} ELSE minDelay .. maxDelay)

\* The interval never shrinks, except to the truncation, unless the factor is
\* less than one (lines 235 to 255, with the rounding of printf).
BacksOff ==
    [][ args.factor >= 10 /\ pc = "failed" /\ minDelay # Missing
        /\ minDelay' # Missing =>
            /\ minDelay' >= Lesser(minDelay, Rounded(args.truncate))
            /\ maxDelay' >= Lesser(maxDelay, Rounded(args.truncate)) ]_vars

\* A run with a usable limit ends, as long as its delays fit time_t, even if
\* the command never succeeds and signals keep interrupting the sleep.
Terminates ==
    /\ args.trials # Unusable
    /\ \A d \in {args.min, args.max, args.truncate} : Rounded(d) <= MaxTime
    ~> pc = "exited"

\* try-hard.1: "max_trials: The maximum number of trials."  The script stops
\* whatever limit it has accepted.
GivesUp ==
    (\A d \in {args.min, args.max, args.truncate} : Rounded(d) <= MaxTime)
    ~> pc = "exited"
=============================================================================
