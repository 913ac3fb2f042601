---------------------------- MODULE TryHardProofs ----------------------------
(***************************************************************************)
(* Proofs about TryHard, for any limits, delays, increments and factors,   *)
(* and any set of numbers that "%g" can print.                             *)
(***************************************************************************)
EXTENDS TryHard, TLAPS

\* How many trials are left at each place of the loop.
TrialInv ==
    /\ tried = trial
    /\ pc = "check" => trial = 0 /\ last = None /\ sleeper = "none"
    /\ pc \in {"command", "failed", "wait", "waiting"} => trial > 0
    /\ pc \notin {"check", "exited"} /\ args.trials # Unusable => args.trials >= 1
    /\ pc \in {"next", "wait", "waiting"} /\ args.trials # Unusable =>
           trial < args.trials

\* What is known of the last status at each place of the loop.
StatusInv ==
    /\ pc # "exited" => last # 0
    /\ pc \in {"failed", "wait", "waiting"} => last = exitStatus
    /\ result \in {0, 1, 143}
    /\ sleeper \in {"rejected", "killed"} => result # 0
    /\ sleeper # "none" => pc \in {"waiting", "exited"}

\* The delays are an interval, or both are missing; the process that waits
\* has been given them, starts to count anew, and sleeps a valid time.
DelayInv ==
    /\ minDelay <= maxDelay
    /\ minDelay = Missing <=> maxDelay = Missing
    /\ sleeper \in {"called", "sleeping", "finished", "rejected"} =>
           /\ high = maxDelay
           /\ low = IF args.deterministic THEN maxDelay ELSE minDelay
    /\ \/ sleeper \in {"sleeping", "finished"}
       \/ pc = "next" /\ trial > 0
       \/ pc \in {"command", "failed"} /\ trial > 1
       => minDelay # Missing
    /\ sleeper = "called" => slept = 0
    /\ sleeper = "sleeping" /\ delay <= MaxTime => sleepTime # Invalid

IInv == /\ TypeOK
        /\ TrialInv
        /\ StatusInv
        /\ DelayInv
        /\ SleepsTheDelay
        /\ PausesBetweenTrials
        /\ DelaysInBounds
        /\ WaitNeverRefused
        /\ ExitTells

-----------------------------------------------------------------------------

\* What the options may be.
LEMMA ArgumentRanges ==
    ASSUME args \in Arguments
    PROVE  /\ args.min \in 0 .. Longest
           /\ args.max \in 0 .. Longest
           /\ args.truncate \in 0 .. Longest
           /\ args.factor \in Nat
           /\ args.increment \in Nat
<1>1. /\ args.min \in Delays /\ args.max \in Delays /\ args.truncate \in Delays
      /\ args.factor \in Factors /\ args.increment \in Increments
  BY DEF Arguments
<1> QED BY <1>1, DelaysAssumption, IncreaseAssumption

\* Printing and reading a delay yields a nearest printable number.
LEMMA RoundedNearest ==
    ASSUME NEW d \in 0 .. Longest
    PROVE  /\ Rounded(d) \in Printable
           /\ Rounded(d) \in 0 .. Longest
           /\ Nearest(d, Rounded(d))
<1>1. \E p \in Printable : p <= Longest /\ Nearest(d, p)
  BY PrintableAssumption
<1>2. Rounded(d) \in Printable /\ Rounded(d) <= Longest /\ Nearest(d, Rounded(d))
  BY <1>1, Zenon DEF Rounded
<1>3. Rounded(d) \in Nat
  BY <1>2, PrintableAssumption
<1> QED BY <1>2, <1>3, DelaysAssumption

\* Rounding keeps the order of two delays.
LEMMA RoundedMonotonic ==
    ASSUME NEW c \in 0 .. Longest, NEW d \in 0 .. Longest, c <= d
    PROVE  Rounded(c) <= Rounded(d)
<1> DEFINE p == Rounded(c)
           q == Rounded(d)
<1>1. p \in Printable /\ q \in Printable /\ Nearest(c, p) /\ Nearest(d, q)
  BY RoundedNearest
<1>2. p \in Nat /\ q \in Nat
  BY <1>1, PrintableAssumption
<1>3. (IF c < p THEN p - c ELSE c - p) <= (IF c < q THEN q - c ELSE c - q)
  BY <1>1 DEF Nearest
<1>4. (IF d < q THEN q - d ELSE d - q) <= (IF d < p THEN p - d ELSE d - p)
  BY <1>1 DEF Nearest
<1>5. CASE c = d
  BY <1>2, <1>5
<1>6. CASE c < d
  <2>1. p <= q
    <3> HIDE DEF p, q
    <3> QED BY <1>2, <1>3, <1>4, <1>6, DelaysAssumption
  <2> QED BY <2>1
<1> QED BY <1>5, <1>6, DelaysAssumption

\* A number that has been printed is printed the same again.
LEMMA RoundedTwice ==
    ASSUME NEW d \in Printable \cap 0 .. Longest
    PROVE  Rounded(d) = d
<1>1. /\ Rounded(d) \in 0 .. Longest
      /\ Nearest(d, Rounded(d))
  BY RoundedNearest
<1>2. (IF d < Rounded(d) THEN Rounded(d) - d ELSE d - Rounded(d)) <= d - d
  BY <1>1 DEF Nearest
<1> QED BY <1>1, <1>2, DelaysAssumption

\* An increased delay lies between the minimum and the truncation, or is the
\* minimum.
LEMMA BoundedInBounds ==
    ASSUME args \in Arguments, NEW d \in Nat
    PROVE  /\ Bounded(d) \in 0 .. Longest
           /\ args.min <= Bounded(d)
           /\ Bounded(d) <= Greater(args.truncate, args.min)
<1>1. /\ args.min \in 0 .. Longest /\ args.truncate \in 0 .. Longest
      /\ args.factor \in Nat /\ args.increment \in Nat
  BY ArgumentRanges
<1>2. d * args.factor \in Nat
  BY <1>1
<1>3. (d * args.factor) \div 10 \in Nat
  BY <1>2
<1> DEFINE n == (d * args.factor) \div 10 + args.increment
<1>4. n \in Nat
  BY <1>1, <1>3
<1>5. Bounded(d) = Greater(Lesser(n, args.truncate), args.min)
  BY DEF Bounded
<1> HIDE DEF n
<1> QED BY <1>1, <1>4, <1>5, DelaysAssumption DEF Greater, Lesser

-----------------------------------------------------------------------------

\* The delays of the command line and the increased ones are intervals within
\* their bounds.
LEMMA FirstInterval ==
    ASSUME args \in Arguments, FirstDelays
    PROVE  /\ minDelay' \in (Printable \cap 0 .. Longest) \cup {Missing}
           /\ maxDelay' \in (Printable \cap 0 .. Longest) \cup {Missing}
           /\ minDelay' <= maxDelay'
           /\ minDelay' = Missing <=> maxDelay' = Missing
<1>1. CASE NoDelays
  BY <1>1 DEF NoDelays, Missing
<1>2. CASE /\ minDelay' = Rounded(Lesser(args.min, args.max))
           /\ maxDelay' = Rounded(Greater(args.min, args.max))
  <2> DEFINE l == Lesser(args.min, args.max)
             g == Greater(args.min, args.max)
  <2>0. args.min \in 0 .. Longest /\ args.max \in 0 .. Longest
    BY ArgumentRanges
  <2>1. l \in 0 .. Longest /\ g \in 0 .. Longest /\ l <= g
    BY <2>0, DelaysAssumption DEF Lesser, Greater
  <2> HIDE DEF l, g
  <2>2. Rounded(l) <= Rounded(g)
    BY <2>1, RoundedMonotonic
  <2>3. /\ Rounded(l) \in Printable \cap 0 .. Longest
        /\ Rounded(g) \in Printable \cap 0 .. Longest
    BY <2>1, RoundedNearest
  <2>4. minDelay' = Rounded(l) /\ maxDelay' = Rounded(g)
    BY <1>2 DEF l, g
  <2> QED BY <2>2, <2>3, <2>4 DEF Missing
<1> QED BY <1>1, <1>2 DEF FirstDelays

LEMMA NextInterval ==
    ASSUME args \in Arguments, minDelay \in Nat, maxDelay \in Nat,
           minDelay' = Rounded(Lesser(Bounded(minDelay), Bounded(maxDelay))),
           maxDelay' = Rounded(Greater(Bounded(minDelay), Bounded(maxDelay)))
    PROVE  /\ minDelay' \in Printable \cap 0 .. Longest
           /\ maxDelay' \in Printable \cap 0 .. Longest
           /\ minDelay' <= maxDelay'
           /\ Rounded(args.min) <= minDelay'
           /\ maxDelay' <= Rounded(Greater(args.truncate, args.min))
<1> DEFINE a == Bounded(minDelay)
           b == Bounded(maxDelay)
           l == Lesser(a, b)
           g == Greater(a, b)
           t == Greater(args.truncate, args.min)
<1>1. /\ a \in 0 .. Longest /\ args.min <= a /\ a <= t
      /\ b \in 0 .. Longest /\ args.min <= b /\ b <= t
  BY BoundedInBounds
<1>2. args.min \in 0 .. Longest /\ t \in 0 .. Longest
  BY ArgumentRanges DEF Greater
<1> HIDE DEF a, b, t
<1>3. /\ l \in 0 .. Longest /\ g \in 0 .. Longest
      /\ l <= g /\ args.min <= l /\ g <= t
  BY <1>1, <1>2 DEF Lesser, Greater
<1>4. minDelay' = Rounded(l) /\ maxDelay' = Rounded(g)
  BY DEF a, b
<1> HIDE DEF l, g
<1>5. Rounded(l) <= Rounded(g)
  BY <1>3, RoundedMonotonic
<1>6. Rounded(args.min) <= Rounded(l)
  BY <1>2, <1>3, RoundedMonotonic
<1>7. Rounded(g) <= Rounded(t)
  BY <1>2, <1>3, RoundedMonotonic
<1>8. /\ Rounded(l) \in Printable \cap 0 .. Longest
      /\ Rounded(g) \in Printable \cap 0 .. Longest
  BY <1>3, RoundedNearest
<1> QED BY <1>4, <1>5, <1>6, <1>7, <1>8 DEF t

-----------------------------------------------------------------------------

LEMMA InitInv == Init => IInv
<1> SUFFICES ASSUME Init
             PROVE  IInv
  OBVIOUS
<1> USE DEF Init, SleepInit, None, Missing
<1>0. args.trials # Unusable => args.trials \in Nat
  BY TrialsAssumption DEF Arguments
<1>1. TypeOK
  BY <1>0, MaxTimeAssumption, DelaysAssumption, StatusAssumption, CapAssumption,
     TrialsAssumption, PrintableAssumption
  DEF TypeOK, SleepTypeOK, Times
<1>2. TrialInv /\ StatusInv /\ ExitTells
  BY DEF TrialInv, StatusInv, ExitTells
<1>3. /\ DelayInv /\ DelaysInBounds /\ WaitNeverRefused
      /\ SleepsTheDelay /\ PausesBetweenTrials
  BY DEF DelayInv, DelaysInBounds, WaitNeverRefused, SleepsTheDelay,
         PausesBetweenTrials
<1> QED BY <1>1, <1>2, <1>3 DEF IInv

LEMMA StepInv == IInv /\ [Next]_vars => IInv'
<1> SUFFICES ASSUME IInv, [Next]_vars
             PROVE  IInv'
  OBVIOUS
<1> USE MaxTimeAssumption, DelaysAssumption, StatusAssumption, CapAssumption,
        TrialsAssumption
    DEF None, Missing
<1>0. args.trials # Unusable => args.trials \in Nat /\ args.trials < TrialCap
  BY ZenonT(60) DEF IInv, TypeOK, Arguments
<1>1. CASE RejectArguments
  <2> USE <1>0, <1>1 DEF IInv, RejectArguments, sleepVars, TestLess
  <2>1. TypeOK'
    BY DEF TypeOK, SleepTypeOK, TrialInv
  <2>2. TrialInv' /\ StatusInv' /\ ExitTells'
    BY DEF TypeOK, SleepTypeOK, TrialInv, StatusInv, ExitTells
  <2>3. /\ DelayInv' /\ DelaysInBounds' /\ WaitNeverRefused'
        /\ SleepsTheDelay' /\ PausesBetweenTrials'
    BY DEF TypeOK, SleepTypeOK, TrialInv, StatusInv, DelayInv, DelaysInBounds,
           WaitNeverRefused, SleepsTheDelay, PausesBetweenTrials
  <2> QED BY <2>1, <2>2, <2>3
<1>2. CASE AcceptArguments
  <2> USE <1>0, <1>2 DEF IInv, AcceptArguments, sleepVars, TestLess
  <2>delays. /\ minDelay' \in (Printable \cap 0 .. Longest) \cup {Missing}
             /\ maxDelay' \in (Printable \cap 0 .. Longest) \cup {Missing}
             /\ minDelay' <= maxDelay'
             /\ minDelay' = Missing <=> maxDelay' = Missing
    BY FirstInterval DEF TypeOK
  <2>1. TypeOK'
    BY <2>delays DEF TypeOK, SleepTypeOK, TrialInv
  <2>2. TrialInv' /\ StatusInv' /\ ExitTells'
    BY DEF TypeOK, SleepTypeOK, TrialInv, StatusInv, ExitTells
  <2>3. /\ DelayInv' /\ DelaysInBounds' /\ WaitNeverRefused'
        /\ SleepsTheDelay' /\ PausesBetweenTrials'
    BY <2>delays DEF TypeOK, SleepTypeOK, TrialInv, StatusInv, DelayInv, DelaysInBounds,
           WaitNeverRefused, SleepsTheDelay, PausesBetweenTrials
  <2> QED BY <2>1, <2>2, <2>3
<1>3. CASE StartTrial
  <2> USE <1>0, <1>3 DEF IInv, StartTrial, sleepVars, Counted
  <2>1. TypeOK'
    BY DEF TypeOK, SleepTypeOK, TrialInv
  <2>2. TrialInv' /\ StatusInv' /\ ExitTells'
    BY DEF TypeOK, SleepTypeOK, TrialInv, StatusInv, ExitTells
  <2>3. /\ DelayInv' /\ DelaysInBounds' /\ WaitNeverRefused'
        /\ SleepsTheDelay' /\ PausesBetweenTrials'
    BY DEF TypeOK, SleepTypeOK, TrialInv, StatusInv, DelayInv, DelaysInBounds,
           WaitNeverRefused, SleepsTheDelay, PausesBetweenTrials
  <2> QED BY <2>1, <2>2, <2>3
<1>4. CASE CommandSucceeds
  <2> USE <1>0, <1>4 DEF IInv, CommandSucceeds, sleepVars
  <2>1. TypeOK'
    BY DEF TypeOK, SleepTypeOK, TrialInv
  <2>2. TrialInv' /\ StatusInv' /\ ExitTells'
    BY DEF TypeOK, SleepTypeOK, TrialInv, StatusInv, ExitTells
  <2>3. /\ DelayInv' /\ DelaysInBounds' /\ WaitNeverRefused'
        /\ SleepsTheDelay' /\ PausesBetweenTrials'
    BY DEF TypeOK, SleepTypeOK, TrialInv, StatusInv, DelayInv, DelaysInBounds,
           WaitNeverRefused, SleepsTheDelay, PausesBetweenTrials
  <2> QED BY <2>1, <2>2, <2>3
<1>5. CASE CommandFails
  <2> USE <1>0, <1>5 DEF IInv, CommandFails, sleepVars
  <2>1. TypeOK'
    BY DEF TypeOK, SleepTypeOK, TrialInv
  <2>2. TrialInv' /\ StatusInv' /\ ExitTells'
    BY DEF TypeOK, SleepTypeOK, TrialInv, StatusInv, ExitTells
  <2>3. /\ DelayInv' /\ DelaysInBounds' /\ WaitNeverRefused'
        /\ SleepsTheDelay' /\ PausesBetweenTrials'
    BY DEF TypeOK, SleepTypeOK, TrialInv, StatusInv, DelayInv, DelaysInBounds,
           WaitNeverRefused, SleepsTheDelay, PausesBetweenTrials
  <2> QED BY <2>1, <2>2, <2>3
<1>6. CASE GiveUp
  <2> USE <1>0, <1>6 DEF IInv, GiveUp, sleepVars, TestReached
  <2>1. TypeOK'
    BY DEF TypeOK, SleepTypeOK, TrialInv
  <2>2. TrialInv' /\ StatusInv' /\ ExitTells'
    BY DEF TypeOK, SleepTypeOK, TrialInv, StatusInv, ExitTells
  <2>3. /\ DelayInv' /\ DelaysInBounds' /\ WaitNeverRefused'
        /\ SleepsTheDelay' /\ PausesBetweenTrials'
    BY DEF TypeOK, SleepTypeOK, TrialInv, StatusInv, DelayInv, DelaysInBounds,
           WaitNeverRefused, SleepsTheDelay, PausesBetweenTrials
  <2> QED BY <2>1, <2>2, <2>3
<1>7. CASE TryAgain
  <2> USE <1>0, <1>7 DEF IInv, TryAgain, sleepVars, TestReached
  <2>before. minDelay # Missing => minDelay \in Nat /\ maxDelay \in Nat
    BY DEF TypeOK, DelayInv
  <2>delays.
        \/ UNCHANGED <<minDelay, maxDelay>> /\ trial <= 1
        \/ minDelay' = Missing /\ maxDelay' = Missing
        \/ /\ minDelay' \in Printable \cap 0 .. Longest
           /\ maxDelay' \in Printable \cap 0 .. Longest
           /\ minDelay' <= maxDelay'
           /\ Rounded(args.min) <= minDelay'
           /\ maxDelay' <= Rounded(Greater(args.truncate, args.min))
    <3>1. CASE trial > 1
      <4>1. args \in Arguments /\ minDelay # Missing
        BY <3>1 DEF TypeOK, DelayInv
      <4> QED BY <2>before, <3>1, <4>1, NextInterval DEF Increased, NoDelays
    <3>2. CASE ~(trial > 1)
      BY <3>2 DEF Increased, TypeOK
    <3> QED BY <3>1, <3>2
  <2>1. TypeOK'
    BY <2>delays DEF TypeOK, SleepTypeOK, TrialInv
  <2>2. TrialInv' /\ StatusInv' /\ ExitTells'
    BY DEF TypeOK, SleepTypeOK, TrialInv, StatusInv, ExitTells
  <2>3. /\ DelayInv' /\ DelaysInBounds' /\ WaitNeverRefused'
        /\ SleepsTheDelay' /\ PausesBetweenTrials'
    BY <2>delays DEF TypeOK, SleepTypeOK, TrialInv, StatusInv, DelayInv, DelaysInBounds,
           WaitNeverRefused, SleepsTheDelay, PausesBetweenTrials
  <2> QED BY <2>1, <2>2, <2>3
<1>8. CASE CallRandomSleep
  <2> USE <1>0, <1>8 DEF IInv, CallRandomSleep, sleepVars, Called
  <2>1. TypeOK'
    BY DEF TypeOK, SleepTypeOK, TrialInv
  <2>2. TrialInv' /\ StatusInv' /\ ExitTells'
    BY DEF TypeOK, SleepTypeOK, TrialInv, StatusInv, ExitTells
  <2>3. /\ DelayInv' /\ DelaysInBounds' /\ WaitNeverRefused'
        /\ SleepsTheDelay' /\ PausesBetweenTrials'
    BY DEF TypeOK, SleepTypeOK, TrialInv, StatusInv, DelayInv, DelaysInBounds,
           WaitNeverRefused, SleepsTheDelay, PausesBetweenTrials
  <2> QED BY <2>1, <2>2, <2>3
<1>9. CASE CallSleep
  <2> USE <1>0, <1>9 DEF IInv, CallSleep, sleepVars, Called
  <2>1. TypeOK'
    BY DEF TypeOK, SleepTypeOK, TrialInv
  <2>2. TrialInv' /\ StatusInv' /\ ExitTells'
    BY DEF TypeOK, SleepTypeOK, TrialInv, StatusInv, ExitTells
  <2>3. /\ DelayInv' /\ DelaysInBounds' /\ WaitNeverRefused'
        /\ SleepsTheDelay' /\ PausesBetweenTrials'
    BY DEF TypeOK, SleepTypeOK, TrialInv, StatusInv, DelayInv, DelaysInBounds,
           WaitNeverRefused, SleepsTheDelay, PausesBetweenTrials
  <2> QED BY <2>1, <2>2, <2>3
<1>10. CASE Slept
  <2> USE <1>0, <1>10 DEF IInv, Slept, sleepVars, Reaped, Times
  <2>1. TypeOK'
    BY DEF TypeOK, SleepTypeOK, TrialInv
  <2>2. TrialInv' /\ StatusInv' /\ ExitTells'
    BY DEF TypeOK, SleepTypeOK, TrialInv, StatusInv, ExitTells
  <2>3. /\ DelayInv' /\ DelaysInBounds' /\ WaitNeverRefused'
        /\ SleepsTheDelay' /\ PausesBetweenTrials'
    BY DEF TypeOK, SleepTypeOK, TrialInv, StatusInv, DelayInv, DelaysInBounds,
           WaitNeverRefused, SleepsTheDelay, PausesBetweenTrials
  <2> QED BY <2>1, <2>2, <2>3
<1>11. CASE SleepFailed
  <2> USE <1>0, <1>11 DEF IInv, SleepFailed, sleepVars
  <2>1. TypeOK'
    BY DEF TypeOK, SleepTypeOK, TrialInv, StatusInv
  <2>2. TrialInv' /\ StatusInv' /\ ExitTells'
    BY DEF TypeOK, SleepTypeOK, TrialInv, StatusInv, ExitTells
  <2>3. /\ DelayInv' /\ DelaysInBounds' /\ WaitNeverRefused'
        /\ SleepsTheDelay' /\ PausesBetweenTrials'
    BY DEF TypeOK, SleepTypeOK, TrialInv, StatusInv, DelayInv, DelaysInBounds,
           WaitNeverRefused, SleepsTheDelay, PausesBetweenTrials
  <2> QED BY <2>1, <2>2, <2>3
<1>12. CASE RejectBounds /\ UNCHANGED scriptVars
  <2> USE <1>0, <1>12 DEF IInv, RejectBounds, scriptVars, Times, Invalid
  <2>1. TypeOK'
    BY DEF TypeOK, SleepTypeOK, TrialInv
  <2>2. TrialInv' /\ StatusInv' /\ ExitTells'
    BY DEF TypeOK, SleepTypeOK, TrialInv, StatusInv, ExitTells
  <2>3. /\ DelayInv' /\ DelaysInBounds' /\ WaitNeverRefused'
        /\ SleepsTheDelay' /\ PausesBetweenTrials'
    BY DEF TypeOK, SleepTypeOK, TrialInv, StatusInv, DelayInv, DelaysInBounds,
           WaitNeverRefused, SleepsTheDelay, PausesBetweenTrials
  <2> QED BY <2>1, <2>2, <2>3
<1>13. CASE ChooseDelay /\ UNCHANGED scriptVars
  <2> USE <1>0, <1>13 DEF IInv, ChooseDelay, scriptVars, Times, Invalid
  <2>1. TypeOK'
    BY DEF TypeOK, SleepTypeOK, TrialInv
  <2>2. TrialInv' /\ StatusInv' /\ ExitTells'
    BY DEF TypeOK, SleepTypeOK, TrialInv, StatusInv, ExitTells
  <2>3. /\ DelayInv' /\ DelaysInBounds' /\ WaitNeverRefused'
        /\ SleepsTheDelay' /\ PausesBetweenTrials'
    BY DEF TypeOK, SleepTypeOK, TrialInv, StatusInv, DelayInv, DelaysInBounds,
           WaitNeverRefused, SleepsTheDelay, PausesBetweenTrials
  <2> QED BY <2>1, <2>2, <2>3
<1>14. CASE WakeUp /\ UNCHANGED scriptVars
  <2> USE <1>0, <1>14 DEF IInv, WakeUp, scriptVars, Times, Invalid
  <2>1. TypeOK'
    BY DEF TypeOK, SleepTypeOK, TrialInv
  <2>2. TrialInv' /\ StatusInv' /\ ExitTells'
    BY DEF TypeOK, SleepTypeOK, TrialInv, StatusInv, ExitTells
  <2>3. /\ DelayInv' /\ DelaysInBounds' /\ WaitNeverRefused'
        /\ SleepsTheDelay' /\ PausesBetweenTrials'
    BY DEF TypeOK, SleepTypeOK, TrialInv, StatusInv, DelayInv, DelaysInBounds,
           WaitNeverRefused, SleepsTheDelay, PausesBetweenTrials
  <2> QED BY <2>1, <2>2, <2>3
<1>15. CASE InvalidTime /\ UNCHANGED scriptVars
  <2> USE <1>0, <1>15 DEF IInv, InvalidTime, scriptVars, Times, Invalid
  <2>1. TypeOK'
    BY DEF TypeOK, SleepTypeOK, TrialInv
  <2>2. TrialInv' /\ StatusInv' /\ ExitTells'
    BY DEF TypeOK, SleepTypeOK, TrialInv, StatusInv, ExitTells
  <2>3. /\ DelayInv' /\ DelaysInBounds' /\ WaitNeverRefused'
        /\ SleepsTheDelay' /\ PausesBetweenTrials'
    BY DEF TypeOK, SleepTypeOK, TrialInv, StatusInv, DelayInv, DelaysInBounds,
           WaitNeverRefused, SleepsTheDelay, PausesBetweenTrials
  <2> QED BY <2>1, <2>2, <2>3
<1>16. CASE Interrupted /\ UNCHANGED scriptVars
  <2> USE <1>0, <1>16 DEF IInv, Interrupted, scriptVars, Times, Invalid
  <2>1. TypeOK'
    BY DEF TypeOK, SleepTypeOK, TrialInv
  <2>2. TrialInv' /\ StatusInv' /\ ExitTells'
    BY DEF TypeOK, SleepTypeOK, TrialInv, StatusInv, ExitTells
  <2>3. /\ DelayInv' /\ DelaysInBounds' /\ WaitNeverRefused'
        /\ SleepsTheDelay' /\ PausesBetweenTrials'
    BY DEF TypeOK, SleepTypeOK, TrialInv, StatusInv, DelayInv, DelaysInBounds,
           WaitNeverRefused, SleepsTheDelay, PausesBetweenTrials
  <2> QED BY <2>1, <2>2, <2>3
<1>17. CASE KillSleep(143) /\ UNCHANGED scriptVars
  <2> USE <1>0, <1>17 DEF IInv, KillSleep, scriptVars, Times, Invalid
  <2>1. TypeOK'
    BY DEF TypeOK, SleepTypeOK, TrialInv
  <2>2. TrialInv' /\ StatusInv' /\ ExitTells'
    BY DEF TypeOK, SleepTypeOK, TrialInv, StatusInv, ExitTells
  <2>3. /\ DelayInv' /\ DelaysInBounds' /\ WaitNeverRefused'
        /\ SleepsTheDelay' /\ PausesBetweenTrials'
    BY DEF TypeOK, SleepTypeOK, TrialInv, StatusInv, DelayInv, DelaysInBounds,
           WaitNeverRefused, SleepsTheDelay, PausesBetweenTrials
  <2> QED BY <2>1, <2>2, <2>3
<1>18. CASE UNCHANGED vars
  BY <1>18 DEF vars, scriptVars, sleepVars, IInv, TypeOK, SleepTypeOK, TrialInv,
     StatusInv, DelayInv, SleepsTheDelay, PausesBetweenTrials, DelaysInBounds,
     WaitNeverRefused, ExitTells
<1> QED BY <1>1, <1>2, <1>3, <1>4, <1>5, <1>6, <1>7, <1>8, <1>9, <1>10, <1>11, <1>12, <1>13, <1>14, <1>15, <1>16, <1>17, <1>18
     DEF Next, Script, Sleeping, Signalled, Done

\* The inductive invariant holds in every reachable state.
LEMMA Invariance == Spec => []IInv
  BY InitInv, StepInv, PTL DEF Spec

-----------------------------------------------------------------------------

\* The variables keep their type; the command is never run more often than
\* MAX_TRIALS says.
THEOREM TypeCorrect == Spec => []TypeOK
  BY Invariance, PTL DEF IInv

\* The exit status tells what became of the trials.
THEOREM ExitStatus == Spec => []ExitTells
  BY Invariance, PTL DEF IInv

\* The waits that have been increased stay between -m and -T.
THEOREM Bounds == Spec => []DelaysInBounds
  BY Invariance, PTL DEF IInv

\* As long as awk works, random-sleep accepts the interval it is given.
THEOREM NeverRefused == Spec => []WaitNeverRefused
  BY Invariance, PTL DEF IInv

\* random-sleep sleeps exactly as long as it has chosen to.
THEOREM Sleep == Spec => []SleepsTheDelay
  BY Invariance, PTL DEF IInv

\* No trial begins before the pause announced for it is over.
THEOREM Pauses == Spec => []PausesBetweenTrials
  BY Invariance, PTL DEF IInv

-----------------------------------------------------------------------------

\* With a factor of at least one, a delay grows up to the truncation.
LEMMA BoundedGrows ==
    ASSUME args \in Arguments, args.factor >= 10, NEW d \in Nat
    PROVE  Lesser(d, args.truncate) <= Bounded(d)
<1>1. /\ args.min \in Nat /\ args.truncate \in Nat
      /\ args.factor \in Nat /\ args.increment \in Nat
  BY ArgumentRanges, DelaysAssumption
<1>2. PICK k \in Nat : args.factor = 10 + k
  <2>1. args.factor - 10 \in Nat
    BY <1>1
  <2> QED BY <1>1, <2>1
<1>3. d * args.factor = d * 10 + d * k /\ d * k \in Nat
  BY <1>2
<1> DEFINE n == (d * args.factor) \div 10
<1>4. n \in Nat /\ d <= n
  <2> DEFINE e == d * k
  <2>1. e \in Nat /\ n = (d * 10 + e) \div 10
    BY <1>3
  <2> HIDE DEF e, n
  <2> QED BY <2>1
<1>5. Bounded(d) = Greater(Lesser(n + args.increment, args.truncate), args.min)
  BY DEF Bounded
<1> HIDE DEF n
<1> QED BY <1>1, <1>4, <1>5 DEF Greater, Lesser

\* The interval after an increase does not lie below the one before it, cut
\* off at the truncation.
LEMMA IntervalGrows ==
    ASSUME args \in Arguments, args.factor >= 10,
           minDelay \in Printable \cap 0 .. Longest,
           maxDelay \in Printable \cap 0 .. Longest,
           minDelay <= maxDelay,
           minDelay' = Rounded(Lesser(Bounded(minDelay), Bounded(maxDelay))),
           maxDelay' = Rounded(Greater(Bounded(minDelay), Bounded(maxDelay)))
    PROVE  /\ minDelay' >= Lesser(minDelay, Rounded(args.truncate))
           /\ maxDelay' >= Lesser(maxDelay, Rounded(args.truncate))
<1> DEFINE a == Bounded(minDelay)
           b == Bounded(maxDelay)
           t == args.truncate
           l == Lesser(a, b)
           g == Greater(a, b)
<1>1. minDelay \in 0 .. Longest /\ maxDelay \in 0 .. Longest /\ t \in 0 .. Longest
  BY ArgumentRanges
<1>2. a \in 0 .. Longest /\ b \in 0 .. Longest
  BY <1>1, BoundedInBounds, DelaysAssumption
<1>3. Lesser(minDelay, t) <= a /\ Lesser(maxDelay, t) <= b
  BY <1>1, BoundedGrows, DelaysAssumption
<1>4. minDelay' = Rounded(l) /\ maxDelay' = Rounded(g)
  OBVIOUS
<1> HIDE DEF a, b, t
<1>5. /\ l \in 0 .. Longest /\ g \in 0 .. Longest
      /\ Lesser(minDelay, t) \in 0 .. Longest /\ Lesser(minDelay, t) <= l
      /\ Lesser(maxDelay, t) \in 0 .. Longest /\ Lesser(maxDelay, t) <= g
  BY <1>1, <1>2, <1>3, DelaysAssumption DEF Lesser, Greater
<1> HIDE DEF l, g
<1>6. /\ Rounded(Lesser(minDelay, t)) <= Rounded(l)
      /\ Rounded(Lesser(maxDelay, t)) <= Rounded(g)
  BY <1>5, RoundedMonotonic
<1>7. Rounded(minDelay) = minDelay /\ Rounded(maxDelay) = maxDelay
  BY RoundedTwice
<1>8. /\ Rounded(l) \in Nat /\ Rounded(g) \in Nat /\ Rounded(t) \in Nat
  BY <1>1, <1>5, RoundedNearest
<1>9. /\ Lesser(minDelay, t) = minDelay \/ Lesser(minDelay, t) = t
      /\ Lesser(maxDelay, t) = maxDelay \/ Lesser(maxDelay, t) = t
  BY DEF Lesser
<1>10. /\ Lesser(minDelay, Rounded(t)) <= Rounded(l)
       /\ Lesser(maxDelay, Rounded(t)) <= Rounded(g)
  BY <1>1, <1>6, <1>7, <1>8, <1>9 DEF Lesser
<1> QED BY <1>1, <1>4, <1>8, <1>10 DEF Lesser, t

\* The delays never shrink, except to the truncation.
THEOREM BackingOff == Spec => BacksOff
<1>1. ASSUME IInv, [Next]_vars, args.factor >= 10, pc = "failed",
             minDelay # Missing, minDelay' # Missing
      PROVE  /\ minDelay' >= Lesser(minDelay, Rounded(args.truncate))
             /\ maxDelay' >= Lesser(maxDelay, Rounded(args.truncate))
  <2>1. /\ args \in Arguments
        /\ minDelay \in Printable \cap 0 .. Longest
        /\ maxDelay \in Printable \cap 0 .. Longest
        /\ minDelay <= maxDelay
    BY <1>1 DEF IInv, TypeOK, DelayInv
  <2>2. CASE TryAgain /\ trial > 1
    BY <1>1, <2>1, <2>2, IntervalGrows DEF TryAgain, Increased, NoDelays
  <2>3. CASE UNCHANGED <<minDelay, maxDelay>>
    <3>1. Rounded(args.truncate) \in Nat
      BY <2>1, ArgumentRanges, RoundedNearest, DelaysAssumption
    <3> QED BY <2>1, <2>3, <3>1, DelaysAssumption DEF Lesser
  <2>4. (TryAgain /\ trial > 1) \/ UNCHANGED <<minDelay, maxDelay>>
    BY <1>1 DEF IInv, StatusInv, Next, Script, Sleeping, Signalled, Done, vars, scriptVars,
       RejectArguments, AcceptArguments, StartTrial, CommandSucceeds,
       CommandFails, GiveUp, TryAgain, Increased, CallRandomSleep, CallSleep,
       Slept, SleepFailed
  <2> QED BY <2>2, <2>3, <2>4
<1>2. IInv /\ [Next]_vars =>
        [ args.factor >= 10 /\ pc = "failed" /\ minDelay # Missing
          /\ minDelay' # Missing =>
              /\ minDelay' >= Lesser(minDelay, Rounded(args.truncate))
              /\ maxDelay' >= Lesser(maxDelay, Rounded(args.truncate)) ]_vars
  BY <1>1
<1> QED BY <1>2, Invariance, PTL DEF Spec, BacksOff

=============================================================================
