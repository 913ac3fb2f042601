------------------------------ MODULE MCTryHard ------------------------------
(***************************************************************************)
(* A small instance of TryHard: delays up to 6 units, of which 5 cannot be *)
(* printed, and a time_t that holds no more than 4 units.                  *)
(***************************************************************************)
EXTENDS TryHard, TLC

MCTrials == {0, 1, 4}
MCDelays == {0, 2, 5}
MCIncrements == {0, 1}
MCFactors == {5, 20}
MCPrintable == 0 .. 4 \cup {6}
MCStatuses == {0, 1, 2}

\* Four trials, with random-sleep between them.
MCRandomSpec == Init /\ args.trials = 4 /\ ~args.deterministic /\ [][Next]_vars
=============================================================================
