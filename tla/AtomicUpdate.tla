---------------------------- MODULE AtomicUpdate ----------------------------
(***************************************************************************)
(* What an in-place update of text-block promises about its input file:    *)
(* "The output is written to a temporary file with extension ~ first,      *)
(* which replaces the input file on success" (text-block.1, --in-place).   *)
(*                                                                         *)
(* Whoever opens the file at whatever time finds one whole text: an        *)
(* original, or what a run made of the text it had looked at.  A run       *)
(* replaces the file at most once, and has not touched it when it ends     *)
(* unchanged.  Runs may overlap: then the last one to replace wins, and    *)
(* what the others made of the text is lost.                               *)
(***************************************************************************)
EXTENDS Sequences

CONSTANTS
    Runs,       \* the runs of the program
    Originals   \* the texts the file may have before

VARIABLES
    file,       \* the text in the file
    seen,       \* the text each run has looked at, else NoText
    outcome     \* "running", "replaced", "success", "unchanged" or "killed"

vars == <<file, seen, outcome>>

\* A text is a sequence of chunks, a chunk a set: what it consisted of
\* originally, and the runs that edited it.
Edited(run, text) == [i \in DOMAIN text |-> text[i] \cup {run}]

NoText == <<>>

Init ==
    /\ file \in Originals
    /\ seen = [r \in Runs |-> NoText]
    /\ outcome = [r \in Runs |-> "running"]

Look(r) ==
    /\ outcome[r] = "running" /\ seen[r] = NoText
    /\ seen' = [seen EXCEPT ![r] = file]
    /\ UNCHANGED <<file, outcome>>

Replace(r) ==
    /\ outcome[r] = "running" /\ seen[r] # NoText
    /\ file' = Edited(r, seen[r])
    /\ outcome' = [outcome EXCEPT ![r] = "replaced"]
    /\ UNCHANGED seen

Finish(r) ==
    /\ \/ /\ outcome[r] = "replaced"
          /\ outcome' = [outcome EXCEPT ![r] = "success"]
       \/ /\ outcome[r] = "running"
          /\ outcome' = [outcome EXCEPT ![r] = "unchanged"]
    /\ seen' = [seen EXCEPT ![r] = NoText]
    /\ UNCHANGED file

Kill(r) ==
    /\ outcome[r] \in {"running", "replaced"}
    /\ outcome' = [outcome EXCEPT ![r] = "killed"]
    /\ seen' = [seen EXCEPT ![r] = NoText]
    /\ UNCHANGED file

Next == \E r \in Runs : Look(r) \/ Replace(r) \/ Finish(r) \/ Kill(r)

Spec == Init /\ [][Next]_vars

=============================================================================
