-------------------------- MODULE MCTextBlockFiles --------------------------
(***************************************************************************)
(* Two runs on one directory.  Four inodes are enough: the original, an    *)
(* older file under each of the other two names, and one more.             *)
(***************************************************************************)
EXTENDS TextBlockFiles, TLC

CONSTANTS i1, i2, i3, i4

MCOutputs == {"copy"}
MCWords == {"a", "b", "old"}
MCOriginals == {<<{"a"}, {"b"}>>, <<{"old"}>>}

Plain == [inPlace |-> FALSE, output |-> "-", append |-> FALSE,
          keep |-> FALSE, labels |-> FALSE]
Update == [Plain EXCEPT !.inPlace = TRUE]
Copy == [Plain EXCEPT !.output = "copy"]

\* An in-place update does not append: "file~" is not supposed to be there.
MCJobs == {Plain, Update, [Update EXCEPT !.keep = TRUE],
           [Update EXCEPT !.output = "copy"], Copy,
           [Copy EXCEPT !.append = TRUE, !.labels = TRUE],
           [Copy EXCEPT !.append = TRUE]}

MCUpdates == {Plain, Update}

\* "file" has two chunks, an older file has one.
MCInit ==
    /\ Init
    /\ dir["file"] = i1 /\ dir["file~"] \in {None, i2}
    /\ dir["copy"] \in {None, i3}
    /\ data = [i \in Inodes |-> IF i = i1 THEN <<{"a"}, {"b"}>> ELSE <<{"old"}>>]

\* An update and another run.
MCSeparateSpec ==
    /\ MCInit /\ \E r \in Runs : job[r] = Update
    /\ [][Next /\ ~Clash']_vars

MCSpec == MCInit /\ [][Next]_vars

=============================================================================
