--------------------------- MODULE TextBlockFiles ---------------------------
(***************************************************************************)
(* The files of text-block (src/Text-Block/text-block.c): main() from the  *)
(* input file to the insert file, the reading and writing of the lines,    *)
(* and cleanUp(), which decides what becomes of the output.                *)
(*                                                                         *)
(* Several runs of the program share a directory; each may be killed at    *)
(* any time, and every call of the file system may fail.  All runs read    *)
(* the file "file"; with --in-place a run writes to "file~" and renames    *)
(* it.  What a run makes of a text is abstract: it leaves its mark in each *)
(* chunk (module TextBlock models the text).  The output stream is         *)
(* buffered: what is written reaches the file at some later time.          *)
(***************************************************************************)
EXTENDS Naturals, Sequences

CONSTANTS
    Runs,       \* the runs of the program
    Jobs,       \* the command lines they are started with
    Outputs,    \* names for --output
    Inodes,     \* the files there may be at a time
    None,       \* no inode
    Words,      \* what the chunks of a text consist of
    Originals   \* the texts the files may hold before

Names == {"file", "file~"} \cup Outputs

\* -p, -o ("-" is the standard output), -a, -k, and whether the mode writes
\* labels (enumerate and highlight).
Job == [inPlace : BOOLEAN, output : Outputs \cup {"-"}, append : BOOLEAN,
        keep : BOOLEAN, labels : BOOLEAN]

ASSUME JobsAssumption == Jobs \subseteq Job
ASSUME NamesAssumption == Outputs \cap {"file", "file~", "-"} = {}
ASSUME NoneAssumption == None \notin Inodes
ASSUME OriginalsAssumption == Originals \subseteq Seq(SUBSET Words) \ {<<>>}

VARIABLES
    job,        \* the command line of each run
    pc,         \* where each run is
    dir,        \* the inode of each name, or None
    data,       \* the text of each inode
    mode,       \* the file permissions of each inode
    in, pos,    \* InputFile: its inode, and the number of chunks read
    out, off,   \* OutputFile: its inode, and the number of chunks written
    buf,        \* the chunks in the output buffer
    printed,    \* the chunks each run has written to its standard output
    code,       \* the exit code
    problems    \* the failed calls each run of cleanUp() has passed over: all
                \* but stat() are reported

vars == <<job, pc, dir, data, mode, in, pos, out, off, buf, printed, code,
          problems>>
files == <<dir, data, mode>>
streams == <<in, pos, out, off, buf, printed>>

-----------------------------------------------------------------------------

Edited(r, text) == [i \in DOMAIN text |-> text[i] \cup {r}]

\* The text after chunks have been written at an offset.  They overwrite what
\* is there; a gap in front of them is filled with zero bytes.
Written(text, offset, chunks) ==
    [i \in 1 .. (IF offset + Len(chunks) > Len(text)
                   THEN offset + Len(chunks) ELSE Len(text)) |->
        IF i > offset /\ i <= offset + Len(chunks)
          THEN chunks[i - offset]
          ELSE IF i <= Len(text) THEN text[i] ELSE {}]

InPlace(r) == job[r].inPlace
Target(r) == IF InPlace(r) THEN "file~" ELSE job[r].output
ToStdout(r) == Target(r) = "-"

Live(r) == pc[r] \notin {"done", "killed"}

\* An inode is free when no name and no stream refers to it.
Free(i) ==
    /\ \A n \in Names : dir[n] # i
    /\ \A r \in Runs : Live(r) => in[r] # i /\ out[r] # i

Init ==
    /\ job \in [Runs -> Jobs]
    /\ pc = [r \in Runs |-> "input"]
    /\ dir \in [Names -> Inodes \cup {None}]
    /\ dir["file"] # None
    /\ \A m, n \in Names : m # n /\ dir[m] # None => dir[m] # dir[n]
    /\ data \in [Inodes -> Originals]
    /\ mode = [i \in Inodes |-> IF i = dir["file"] THEN "original" ELSE "umask"]
    /\ in = [r \in Runs |-> None] /\ pos = [r \in Runs |-> 0]
    /\ out = [r \in Runs |-> None] /\ off = [r \in Runs |-> 0]
    /\ buf = [r \in Runs |-> <<>>] /\ printed = [r \in Runs |-> <<>>]
    /\ code = [r \in Runs |-> 0]
    /\ problems = [r \in Runs |-> {}]

At(r, label) == pc[r] = label
Goto(r, label) == pc' = [pc EXCEPT ![r] = label]

\* Mutant: the exit code is errno.
FailWithErrno(r) == Goto(r, "close") /\ code' = [code EXCEPT ![r] = 5]

\* cleanUp(1)
Fail(r) == Goto(r, "close") /\ code' = [code EXCEPT ![r] = 1]

-----------------------------------------------------------------------------
(* Opening the files.                                                      *)

OpenInput(r) ==
    /\ At(r, "input")
    /\ \/ /\ dir["file"] # None
          /\ in' = [in EXCEPT ![r] = dir["file"]]
          /\ Goto(r, "output")
          /\ UNCHANGED code
       \/ Fail(r) /\ UNCHANGED in
    /\ UNCHANGED <<job, files, pos, out, off, buf, printed, problems>>

\* In-place update and an output file exclude each other.  fopen() with "w"
\* empties an existing file, with "a" it does not; both create a missing one.
OpenOutput(r) ==
    /\ At(r, "output")
    /\ IF InPlace(r) /\ job[r].output # "-"
         THEN Fail(r) /\ UNCHANGED <<files, out>>
       ELSE IF ToStdout(r)
         THEN Goto(r, "insert") /\ UNCHANGED <<code, files, out>>
       ELSE
         \/ Fail(r) /\ UNCHANGED <<files, out>>
         \/ /\ dir[Target(r)] # None
            /\ out' = [out EXCEPT ![r] = dir[Target(r)]]
            /\ data' = IF job[r].append THEN data
                       ELSE [data EXCEPT ![dir[Target(r)]] = <<>>]
            /\ Goto(r, "insert")
            /\ UNCHANGED <<dir, mode, code>>
         \/ /\ dir[Target(r)] = None
            /\ \E i \in Inodes :
                  /\ Free(i)
                  /\ out' = [out EXCEPT ![r] = i]
                  /\ dir' = [dir EXCEPT ![Target(r)] = i]
                  /\ data' = [data EXCEPT ![i] = <<>>]
                  /\ mode' = [mode EXCEPT ![i] = "umask"]
            /\ Goto(r, "insert")
            /\ UNCHANGED code
    /\ UNCHANGED <<job, in, pos, off, buf, printed, problems>>

OpenInsert(r) ==
    /\ At(r, "insert")
    /\ \/ Goto(r, "copy") /\ UNCHANGED code
       \/ Fail(r)
    /\ UNCHANGED <<job, files, streams, problems>>

-----------------------------------------------------------------------------
(* The loop over the lines.                                                *)

CopyChunk(r) ==
    /\ At(r, "copy")
    /\ pos[r] < Len(data[in[r]])
    /\ pos' = [pos EXCEPT ![r] = @ + 1]
    /\ buf' = [buf EXCEPT ![r] = Append(@, data[in[r]][pos[r] + 1] \cup {r})]
    /\ UNCHANGED <<job, pc, files, in, out, off, printed, code, problems>>

\* The buffered chunks reach the standard output, the end of the file, or the
\* place up to which this run has written the file.
Flush(r) ==
    /\ buf' = [buf EXCEPT ![r] = <<>>]
    /\ IF ToStdout(r)
         THEN /\ printed' = [printed EXCEPT ![r] = @ \o buf[r]]
              /\ UNCHANGED <<data, off>>
         ELSE LET at == IF job[r].append THEN Len(data[out[r]]) ELSE off[r]
              IN  /\ data' = [data EXCEPT ![out[r]] = Written(@, at, buf[r])]
                  /\ off' = [off EXCEPT ![r] = at + Len(buf[r])]
                  /\ UNCHANGED printed

Drop(r) == buf' = [buf EXCEPT ![r] = <<>>] /\ UNCHANGED <<data, off, printed>>

\* The buffer is full, and fwrite(), fputs() or fprintf() write it out.
WriteOut(r) ==
    /\ At(r, "copy") /\ buf[r] # <<>>
    /\ Flush(r)
    /\ UNCHANGED <<job, pc, dir, mode, in, pos, out, code, problems>>

\* writeToOutputFile() checks the result of fwrite().
WriteError(r) ==
    /\ At(r, "copy") /\ buf[r] # <<>>
    /\ Drop(r)
    /\ Fail(r)
    /\ UNCHANGED <<job, dir, mode, in, pos, out, problems>>

\* Nobody checks the results of the fputs() and fprintf() of the labels.
LabelError(r) ==
    /\ At(r, "copy") /\ buf[r] # <<>>
    /\ job[r].labels
    /\ Drop(r)
    /\ UNCHANGED <<job, pc, dir, mode, in, pos, out, code, problems>>

ReadError(r) ==
    /\ At(r, "copy")
    /\ Fail(r)
    /\ UNCHANGED <<job, files, streams, problems>>

\* The number of actions may be outside of its limits.
EndOfInput(r) ==
    /\ At(r, "copy")
    /\ pos[r] >= Len(data[in[r]])
    /\ \/ Goto(r, "close") /\ UNCHANGED code
       \/ Fail(r)
    /\ UNCHANGED <<job, files, streams, problems>>

-----------------------------------------------------------------------------
(* cleanUp()                                                               *)

\* Mutants: a broken temporary file replaces the input file; a broken file is
\* never removed; the permissions are not restored.
AfterCloseIgnoresError(r, exitCode) ==
    IF InPlace(r) THEN "permissions" ELSE "exit"

AfterCloseKeepsBroken(r, exitCode) ==
    IF exitCode = 0 /\ InPlace(r) THEN "permissions" ELSE "exit"

AfterCloseSkipsPermissions(r, exitCode) ==
    IF exitCode # 0
      THEN IF job[r].keep THEN "exit" ELSE "remove"
      ELSE IF InPlace(r) THEN "rename" ELSE "exit"

\* What becomes of the output file depends on the exit code.
AfterClose(r, exitCode) ==
    IF exitCode # 0
      THEN IF job[r].keep THEN "exit" ELSE "remove"
      ELSE IF InPlace(r) THEN "permissions" ELSE "exit"

\* Mutant: an error of fclose() does not change the exit code.
CloseUnchecked(r) ==
    /\ At(r, "close")
    /\ IF out[r] = None
         THEN Goto(r, "exit") /\ UNCHANGED <<data, off, buf, printed>>
         ELSE Goto(r, AfterClose(r, code[r])) /\ (Flush(r) \/ Drop(r))
    /\ UNCHANGED <<job, dir, mode, in, pos, out, code, problems>>

\* Mutant: cleanUp() does not look at OpenOutputFile.
CloseUnopened(r) ==
    /\ At(r, "close")
    /\ Goto(r, IF ToStdout(r) THEN "exit" ELSE AfterClose(r, code[r]))
    /\ IF out[r] = None
         THEN UNCHANGED <<data, off, buf, printed>>
         ELSE Flush(r)
    /\ UNCHANGED <<job, dir, mode, in, pos, out, code, problems>>

\* fclose() of the output file, if one has been opened.
Close(r) ==
    /\ At(r, "close")
    /\ IF out[r] = None
         THEN Goto(r, "exit") /\ UNCHANGED <<data, off, buf, printed, code>>
         ELSE \/ /\ Flush(r)
                 /\ Goto(r, AfterClose(r, code[r]))
                 /\ UNCHANGED code
              \/ /\ Drop(r)
                 /\ code' = [code EXCEPT ![r] = 1]
                 /\ Goto(r, AfterClose(r, 1))
    /\ UNCHANGED <<job, dir, mode, in, pos, out, problems>>

Pass(r, problem) == problems' = [problems EXCEPT ![r] = @ \cup {problem}]

\* unlink() of the broken output file
Remove(r) ==
    /\ At(r, "remove")
    /\ Goto(r, "exit")
    /\ \/ /\ dir[Target(r)] # None
          /\ dir' = [dir EXCEPT ![Target(r)] = None]
          /\ UNCHANGED problems
       \/ Pass(r, "unlink") /\ UNCHANGED dir
    /\ UNCHANGED <<job, data, mode, streams, code>>

\* stat() of the input file and chmod() of the temporary file.  Nothing is
\* said of a stat() that fails, and the temporary file is renamed all the same.
RestorePermissions(r) ==
    /\ At(r, "permissions")
    /\ Goto(r, "rename")
    /\ \/ /\ dir["file"] # None /\ dir["file~"] # None
          /\ mode' = [mode EXCEPT ![dir["file~"]] = mode[dir["file"]]]
          /\ UNCHANGED problems
       \/ Pass(r, "stat") /\ UNCHANGED mode
       \/ dir["file"] # None /\ Pass(r, "chmod") /\ UNCHANGED mode
    /\ UNCHANGED <<job, dir, data, streams, code>>

\* rename(); when it fails the exit code stays 0 and the temporary file stays.
Rename(r) ==
    /\ At(r, "rename")
    /\ Goto(r, "exit")
    /\ \/ /\ dir["file~"] # None
          /\ dir' = [dir EXCEPT !["file"] = dir["file~"], !["file~"] = None]
          /\ UNCHANGED problems
       \/ Pass(r, "rename") /\ UNCHANGED dir
    /\ UNCHANGED <<job, data, mode, streams, code>>

\* exit() flushes the standard output; nobody looks at the result.
Exit(r) ==
    /\ At(r, "exit")
    /\ Goto(r, "done")
    /\ IF ToStdout(r) THEN Flush(r) \/ Drop(r)
                      ELSE UNCHANGED <<data, off, buf, printed>>
    /\ UNCHANGED <<job, dir, mode, in, pos, out, code, problems>>

\* The program is killed, or the machine goes down.
Kill(r) ==
    /\ Live(r)
    /\ Goto(r, "killed")
    /\ UNCHANGED <<job, files, streams, code, problems>>

-----------------------------------------------------------------------------

RunNext(r) ==
    \/ OpenInput(r) \/ OpenOutput(r) \/ OpenInsert(r)
    \/ CopyChunk(r) \/ WriteOut(r) \/ WriteError(r) \/ LabelError(r)
    \/ ReadError(r) \/ EndOfInput(r)
    \/ Close(r) \/ Remove(r) \/ RestorePermissions(r) \/ Rename(r) \/ Exit(r)
    \/ Kill(r)

Next == \E r \in Runs : RunNext(r)

Spec == Init /\ [][Next]_vars

\* Two runs have the same file open, and one of them writes it.  The program
\* locks nothing: that this does not happen is up to its users.
Clash ==
    \E q, r \in Runs :
        /\ Live(q) /\ Live(r) /\ out[r] # None
        /\ in[q] = out[r] \/ (q # r /\ out[q] = out[r])

SeparateSpec == Init /\ [][Next /\ ~Clash']_vars


-----------------------------------------------------------------------------
(* Properties.                                                             *)

PCs == {"input", "output", "insert", "copy", "close", "remove",
        "permissions", "rename", "exit", "done", "killed"}

Texts == Seq(SUBSET (Words \cup Runs))

\* Types of the runs, their streams and the directory.
TypeOK ==
    /\ job \in [Runs -> Jobs]
    /\ pc \in [Runs -> PCs]
    /\ dir \in [Names -> Inodes \cup {None}]
    /\ data \in [Inodes -> Texts]
    /\ mode \in [Inodes -> {"original", "umask"}]
    /\ in \in [Runs -> Inodes \cup {None}] /\ pos \in [Runs -> Nat]
    /\ out \in [Runs -> Inodes \cup {None}] /\ off \in [Runs -> Nat]
    /\ buf \in [Runs -> Texts] /\ printed \in [Runs -> Texts]
    /\ code \in [Runs -> {0, 1}]
    /\ problems \in [Runs -> SUBSET {"unlink", "stat", "chmod", "rename"}]

\* A run has replaced its input file.
Replaced(r) ==
    /\ InPlace(r) /\ pc[r] \in {"exit", "done"}
    /\ code[r] = 0 /\ "rename" \notin problems[r]

Atomic == INSTANCE AtomicUpdate WITH
    file    <- data[dir["file"]],
    seen    <- [r \in Runs |-> IF Live(r) /\ in[r] # None
                                 THEN data[in[r]] ELSE <<>>],
    outcome <- [r \in Runs |->
                   IF pc[r] = "killed" THEN "killed"
                   ELSE IF Replaced(r)
                     THEN IF Live(r) THEN "replaced" ELSE "success"
                     ELSE IF Live(r) THEN "running" ELSE "unchanged"]

\* In-place updates are atomic: through every write error, failed call and
\* kill, "file" holds a whole text, and a run that reports an error has not
\* replaced it (text-block.c:142-185, 772-798).
AtomicSpec == Atomic!Spec

\* What a run takes for finished is finished: when cleanUp() has closed the
\* output file without error, the file ends with the whole edited input, and
\* holds nothing else unless it was opened to append (text-block.c:234-244,
\* 144-149).  The unchecked writes of labels are left out.
Finished(r) ==
    /\ pc[r] \in {"permissions", "rename", "exit"}
    /\ out[r] # None /\ code[r] = 0 /\ ~job[r].labels

Delivered ==
    \A r \in Runs : Finished(r) =>
        LET text   == data[out[r]]
            edited == Edited(r, data[in[r]])
        IN  /\ Len(text) >= Len(edited)
            /\ ~job[r].append => Len(text) = Len(edited)
            /\ SubSeq(text, Len(text) - Len(edited) + 1, Len(text)) = edited

\* A run removes or replaces no file but the one it writes and, in place, the
\* input file by the one it wrote; a run that failed before it opened its
\* output leaves an older file of that name alone (text-block.c:142, 151-161).
OnlyOwnFiles ==
    [][\A n \in Names : dir[n] # None /\ dir'[n] # dir[n] =>
          \E r \in Runs :
              /\ Live(r) /\ out[r] # None
              /\ \/ n = Target(r) /\ dir[n] = out[r]
                 \/ n = "file" /\ InPlace(r) /\ dir'[n] = out[r]]_vars

\* No broken output and no temporary file is left over without a word, unless
\* the user wants to keep it (text-block.c:151-183).
NoLeftovers ==
    \A r \in Runs :
        /\ pc[r] = "exit" /\ out[r] # None
        /\ code[r] # 0 \/ InPlace(r)
        /\ dir[Target(r)] = out[r]
        => \/ code[r] # 0 /\ job[r].keep
           \/ problems[r] \cap {"unlink", "rename"} # {}

\* The updated file has the permissions of the original, wherever updates fail
\* or are killed, but for two cases: chmod() has failed, of which a warning has
\* told, or stat() has, of which nothing is said (text-block.c:163-181).
PermissionsKept ==
    \/ mode[dir["file"]] = "original"
    \/ \E r \in Runs : problems[r] \cap {"stat", "chmod"} # {}

\* "The tool exits with 0 on success, and >0 in case of an error"
\* (text-block.1, EXIT STATUS): after exit code 0 the output is there.  The
\* code contradicts it: the standard output is flushed by exit(), where nobody
\* sees the error, and an error of rename() does not change the exit code.
StatusTellsOutput ==
    \A r \in Runs : pc[r] = "done" /\ code[r] = 0 =>
        /\ ToStdout(r) => printed[r] = Edited(r, data[in[r]])
        /\ InPlace(r) => Replaced(r)

=============================================================================
