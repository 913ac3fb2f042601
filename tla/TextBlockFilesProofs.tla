------------------------- MODULE TextBlockFilesProofs -------------------------
(***************************************************************************)
(* Proofs about TextBlockFiles, for any number of runs, files, command     *)
(* lines and texts: what a run leaves behind, and that in-place updates    *)
(* are atomic (AtomicUpdate), step by step.                                *)
(***************************************************************************)
EXTENDS TextBlockFiles, SequenceTheorems, TLAPS

-----------------------------------------------------------------------------
(* The inductive invariants.                                                *)

\* What a run has opened and found out tells where it is.
StreamInv(r) ==
    /\ pc[r] \in {"input", "output", "insert"} =>
         buf[r] = <<>> /\ pos[r] = 0 /\ off[r] = 0
    /\ pc[r] \in {"input", "output", "insert", "copy", "permissions", "rename"} =>
         code[r] = 0
    /\ pc[r] = "input" => in[r] = None
    /\ pc[r] \in {"output", "insert", "copy"} => in[r] # None
    /\ pc[r] \in {"input", "output"} => out[r] = None
    /\ pc[r] \in {"insert", "copy"} => ToStdout(r) \/ out[r] # None
    /\ pc[r] \in {"remove", "permissions", "rename"} => out[r] # None
    /\ pc[r] = "remove" => code[r] # 0
    /\ pc[r] \in {"permissions", "rename"} => InPlace(r)
    /\ pc[r] \in {"close", "exit", "done"} /\ InPlace(r) /\ out[r] = None => code[r] # 0
    /\ out[r] # None => in[r] # None /\ ~ToStdout(r)
    /\ "rename" \in problems[r] => pc[r] \in {"exit", "done", "killed"}

\* There is always a file, and no two names are one file's.
DirInv ==
    /\ dir["file"] # None
    /\ \A m, n \in Names : m # n /\ dir[m] # None => dir[m] # dir[n]

\* A broken output file is left only to those who asked for it or were told.
LeftInv(r) ==
    /\ pc[r] = "exit" /\ out[r] # None
    /\ code[r] # 0 \/ InPlace(r)
    /\ dir[Target(r)] = out[r]
    => \/ code[r] # 0 /\ job[r].keep
       \/ problems[r] \cap {"unlink", "rename"} # {}

\* Holds for whatever the runs do to each other.
IInv == TypeOK /\ DirInv /\ \A r \in Runs : StreamInv(r) /\ LeftInv(r)

\* Until it is removed or renamed, the file that a run writes has its name.
TargetInv(r) ==
    Live(r) /\ pc[r] # "exit" /\ out[r] # None => dir[Target(r)] = out[r]

\* How many chunks have left the buffer.
Out(r) == pos[r] - Len(buf[r])

\* While a run copies, its output file and its buffer hold what it has read.
CopyInv(r) ==
    /\ pc[r] \in {"insert", "copy", "close"}
    /\ out[r] # None /\ code[r] = 0 /\ ~job[r].labels
    =>
    /\ Out(r) \in 0 .. Len(data[out[r]]) /\ pos[r] <= Len(data[in[r]])
    /\ ~job[r].append => Out(r) = Len(data[out[r]]) /\ off[r] = Out(r)
    /\ \A i \in 1 .. Out(r) :
         data[out[r]][Len(data[out[r]]) - Out(r) + i] = data[in[r]][i] \cup {r}
    /\ \A i \in 1 .. Len(buf[r]) : buf[r][i] = data[in[r]][Out(r) + i] \cup {r}
    /\ pc[r] = "close" => pos[r] = Len(data[in[r]])

\* What is finished ends with the edited input, chunk by chunk.
FinishInv(r) ==
    Finished(r) =>
        /\ Len(data[in[r]]) <= Len(data[out[r]])
        /\ ~job[r].append => Len(data[in[r]]) = Len(data[out[r]])
        /\ \A i \in DOMAIN data[in[r]] :
             data[out[r]][Len(data[out[r]]) - Len(data[in[r]]) + i] =
                 data[in[r]][i] \cup {r}

\* The permissions go from one file to the next.
ModeInv ==
    \/ \E r \in Runs : problems[r] \cap {"stat", "chmod"} # {}
    \/ /\ mode[dir["file"]] = "original"
       /\ \A r \in Runs : pc[r] = "rename" => mode[out[r]] = "original"

\* In-place updates that neither append nor write labels.
PlainUpdates == \A j \in Jobs : j.inPlace => ~j.append /\ ~j.labels

\* No text that is read is empty.
TextInv ==
    PlainUpdates =>
        /\ data[dir["file"]] # <<>>
        /\ \A r \in Runs : Live(r) /\ in[r] # None => data[in[r]] # <<>>

\* Holds as long as no run writes what another one has open.
JInv ==
    /\ ~Clash /\ ModeInv /\ TextInv
    /\ \A r \in Runs : TargetInv(r) /\ CopyInv(r) /\ FinishInv(r)

-----------------------------------------------------------------------------
(* Texts and single steps.                                                  *)

\* A text stays one when chunks are written into it; written to its end, they
\* are appended.
LEMMA WrittenText ==
    ASSUME NEW text \in Texts, NEW offset \in Nat, NEW chunks \in Texts
    PROVE  /\ Written(text, offset, chunks) \in Texts
           /\ offset = Len(text) =>
                /\ Len(Written(text, offset, chunks)) = Len(text) + Len(chunks)
                /\ \A i \in 1 .. Len(text) : Written(text, offset, chunks)[i] = text[i]
                /\ \A i \in 1 .. Len(chunks) :
                     Written(text, offset, chunks)[Len(text) + i] = chunks[i]
<1> DEFINE Chunk == SUBSET (Words \cup Runs)
           n == IF offset + Len(chunks) > Len(text)
                  THEN offset + Len(chunks) ELSE Len(text)
           new(i) == IF i > offset /\ i <= offset + Len(chunks)
                       THEN chunks[i - offset]
                       ELSE IF i <= Len(text) THEN text[i] ELSE {}
<1>1. Len(text) \in Nat /\ Len(chunks) \in Nat /\ n \in Nat
  BY DEF Texts
<1>2. \A i \in 1 .. n : new(i) \in Chunk
  <2> TAKE i \in 1 .. n
  <2>1. CASE i > offset /\ i <= offset + Len(chunks)
    <3>1. i - offset \in 1 .. Len(chunks)
      BY <1>1, <2>1
    <3>2. \A j \in 1 .. Len(chunks) : chunks[j] \in Chunk
      BY DEF Texts
    <3> QED BY <2>1, <3>1, <3>2
  <2>2. CASE ~(i > offset /\ i <= offset + Len(chunks)) /\ i <= Len(text)
    <3>1. \A j \in 1 .. Len(text) : text[j] \in Chunk
      BY DEF Texts
    <3> QED BY <1>1, <2>2, <3>1
  <2>3. CASE ~(i > offset /\ i <= offset + Len(chunks)) /\ ~(i <= Len(text))
    BY <2>3
  <2> QED BY <2>1, <2>2, <2>3
<1>3. Written(text, offset, chunks) = [i \in 1 .. n |-> new(i)]
  BY DEF Written
<1>4. [i \in 1 .. n |-> new(i)] \in Seq(Chunk) /\ Len([i \in 1 .. n |-> new(i)]) = n
  <2> HIDE DEF n, new, Chunk
  <2> QED BY <1>1, <1>2
<1>5. ASSUME offset = Len(text)
      PROVE  /\ n = Len(text) + Len(chunks)
             /\ \A i \in 1 .. Len(text) : new(i) = text[i]
             /\ \A i \in 1 .. Len(chunks) : new(Len(text) + i) = chunks[i]
  BY <1>1, <1>5
<1> HIDE DEF n, new
<1> QED BY <1>1, <1>3, <1>4, <1>5 DEF Texts

\* A step is of one run, and the others' streams stay.
LEMMA Others ==
    ASSUME TypeOK, NEW r \in Runs, RunNext(r), NEW q \in Runs, q # r
    PROVE  /\ pc'[q] = pc[q] /\ in'[q] = in[q] /\ pos'[q] = pos[q]
           /\ out'[q] = out[q] /\ off'[q] = off[q] /\ buf'[q] = buf[q]
           /\ code'[q] = code[q] /\ problems'[q] = problems[q]
<1> USE DEF RunNext, OpenInput, OpenOutput, OpenInsert, CopyChunk, WriteOut, WriteError,
        LabelError, ReadError, EndOfInput, Close, Remove, RestorePermissions, Rename,
        Exit, Kill, Flush, Drop, Fail, Goto, Pass, streams, files
<1>1. pc'[q] = pc[q]
  BY DEF TypeOK
<1>2. in'[q] = in[q] /\ pos'[q] = pos[q]
  BY DEF TypeOK
<1>3. out'[q] = out[q]
  BY DEF TypeOK
<1>4. off'[q] = off[q] /\ buf'[q] = buf[q]
  BY DEF TypeOK
<1>5. code'[q] = code[q] /\ problems'[q] = problems[q]
  BY DEF TypeOK
<1> QED BY <1>1, <1>2, <1>3, <1>4, <1>5

\* The calls that change a variable.
LEMMA Effects ==
    ASSUME NEW r \in Runs, RunNext(r)
    PROVE  /\ job' = job
           /\ dir' = dir \/ OpenOutput(r) \/ Remove(r) \/ Rename(r)
           /\ data' = data \/ OpenOutput(r) \/ WriteOut(r) \/ Close(r) \/ Exit(r)
           /\ mode' = mode \/ OpenOutput(r) \/ RestorePermissions(r)
           /\ in' = in \/ OpenInput(r)
           /\ out' = out \/ OpenOutput(r)
           /\ pos' = pos \/ CopyChunk(r)
           /\ problems' = problems \/ Remove(r) \/ RestorePermissions(r) \/ Rename(r)
           /\ Live(r)
<1> USE DEF RunNext, OpenInput, OpenOutput, OpenInsert, CopyChunk, WriteOut, WriteError,
        LabelError, ReadError, EndOfInput, Close, Remove, RestorePermissions, Rename,
        Exit, Kill, Flush, Drop, Fail, Goto, Pass, streams, files
<1>1. job' = job
  OBVIOUS
<1>2. dir' = dir \/ OpenOutput(r) \/ Remove(r) \/ Rename(r)
  OBVIOUS
<1>3. data' = data \/ OpenOutput(r) \/ WriteOut(r) \/ Close(r) \/ Exit(r)
  OBVIOUS
<1>4. mode' = mode \/ OpenOutput(r) \/ RestorePermissions(r)
  OBVIOUS
<1>5. in' = in \/ OpenInput(r)
  OBVIOUS
<1>6. out' = out \/ OpenOutput(r)
  OBVIOUS
<1>7. pos' = pos \/ CopyChunk(r)
  OBVIOUS
<1>8. problems' = problems \/ Remove(r) \/ RestorePermissions(r) \/ Rename(r)
  OBVIOUS
<1>9. Live(r)
  BY DEF Live, At
<1> QED BY <1>1, <1>2, <1>3, <1>4, <1>5, <1>6, <1>7, <1>8, <1>9

\* What opening the output file does: nothing; or it opens a file there is,
\* and empties it unless it appends; or it makes one that nobody knows.
LEMMA Opened ==
    ASSUME TypeOK, NEW r \in Runs, OpenOutput(r)
    PROVE  \/ UNCHANGED <<files, out>>
           \/ /\ ~ToStdout(r) /\ ~(InPlace(r) /\ job[r].output # "-")
              /\ pc'[r] = "insert" /\ code' = code
              /\ out' = [out EXCEPT ![r] = dir'[Target(r)]]
              /\ dir'[Target(r)] \in Inodes
              /\ \/ /\ dir' = dir /\ mode' = mode
                    /\ data' = data \/ data' = [data EXCEPT ![dir'[Target(r)]] = <<>>]
                 \/ \E i \in Inodes :
                      /\ Free(i) /\ dir[Target(r)] = None
                      /\ dir' = [dir EXCEPT ![Target(r)] = i]
                      /\ data' = [data EXCEPT ![i] = <<>>]
                      /\ mode' = [mode EXCEPT ![i] = "umask"]
              /\ ~job[r].append => data'[dir'[Target(r)]] = <<>>
<1>1. job[r] \in Job
  BY JobsAssumption DEF TypeOK
<1>2. Target(r) \in Names \cup {"-"}
  BY <1>1 DEF Target, Names, Job
<1>3. CASE \/ InPlace(r) /\ job[r].output # "-"
           \/ ToStdout(r)
           \/ Fail(r) /\ UNCHANGED <<files, out>>
  BY <1>3 DEF OpenOutput
<1>4. CASE /\ ~(InPlace(r) /\ job[r].output # "-") /\ ~ToStdout(r)
           /\ ~(Fail(r) /\ UNCHANGED <<files, out>>)
  <2>1. Target(r) \in Names /\ Goto(r, "insert") /\ code' = code
    BY <1>2, <1>4 DEF ToStdout, OpenOutput
  <2>2. pc'[r] = "insert"
    BY <2>1 DEF Goto, TypeOK
  <2>3. CASE dir[Target(r)] # None
    <3>1. /\ dir' = dir /\ mode' = mode /\ dir[Target(r)] \in Inodes
          /\ out' = [out EXCEPT ![r] = dir[Target(r)]]
          /\ data' = IF job[r].append THEN data
                     ELSE [data EXCEPT ![dir[Target(r)]] = <<>>]
      BY <1>4, <2>1, <2>3 DEF OpenOutput, TypeOK
    <3> QED BY <1>4, <2>1, <2>2, <3>1 DEF TypeOK
  <2>4. CASE dir[Target(r)] = None
    <3>1. PICK i \in Inodes :
            /\ Free(i)
            /\ out' = [out EXCEPT ![r] = i]
            /\ dir' = [dir EXCEPT ![Target(r)] = i]
            /\ data' = [data EXCEPT ![i] = <<>>]
            /\ mode' = [mode EXCEPT ![i] = "umask"]
      BY <1>4, <2>4 DEF OpenOutput
    <3>2. dir'[Target(r)] = i
      BY <2>1, <3>1 DEF TypeOK
    <3> QED BY <1>4, <2>1, <2>2, <2>4, <3>1, <3>2 DEF TypeOK
  <2> QED BY <2>3, <2>4
<1> QED BY <1>3, <1>4

\* An output file is never called like the input file.
LEMMA TargetName ==
    ASSUME TypeOK, NEW r \in Runs, ~ToStdout(r)
    PROVE  Target(r) \in Names /\ Target(r) # "file" /\ (InPlace(r) => Target(r) = "file~")
<1>1. job[r] \in Job
  BY JobsAssumption DEF TypeOK
<1> QED BY <1>1, NamesAssumption DEF Target, Names, Job, ToStdout

\* Writing the buffer keeps the types.
LEMMA FlushTypes ==
    ASSUME TypeOK, NEW r \in Runs, Flush(r), ToStdout(r) \/ out[r] # None
    PROVE  /\ data' \in [Inodes -> Texts] /\ off' \in [Runs -> Nat]
           /\ buf' \in [Runs -> Texts] /\ printed' \in [Runs -> Texts]
<1>1. <<>> \in Texts /\ buf[r] \in Texts /\ printed[r] \o buf[r] \in Texts
  BY DEF TypeOK, Texts
<1>2. buf' \in [Runs -> Texts]
  BY <1>1 DEF Flush, TypeOK
<1>3. CASE ToStdout(r)
  BY <1>1, <1>2, <1>3 DEF Flush, TypeOK
<1>4. CASE ~ToStdout(r)
  <2> DEFINE at == IF job[r].append THEN Len(data[out[r]]) ELSE off[r]
  <2>1. out[r] \in Inodes /\ data[out[r]] \in Texts
    BY <1>4 DEF TypeOK
  <2>2. at \in Nat /\ at + Len(buf[r]) \in Nat
    BY <1>1, <2>1 DEF Texts, TypeOK
  <2>3. Written(data[out[r]], at, buf[r]) \in Texts
    <3> HIDE DEF at
    <3> QED BY <1>1, <2>1, <2>2, WrittenText
  <2>4. /\ data' = [data EXCEPT ![out[r]] = Written(data[out[r]], at, buf[r])]
        /\ off' = [off EXCEPT ![r] = at + Len(buf[r])]
        /\ printed' = printed
    BY <1>4 DEF Flush
  <2> HIDE DEF at
  <2> QED BY <1>2, <2>1, <2>2, <2>3, <2>4 DEF TypeOK
<1> QED BY <1>3, <1>4

\* Dropping it does as well.
LEMMA DropTypes ==
    ASSUME TypeOK, NEW r \in Runs, Drop(r)
    PROVE  buf' \in [Runs -> Texts]
<1>1. <<>> \in Texts
  BY DEF Texts
<1> QED BY <1>1 DEF Drop, TypeOK

-----------------------------------------------------------------------------
(* What holds whatever the runs do to each other.                           *)

\* Every call keeps the types.
LEMMA TypeStep ==
    ASSUME IInv, NEW r \in Runs, RunNext(r)
    PROVE  TypeOK'
<1> USE DEF At, Goto, Fail, PCs, streams, files
<1>0. TypeOK /\ StreamInv(r)
  BY DEF IInv
<1>1. CASE OpenInput(r)
  <2>1. dir["file"] \in Inodes \cup {None}
    BY <1>0 DEF TypeOK, Names
  <2> QED BY <1>0, <1>1, <2>1 DEF OpenInput, TypeOK
<1>2. CASE OpenOutput(r)
  <2>1. UNCHANGED <<job, in, pos, off, buf, printed, problems>>
    BY <1>2 DEF OpenOutput
  <2>2. pc' \in [Runs -> PCs] /\ code' \in [Runs -> {0, 1}]
    BY <1>0, <1>2 DEF OpenOutput, TypeOK
  <2>3. <<>> \in Texts
    BY DEF Texts
  <2>4. /\ dir' \in [Names -> Inodes \cup {None}] /\ data' \in [Inodes -> Texts]
        /\ mode' \in [Inodes -> {"original", "umask"}]
        /\ out' \in [Runs -> Inodes \cup {None}]
    <3>1. CASE UNCHANGED <<files, out>>
      BY <1>0, <3>1 DEF TypeOK
    <3>2. ASSUME NEW i \in Inodes, out' = [out EXCEPT ![r] = i], dir' = dir, mode' = mode,
                 data' = data \/ data' = [data EXCEPT ![i] = <<>>]
          PROVE  /\ dir' \in [Names -> Inodes \cup {None}] /\ data' \in [Inodes -> Texts]
                 /\ mode' \in [Inodes -> {"original", "umask"}]
                 /\ out' \in [Runs -> Inodes \cup {None}]
      BY <1>0, <2>3, <3>2 DEF TypeOK
    <3>3. ASSUME NEW i \in Inodes, NEW j \in Inodes, out' = [out EXCEPT ![r] = j],
                 dir' = [dir EXCEPT ![Target(r)] = i],
                 data' = [data EXCEPT ![i] = <<>>], mode' = [mode EXCEPT ![i] = "umask"]
          PROVE  /\ dir' \in [Names -> Inodes \cup {None}] /\ data' \in [Inodes -> Texts]
                 /\ mode' \in [Inodes -> {"original", "umask"}]
                 /\ out' \in [Runs -> Inodes \cup {None}]
      BY <1>0, <2>3, <3>3 DEF TypeOK
    <3> QED BY <1>0, <1>2, <3>1, <3>2, <3>3, Opened
  <2> QED BY <1>0, <2>1, <2>2, <2>4 DEF TypeOK
<1>3. CASE OpenInsert(r)
  BY <1>0, <1>3 DEF OpenInsert, TypeOK
<1>4. CASE CopyChunk(r)
  <2>1. in[r] \in Inodes /\ data[in[r]] \in Texts /\ pos[r] \in Nat
    BY <1>0, <1>4 DEF CopyChunk, TypeOK, StreamInv
  <2>2. pos[r] + 1 \in 1 .. Len(data[in[r]])
    BY <1>4, <2>1 DEF CopyChunk, Texts
  <2>3. data[in[r]][pos[r] + 1] \cup {r} \in SUBSET (Words \cup Runs)
    <3>1. data[in[r]][pos[r] + 1] \in SUBSET (Words \cup Runs)
      BY <2>1, <2>2 DEF Texts
    <3> QED BY <3>1
  <2>4. Append(buf[r], data[in[r]][pos[r] + 1] \cup {r}) \in Texts
    BY <1>0, <2>3 DEF TypeOK, Texts
  <2> QED BY <1>0, <1>4, <2>1, <2>4 DEF CopyChunk, TypeOK
<1>5. CASE WriteOut(r)
  BY <1>0, <1>5, FlushTypes DEF WriteOut, TypeOK, StreamInv
<1>6. CASE WriteError(r)
  BY <1>0, <1>6, DropTypes DEF WriteError, Drop, TypeOK
<1>7. CASE LabelError(r)
  BY <1>0, <1>7, DropTypes DEF LabelError, Drop, TypeOK
<1>8. CASE ReadError(r)
  BY <1>0, <1>8 DEF ReadError, TypeOK
<1>9. CASE EndOfInput(r)
  BY <1>0, <1>9 DEF EndOfInput, TypeOK
<1>10. CASE Close(r)
  <2>1. CASE out[r] = None
    BY <1>0, <1>10, <2>1 DEF Close, TypeOK
  <2>2. CASE out[r] # None /\ Flush(r)
    <3>1. /\ data' \in [Inodes -> Texts] /\ off' \in [Runs -> Nat]
          /\ buf' \in [Runs -> Texts] /\ printed' \in [Runs -> Texts]
      BY <1>0, <2>2, FlushTypes
    <3> QED BY <1>0, <1>10, <2>2, <3>1 DEF Close, TypeOK, AfterClose
  <2>3. CASE out[r] # None /\ Drop(r)
    <3>1. buf' \in [Runs -> Texts] /\ UNCHANGED <<data, off, printed>>
      BY <1>0, <2>3, DropTypes DEF Drop
    <3> QED BY <1>0, <1>10, <2>3, <3>1 DEF Close, TypeOK, AfterClose
  <2> QED BY <1>10, <2>1, <2>2, <2>3 DEF Close
<1>11. CASE Remove(r)
  BY <1>0, <1>11 DEF Remove, Pass, TypeOK
<1>12. CASE RestorePermissions(r)
  <2>1. mode' \in [Inodes -> {"original", "umask"}]
    BY <1>0, <1>12 DEF RestorePermissions, TypeOK, Names
  <2> QED BY <1>0, <1>12, <2>1 DEF RestorePermissions, Pass, TypeOK
<1>13. CASE Rename(r)
  <2>1. dir' \in [Names -> Inodes \cup {None}]
    BY <1>0, <1>13 DEF Rename, TypeOK, Names
  <2> QED BY <1>0, <1>13, <2>1 DEF Rename, Pass, TypeOK
<1>14. CASE Exit(r)
  <2>1. CASE ToStdout(r) /\ Flush(r)
    <3>1. /\ data' \in [Inodes -> Texts] /\ off' \in [Runs -> Nat]
          /\ buf' \in [Runs -> Texts] /\ printed' \in [Runs -> Texts]
      BY <1>0, <2>1, FlushTypes
    <3> QED BY <1>0, <1>14, <2>1, <3>1 DEF Exit, TypeOK
  <2>2. CASE ToStdout(r) /\ Drop(r)
    BY <1>0, <1>14, <2>2, DropTypes DEF Exit, Drop, TypeOK
  <2>3. CASE ~ToStdout(r)
    BY <1>0, <1>14, <2>3 DEF Exit, TypeOK
  <2> QED BY <1>14, <2>1, <2>2, <2>3 DEF Exit
<1>15. CASE Kill(r)
  BY <1>0, <1>15 DEF Kill, TypeOK
<1> QED BY <1>1, <1>2, <1>3, <1>4, <1>5, <1>6, <1>7, <1>8, <1>9, <1>10, <1>11, <1>12,
           <1>13, <1>14, <1>15 DEF RunNext

\* What a name refers to after a step.
LEMMA DirChange ==
    ASSUME IInv, NEW r \in Runs, RunNext(r)
    PROVE  \/ dir' = dir
           \/ \E i \in Inodes :
                /\ Free(i) /\ OpenOutput(r) /\ ~ToStdout(r)
                /\ dir[Target(r)] = None /\ dir' = [dir EXCEPT ![Target(r)] = i]
           \/ Remove(r) /\ dir' = [dir EXCEPT ![Target(r)] = None]
           \/ /\ Rename(r) /\ dir["file~"] # None
              /\ dir' = [dir EXCEPT !["file"] = dir["file~"], !["file~"] = None]
<1>1. CASE OpenOutput(r)
  BY <1>1, Opened DEF IInv, files
<1>2. CASE Remove(r)
  BY <1>2 DEF Remove
<1>3. CASE Rename(r)
  BY <1>3 DEF Rename
<1> QED BY <1>1, <1>2, <1>3, Effects

LEMMA DirStep ==
    ASSUME IInv, NEW r \in Runs, RunNext(r)
    PROVE  DirInv'
<1>0. TypeOK /\ DirInv /\ StreamInv(r) /\ "file" \in Names /\ "file~" \in Names
  BY DEF IInv, Names
<1>1. ASSUME NEW i \in Inodes, Free(i), ~ToStdout(r), dir[Target(r)] = None,
             dir' = [dir EXCEPT ![Target(r)] = i]
      PROVE  DirInv'
  <2>1. Target(r) \in Names /\ Target(r) # "file" /\ i # None
    BY <1>0, <1>1, TargetName, NoneAssumption
  <2>2. \A n \in Names : dir'[n] = IF n = Target(r) THEN i ELSE dir[n]
    BY <1>0, <1>1, <2>1 DEF TypeOK
  <2>3. \A n \in Names : dir[n] # i
    BY <1>1 DEF Free
  <2> QED BY <1>0, <2>1, <2>2, <2>3 DEF DirInv
<1>2. CASE Remove(r) /\ dir' = [dir EXCEPT ![Target(r)] = None]
  <2>1. Target(r) \in Names /\ Target(r) # "file"
    BY <1>0, <1>2, TargetName DEF Remove, At, StreamInv
  <2>2. \A n \in Names : dir'[n] = IF n = Target(r) THEN None ELSE dir[n]
    BY <1>0, <1>2, <2>1 DEF TypeOK
  <2> QED BY <1>0, <2>1, <2>2 DEF DirInv
<1>3. CASE dir["file~"] # None
           /\ dir' = [dir EXCEPT !["file"] = dir["file~"], !["file~"] = None]
  <2>1. \A n \in Names : dir'[n] = IF n = "file" THEN dir["file~"]
                                   ELSE IF n = "file~" THEN None ELSE dir[n]
    BY <1>0, <1>3 DEF TypeOK
  <2>2. dir'["file"] = dir["file~"] /\ dir'["file~"] = None /\ dir'["file"] # None
    BY <1>0, <1>3, <2>1
  <2>3. \A n \in Names : n # "file" /\ n # "file~" => dir'[n] = dir[n]
    BY <2>1
  <2>4. \A m, n \in Names : m # n /\ dir[m] # None => dir[m] # dir[n]
    BY <1>0 DEF DirInv
  <2>5. ASSUME NEW m \in Names, NEW n \in Names, m # n, dir'[m] # None
        PROVE  dir'[m] # dir'[n]
    <3>1. m # "file~"
      BY <2>2, <2>5
    <3>2. CASE m = "file"
      <4>1. CASE n = "file~"
        BY <2>2, <2>5, <4>1
      <4>2. CASE n # "file~"
        <5>1. dir'[n] = dir[n] /\ dir'[m] = dir["file~"]
          BY <2>2, <2>3, <2>5, <3>2, <4>2
        <5> QED BY <1>0, <1>3, <2>4, <4>2, <5>1
      <4> QED BY <4>1, <4>2
    <3>3. CASE m # "file"
      <4>1. dir'[m] = dir[m]
        BY <2>3, <3>1, <3>3
      <4>2. CASE n = "file"
        BY <1>0, <2>2, <2>4, <2>5, <3>1, <4>1, <4>2
      <4>3. CASE n = "file~"
        BY <2>2, <2>5, <4>3
      <4>4. CASE n # "file" /\ n # "file~"
        BY <2>3, <2>4, <2>5, <4>1, <4>4
      <4> QED BY <4>2, <4>3, <4>4
    <3> QED BY <3>2, <3>3
  <2> QED BY <2>2, <2>5 DEF DirInv
<1>4. CASE dir' = dir
  BY <1>0, <1>4 DEF DirInv
<1> QED BY <1>1, <1>2, <1>3, <1>4, DirChange

\* Every call keeps what a run has opened and found out in step with where it
\* is.
LEMMA StreamStep ==
    ASSUME IInv, TypeOK', NEW r \in Runs, RunNext(r), NEW q \in Runs
    PROVE  StreamInv(q)'
<1> USE DEF At, Goto, Fail, streams, files
<1>0. TypeOK /\ StreamInv(q) /\ DirInv /\ job' = job
  BY Effects DEF IInv
<1>a. /\ InPlace(q)' = InPlace(q) /\ ToStdout(q)' = ToStdout(q)
  BY <1>0 DEF InPlace, ToStdout, Target
<1>1. CASE q # r
  BY <1>0, <1>a, <1>1, Others DEF StreamInv
<1>2. CASE q = r
  <2>1. CASE OpenInput(r)
    BY <1>0, <1>a, <1>2, <2>1 DEF OpenInput, TypeOK, StreamInv
  <2>2. CASE OpenOutput(r)
    <3>1. /\ pc[r] = "output" /\ in'[r] = in[r] /\ problems'[r] = problems[r]
          /\ pos'[r] = pos[r] /\ off'[r] = off[r] /\ buf'[r] = buf[r]
      BY <2>2 DEF OpenOutput
    <3>2. CASE UNCHANGED <<files, out>>
      <4>1. \/ pc'[r] = "close" /\ code'[r] = 1
            \/ pc'[r] = "insert" /\ code'[r] = code[r] /\ ToStdout(r) /\ ~(InPlace(r) /\ out[r] # None)
        BY <1>0, <1>2, <2>2, <3>1, <3>2, NoneAssumption DEF OpenOutput, TypeOK, StreamInv
      <4> QED BY <1>0, <1>a, <1>2, <3>1, <3>2, <4>1 DEF StreamInv
    <3>3. CASE /\ ~ToStdout(r) /\ pc'[r] = "insert" /\ code' = code
               /\ out' = [out EXCEPT ![r] = dir'[Target(r)]]
               /\ dir'[Target(r)] \in Inodes
      <4>1. out'[r] # None
        BY <1>0, <3>3, NoneAssumption DEF TypeOK
      <4> QED BY <1>0, <1>a, <1>2, <3>1, <3>3, <4>1 DEF StreamInv
    <3> QED BY <1>0, <2>2, <3>2, <3>3, Opened
  <2>3. CASE OpenInsert(r)
    BY <1>0, <1>a, <1>2, <2>3 DEF OpenInsert, TypeOK, StreamInv, ToStdout, Target
  <2>4. CASE CopyChunk(r)
    BY <1>0, <1>a, <1>2, <2>4 DEF CopyChunk, TypeOK, StreamInv
  <2>5. CASE WriteOut(r)
    <3>1. UNCHANGED <<pc, in, out, code, problems>> /\ pc[r] = "copy"
      BY <2>5 DEF WriteOut
    <3> QED BY <1>0, <1>a, <1>2, <3>1 DEF StreamInv
  <2>6. CASE WriteError(r)
    BY <1>0, <1>a, <1>2, <2>6 DEF WriteError, TypeOK, StreamInv
  <2>7. CASE LabelError(r)
    BY <1>0, <1>a, <1>2, <2>7 DEF LabelError, TypeOK, StreamInv
  <2>8. CASE ReadError(r)
    BY <1>0, <1>a, <1>2, <2>8 DEF ReadError, TypeOK, StreamInv
  <2>9. CASE EndOfInput(r)
    BY <1>0, <1>a, <1>2, <2>9 DEF EndOfInput, TypeOK, StreamInv, ToStdout, InPlace, Target
  <2>10. CASE Close(r)
    <3>1. UNCHANGED <<in, out, problems>> /\ pc[r] = "close"
      BY <2>10 DEF Close
    <3>2. \/ out[r] = None /\ pc'[r] = "exit" /\ code' = code
          \/ out[r] # None /\ code'[r] \in {code[r], 1} /\ pc'[r] = AfterClose(r, code'[r])
      BY <1>0, <2>10 DEF Close, TypeOK
    <3> QED BY <1>0, <1>a, <1>2, <3>1, <3>2 DEF StreamInv, AfterClose
  <2>11. CASE Remove(r)
    <3>1. /\ UNCHANGED <<in, out, code>> /\ pc[r] = "remove" /\ pc'[r] = "exit"
          /\ problems'[r] \subseteq problems[r] \cup {"unlink"}
      BY <1>0, <2>11 DEF Remove, Pass, TypeOK
    <3> QED BY <1>0, <1>a, <1>2, <3>1 DEF StreamInv
  <2>12. CASE RestorePermissions(r)
    <3>1. /\ UNCHANGED <<in, out, code>> /\ pc[r] = "permissions" /\ pc'[r] = "rename"
          /\ problems'[r] \subseteq problems[r] \cup {"stat", "chmod"}
      BY <1>0, <2>12 DEF RestorePermissions, Pass, TypeOK
    <3> QED BY <1>0, <1>a, <1>2, <3>1 DEF StreamInv
  <2>13. CASE Rename(r)
    <3>1. /\ UNCHANGED <<in, out, code>> /\ pc[r] = "rename" /\ pc'[r] = "exit"
      BY <1>0, <2>13 DEF Rename, TypeOK
    <3> QED BY <1>0, <1>a, <1>2, <3>1 DEF StreamInv
  <2>14. CASE Exit(r)
    <3>1. UNCHANGED <<in, out, code, problems>> /\ pc[r] = "exit" /\ pc'[r] = "done"
      BY <1>0, <2>14 DEF Exit, TypeOK
    <3> QED BY <1>0, <1>a, <1>2, <3>1 DEF StreamInv
  <2>15. CASE Kill(r)
    BY <1>0, <1>a, <1>2, <2>15 DEF Kill, TypeOK, StreamInv
  <2> QED BY <2>1, <2>2, <2>3, <2>4, <2>5, <2>6, <2>7, <2>8, <2>9, <2>10, <2>11, <2>12,
             <2>13, <2>14, <2>15 DEF RunNext
<1> QED BY <1>1, <1>2

\* A run leaves a broken output file only when it may, and nobody makes one
\* appear again that is removed.
LEMMA LeftStep ==
    ASSUME IInv, TypeOK', NEW r \in Runs, RunNext(r), NEW q \in Runs
    PROVE  LeftInv(q)'
<1> USE DEF At, Goto, Fail, streams, files
<1>0. TypeOK /\ StreamInv(q) /\ LeftInv(q) /\ DirInv /\ job' = job
  BY Effects DEF IInv
<1>a. InPlace(q)' = InPlace(q) /\ ToStdout(q)' = ToStdout(q) /\ Target(q)' = Target(q)
  BY <1>0 DEF InPlace, ToStdout, Target
<1> SUFFICES ASSUME pc'[q] = "exit", out'[q] # None, code'[q] # 0 \/ InPlace(q),
                    dir'[Target(q)] = out'[q]
             PROVE  \/ code'[q] # 0 /\ job[q].keep
                    \/ problems'[q] \cap {"unlink", "rename"} # {}
  BY <1>0, <1>a DEF LeftInv
<1>1. CASE q # r
  <2>1. /\ pc[q] = "exit" /\ out[q] = out'[q] /\ code'[q] = code[q] /\ problems'[q] = problems[q]
    BY <1>0, <1>1, Others
  <2>2. Target(q) \in Names /\ Target(q) # "file" /\ Live(q)
    BY <1>0, <2>1, TargetName DEF StreamInv, Live
  <2>3. dir[Target(q)] = out[q]
    <3>1. ASSUME NEW i \in Inodes, Free(i), dir' = [dir EXCEPT ![Target(r)] = i]
          PROVE  dir[Target(q)] = out[q]
      BY <1>0, <2>1, <2>2, <3>1 DEF Free, TypeOK
    <3>2. CASE dir' = [dir EXCEPT ![Target(r)] = None]
      BY <1>0, <2>1, <2>2, <3>2 DEF TypeOK
    <3>3. CASE dir' = [dir EXCEPT !["file"] = dir["file~"], !["file~"] = None]
      BY <1>0, <2>1, <2>2, <3>3 DEF TypeOK
    <3> QED BY <2>1, <3>1, <3>2, <3>3, DirChange
  <2> QED BY <1>0, <2>1, <2>3 DEF LeftInv
<1>2. CASE q = r
  <2>1. Close(r) \/ Remove(r) \/ Rename(r)
    BY <1>0, <1>2 DEF RunNext, OpenInput, OpenOutput, OpenInsert, CopyChunk, WriteOut,
       WriteError, LabelError, ReadError, EndOfInput, RestorePermissions, Exit, Kill, TypeOK
  <2>2. CASE Close(r)
    <3>1. out[r] # None /\ pc'[r] = AfterClose(r, code'[r])
      BY <1>0, <1>2, <2>2 DEF Close, TypeOK
    <3> QED BY <1>2, <3>1 DEF AfterClose
  <2>3. CASE Remove(r)
    <3>1. out' = out /\ Target(r) \in Names
      BY <1>0, <1>2, <2>3, TargetName DEF Remove, StreamInv
    <3>2. CASE dir' = [dir EXCEPT ![Target(r)] = None]
      BY <1>0, <1>2, <3>1, <3>2 DEF TypeOK
    <3>3. CASE Pass(r, "unlink")
      BY <1>0, <1>2, <3>3 DEF Pass, TypeOK
    <3> QED BY <2>3, <3>2, <3>3 DEF Remove
  <2>4. CASE Rename(r)
    <3>1. out' = out /\ Target(r) = "file~" /\ Target(r) \in Names
      BY <1>0, <1>2, <2>4, TargetName DEF Rename, StreamInv
    <3>2. CASE dir' = [dir EXCEPT !["file"] = dir["file~"], !["file~"] = None]
      BY <1>0, <1>2, <3>1, <3>2 DEF TypeOK
    <3>3. CASE Pass(r, "rename")
      BY <1>0, <1>2, <3>3 DEF Pass, TypeOK
    <3> QED BY <2>4, <3>2, <3>3 DEF Rename
  <2> QED BY <2>1, <2>2, <2>3, <2>4
<1> QED BY <1>1, <1>2

LEMMA Initially == Init => IInv
<1> SUFFICES ASSUME Init  PROVE IInv
  OBVIOUS
<1>1. TypeOK
  <2>1. data \in [Inodes -> Texts]
    <3>1. Originals \subseteq Texts
      <4> SUFFICES ASSUME NEW t \in Originals  PROVE t \in Texts
        OBVIOUS
      <4>1. t \in Seq(SUBSET Words)
        BY OriginalsAssumption
      <4>2. \A i \in 1 .. Len(t) : t[i] \in SUBSET (Words \cup Runs)
        BY <4>1
      <4> QED BY <4>1, <4>2 DEF Texts
    <3> QED BY <3>1 DEF Init
  <2>2. mode \in [Inodes -> {"original", "umask"}]
    BY DEF Init
  <2>3. <<>> \in Texts /\ 0 \in Nat
    BY DEF Texts
  <2>4. /\ buf \in [Runs -> Texts] /\ printed \in [Runs -> Texts]
        /\ pos \in [Runs -> Nat] /\ off \in [Runs -> Nat]
    BY <2>3 DEF Init
  <2> QED BY <2>1, <2>2, <2>4 DEF Init, TypeOK, PCs
<1>2. DirInv
  BY DEF Init, DirInv
<1>3. \A r \in Runs : StreamInv(r) /\ LeftInv(r)
  BY DEF Init, StreamInv, LeftInv
<1> QED BY <1>1, <1>2, <1>3 DEF IInv

LEMMA Inductive == IInv /\ [Next]_vars => IInv'
<1> SUFFICES ASSUME IInv, [Next]_vars  PROVE IInv'
  OBVIOUS
<1>1. ASSUME NEW r \in Runs, RunNext(r)  PROVE IInv'
  BY <1>1, TypeStep, DirStep, StreamStep, LeftStep DEF IInv
<1>2. CASE UNCHANGED vars
  BY <1>2 DEF vars, IInv, TypeOK, DirInv, StreamInv, LeftInv, ToStdout, InPlace, Target
<1> QED BY <1>1, <1>2 DEF Next

-----------------------------------------------------------------------------
(* What holds as long as no run writes what another one has open.           *)

\* No file that is written is open elsewhere.
LEMMA Apart ==
    ASSUME ~Clash, NEW q \in Runs, NEW r \in Runs, Live(q), Live(r), out[r] # None
    PROVE  in[q] # out[r] /\ (q # r => out[q] # out[r])
BY DEF Clash

\* A text changes when a run opens its file for writing, or writes it.
LEMMA DataChange ==
    ASSUME IInv, IInv', NEW r \in Runs, RunNext(r), NEW i \in Inodes, data'[i] # data[i]
    PROVE  /\ out'[r] = i /\ Live(r)'
           /\ \/ OpenOutput(r) /\ dir'[Target(r)] = i /\ ~ToStdout(r)
              \/ out[r] = i /\ pc[r] \in {"copy", "close"}
<1> USE DEF At, Goto, Fail, streams, files
<1>0. TypeOK /\ TypeOK' /\ StreamInv(r)
  BY DEF IInv
<1>1. CASE OpenOutput(r)
  <2>1. CASE UNCHANGED <<files, out>>
    BY <2>1
  <2>2. ASSUME ~ToStdout(r), pc'[r] = "insert", out' = [out EXCEPT ![r] = dir'[Target(r)]],
               \/ data' = data \/ data' = [data EXCEPT ![dir'[Target(r)]] = <<>>]
        PROVE  /\ out'[r] = i /\ Live(r)' /\ dir'[Target(r)] = i
    BY <1>0, <2>2 DEF TypeOK, Live
  <2>3. ASSUME NEW j \in Inodes, dir' = [dir EXCEPT ![Target(r)] = j], ~ToStdout(r)
        PROVE  dir'[Target(r)] = j
    BY <1>0, <2>3, TargetName DEF TypeOK
  <2> QED BY <1>0, <1>1, <2>1, <2>2, <2>3, Opened
<1>2. CASE (WriteOut(r) \/ Close(r)) /\ Flush(r)
  <2>1. ~ToStdout(r) /\ out' = out /\ pc[r] \in {"copy", "close"}
    BY <1>2 DEF WriteOut, Close, Flush
  <2>2. out[r] = i
    BY <1>0, <1>2, <2>1 DEF Flush, TypeOK
  <2>3. Live(r)'
    BY <1>0, <1>2 DEF WriteOut, Close, AfterClose, Live, TypeOK
  <2> QED BY <2>1, <2>2, <2>3
<1>3. CASE Exit(r)
  BY <1>3 DEF Exit, Flush, Drop
<1>4. CASE Close(r) /\ ~Flush(r)
  BY <1>4 DEF Close, Drop
<1>5. CASE WriteOut(r)
  BY <1>2, <1>5 DEF WriteOut
<1> QED BY <1>1, <1>2, <1>3, <1>4, <1>5, Effects

\* What the others read or write stays as it is, and so does the input.
LEMMA TextsKept ==
    ASSUME IInv, IInv', ~Clash', NEW r \in Runs, RunNext(r), NEW q \in Runs, Live(q)'
    PROVE  /\ in'[q] # None => data'[in'[q]] = data[in'[q]]
           /\ q # r /\ out'[q] # None => data'[out'[q]] = data[out'[q]]
<1>1. in'[q] \in Inodes \cup {None} /\ out'[q] \in Inodes \cup {None}
  BY DEF IInv, TypeOK
<1>2. ASSUME NEW i \in Inodes, data'[i] # data[i]
      PROVE  in'[q] # i /\ (q # r => out'[q] # i)
  <2>1. out'[r] = i /\ Live(r)' /\ i # None
    BY <1>2, DataChange, NoneAssumption
  <2> QED BY <2>1 DEF Clash
<1> QED BY <1>1, <1>2

\* Only a renaming changes the text under the name of the input file.
LEMMA FileKept ==
    ASSUME IInv, IInv', NEW r \in Runs, TargetInv(r), RunNext(r), ~Rename(r)
    PROVE  dir'["file"] = dir["file"] /\ data'[dir["file"]] = data[dir["file"]]
<1>0. /\ TypeOK /\ DirInv /\ StreamInv(r) /\ "file" \in Names /\ dir["file"] \in Inodes
  BY DEF IInv, DirInv, TypeOK, Names
<1>1. dir'["file"] = dir["file"]
  <2>1. (OpenOutput(r) /\ ~ToStdout(r)) \/ Remove(r) => Target(r) # "file"
    BY <1>0, TargetName DEF Remove, At, StreamInv
  <2> QED BY <1>0, <2>1, DirChange DEF TypeOK
<1>2. data'[dir["file"]] = data[dir["file"]]
  <2> SUFFICES ASSUME data'[dir["file"]] # data[dir["file"]]  PROVE FALSE
    OBVIOUS
  <2>1. \/ OpenOutput(r) /\ dir'[Target(r)] = dir["file"] /\ ~ToStdout(r)
        \/ out[r] = dir["file"] /\ pc[r] \in {"copy", "close"}
    BY <1>0, DataChange
  <2>2. CASE OpenOutput(r) /\ dir'[Target(r)] = dir["file"] /\ ~ToStdout(r)
    <3>1. Target(r) # "file" /\ Target(r) \in Names
      BY <1>0, <2>2, TargetName
    <3> QED BY <1>1, <2>2, <3>1, NoneAssumption DEF IInv, DirInv, Names
  <2>3. CASE out[r] = dir["file"] /\ pc[r] \in {"copy", "close"}
    <3>1. Target(r) # "file" /\ Target(r) \in Names
      BY <1>0, <2>3, TargetName DEF StreamInv, DirInv
    <3>2. dir[Target(r)] = out[r]
      BY <1>0, <2>3 DEF TargetInv, Live, DirInv
    <3> QED BY <1>0, <2>3, <3>1, <3>2 DEF DirInv
  <2> QED BY <2>1, <2>2, <2>3
<1> QED BY <1>1, <1>2

\* A file that is written keeps its name: no other run removes or renames it.
LEMMA TargetStep ==
    ASSUME IInv, IInv', JInv, NEW r \in Runs, RunNext(r), NEW q \in Runs
    PROVE  TargetInv(q)'
<1> USE DEF At, Goto, Fail, streams, files
<1>0. /\ TypeOK /\ TypeOK' /\ DirInv /\ StreamInv(q) /\ StreamInv(r) /\ job' = job
      /\ TargetInv(q) /\ TargetInv(r) /\ ~Clash
  BY Effects DEF IInv, JInv
<1>a. Target(q)' = Target(q)
  BY <1>0 DEF InPlace, Target
<1> SUFFICES ASSUME Live(q)', pc'[q] # "exit", out'[q] # None
             PROVE  dir'[Target(q)] = out'[q]
  BY <1>a DEF TargetInv
<1>1. CASE q # r
  <2>1. Live(q) /\ pc[q] # "exit" /\ out[q] = out'[q]
    BY <1>0, <1>1, Others DEF Live
  <2>2. dir[Target(q)] = out[q] /\ out[q] # None
    BY <1>0, <2>1 DEF TargetInv
  <2>3. Target(q) \in Names /\ Target(q) # "file"
    BY <1>0, <2>2, TargetName DEF StreamInv
  <2>4. ASSUME dir[Target(r)] = None  PROVE Target(r) # Target(q)
    BY <2>2, <2>4
  <2>5. ASSUME Remove(r) \/ Rename(r)  PROVE Target(r) # Target(q)
    <3>1. Live(r) /\ pc[r] \in {"remove", "rename"} /\ out[r] # None
      BY <1>0, <2>5, Effects DEF Remove, Rename, StreamInv
    <3>2. dir[Target(r)] = out[r]
      BY <1>0, <3>1 DEF TargetInv
    <3> QED BY <1>0, <1>1, <2>1, <2>2, <3>1, <3>2, Apart
  <2>6. Rename(r) => Target(r) = "file~"
    BY <1>0, TargetName DEF Rename, StreamInv
  <2> QED BY <1>0, <2>1, <2>2, <2>3, <2>4, <2>5, <2>6, DirChange DEF TypeOK
<1>2. CASE q = r
  <2>1. CASE OpenOutput(r)
    <3>1. CASE UNCHANGED <<files, out>>
      BY <1>0, <1>2, <2>1, <3>1 DEF OpenOutput, StreamInv
    <3>2. CASE out' = [out EXCEPT ![r] = dir'[Target(r)]]
      BY <1>0, <1>2, <3>2 DEF TypeOK
    <3> QED BY <1>0, <2>1, <3>1, <3>2, Opened
  <2>2. CASE ~OpenOutput(r)
    <3>1. out' = out /\ Live(r)
      BY <2>2, Effects
    <3>2. ~Remove(r) /\ ~Rename(r)
      BY <1>0, <1>2 DEF Remove, Rename, TypeOK
    <3>3. pc[r] # "exit"
      BY <1>0, <1>2 DEF RunNext, OpenInput, OpenOutput, OpenInsert, CopyChunk, WriteOut,
         WriteError, LabelError, ReadError, EndOfInput, Close, Remove, RestorePermissions,
         Rename, Exit, Kill, Live, TypeOK
    <3> QED BY <1>0, <1>2, <2>2, <3>1, <3>2, <3>3, DirChange DEF TargetInv
  <2> QED BY <2>1, <2>2
<1> QED BY <1>1, <1>2

\* The buffer is written behind what the run has written before.
LEMMA FlushCopies ==
    ASSUME IInv, NEW r \in Runs, CopyInv(r), pc[r] \in {"copy", "close"}, out[r] # None,
           code[r] = 0, ~job[r].labels, Flush(r)
    PROVE  /\ buf'[r] = <<>> /\ pos[r] \in 0 .. Len(data'[out[r]])
           /\ ~job[r].append => pos[r] = Len(data'[out[r]]) /\ off'[r] = pos[r]
           /\ \A i \in 1 .. pos[r] :
                data'[out[r]][Len(data'[out[r]]) - pos[r] + i] = data[in[r]][i] \cup {r}
<1> DEFINE text == data[out[r]]
           source == data[in[r]]
           chunks == buf[r]
           after == data'[out[r]]
<1>1. /\ out[r] \in Inodes /\ text \in Texts /\ chunks \in Texts /\ ~ToStdout(r)
      /\ pos[r] \in Nat /\ off[r] \in Nat
  BY DEF IInv, TypeOK, StreamInv
<1>2. Len(text) \in Nat /\ Len(chunks) \in Nat
  BY <1>1 DEF Texts
<1>3. /\ Out(r) \in 0 .. Len(text) /\ Out(r) = pos[r] - Len(chunks)
      /\ ~job[r].append => Out(r) = Len(text) /\ off[r] = Out(r)
      /\ \A i \in 1 .. Out(r) : text[Len(text) - Out(r) + i] = source[i] \cup {r}
      /\ \A i \in 1 .. Len(chunks) : chunks[i] = source[Out(r) + i] \cup {r}
  BY DEF CopyInv, Out
<1>4. (IF job[r].append THEN Len(text) ELSE off[r]) = Len(text)
  BY <1>3
<1>5. /\ after = Written(text, Len(text), chunks) /\ buf'[r] = <<>>
      /\ off'[r] = Len(text) + Len(chunks)
  <2> DEFINE at == IF job[r].append THEN Len(text) ELSE off[r]
  <2>1. /\ data' = [data EXCEPT ![out[r]] = Written(data[out[r]], at, buf[r])]
        /\ off' = [off EXCEPT ![r] = at + Len(buf[r])]
        /\ buf' = [buf EXCEPT ![r] = <<>>]
    BY <1>1 DEF Flush
  <2>2. at = Len(text)
    BY <1>4
  <2> HIDE DEF at
  <2> QED BY <1>1, <2>1, <2>2 DEF IInv, TypeOK
<1>6. /\ Len(after) = Len(text) + Len(chunks)
      /\ \A i \in 1 .. Len(text) : after[i] = text[i]
      /\ \A i \in 1 .. Len(chunks) : after[Len(text) + i] = chunks[i]
  <2> DEFINE new == Written(text, Len(text), chunks)
  <2>1. /\ Len(new) = Len(text) + Len(chunks)
        /\ \A i \in 1 .. Len(text) : new[i] = text[i]
        /\ \A i \in 1 .. Len(chunks) : new[Len(text) + i] = chunks[i]
    <3> HIDE DEF text, chunks
    <3> QED BY <1>1, <1>2, WrittenText
  <2>2. after = new
    BY <1>5
  <2> HIDE DEF after, new, text, chunks
  <2> QED BY <2>1, <2>2
<1>7. ASSUME NEW i \in 1 .. pos[r]
      PROVE  after[Len(after) - pos[r] + i] = source[i] \cup {r}
  <2> HIDE DEF after, text, chunks, source
  <2>1. Len(after) - pos[r] + i = Len(text) - Out(r) + i
    BY <1>1, <1>2, <1>3, <1>6
  <2>2. CASE i <= Out(r)
    <3>1. i \in 1 .. Out(r) /\ Len(text) - Out(r) + i \in 1 .. Len(text)
      BY SMTT(30), <1>1, <1>2, <1>3, <2>2
    <3> QED BY <1>3, <1>6, <2>1, <3>1
  <2>3. CASE ~(i <= Out(r))
    <3>1. i - Out(r) \in 1 .. Len(chunks)
      BY <1>1, <1>2, <1>3, <2>3
    <3>2. /\ Len(text) - Out(r) + i = Len(text) + (i - Out(r))
          /\ Out(r) + (i - Out(r)) = i
      BY <1>1, <1>2, <1>3
    <3>3. after[Len(text) + (i - Out(r))] = chunks[i - Out(r)]
      BY <1>6, <3>1
    <3>4. chunks[i - Out(r)] = source[Out(r) + (i - Out(r))] \cup {r}
      BY <1>3, <3>1
    <3> QED BY <2>1, <3>2, <3>3, <3>4
  <2> QED BY <2>2, <2>3
<1>8. pos[r] \in 0 .. Len(after)
  <2> HIDE DEF after, text, chunks, source
  <2> QED BY <1>1, <1>2, <1>3, <1>6
<1>9. ~job[r].append => pos[r] = Len(after) /\ off'[r] = pos[r]
  <2> HIDE DEF after, text, chunks, source
  <2> QED BY <1>1, <1>2, <1>3, <1>5, <1>6
<1> QED BY <1>5, <1>7, <1>8, <1>9

\* What a run has read is in its output file or its buffer.
LEMMA CopyStep ==
    ASSUME IInv, IInv', JInv, ~Clash', NEW r \in Runs, RunNext(r), NEW q \in Runs
    PROVE  CopyInv(q)'
<1> USE DEF At, Goto, Fail, streams, files
<1>0. /\ TypeOK /\ TypeOK' /\ StreamInv(q) /\ StreamInv(q)' /\ job' = job /\ CopyInv(q)
  BY Effects DEF IInv, JInv
<1> SUFFICES ASSUME pc'[q] \in {"insert", "copy", "close"}, out'[q] # None, code'[q] = 0,
                    ~job[q].labels
             PROVE  CopyInv(q)'
  BY <1>0 DEF CopyInv
<1>1. Live(q)' /\ in'[q] # None /\ data'[in'[q]] = data[in'[q]]
  <2>1. Live(q)' /\ in'[q] # None
    BY <1>0 DEF Live, StreamInv
  <2> QED BY <2>1, TextsKept
<1>2. CASE q # r
  <2>1. /\ pc'[q] = pc[q] /\ in'[q] = in[q] /\ pos'[q] = pos[q]
        /\ out'[q] = out[q] /\ off'[q] = off[q] /\ buf'[q] = buf[q] /\ code'[q] = code[q]
    BY <1>0, <1>2, Others
  <2>2. data'[out[q]] = data[out[q]] /\ data'[in[q]] = data[in[q]]
    BY <1>1, <1>2, <2>1, TextsKept
  <2> QED BY <1>0, <2>1, <2>2 DEF CopyInv, Out
<1>3. CASE q = r
  <2>1. CASE OpenOutput(r)
    <3>1. ~UNCHANGED <<files, out>>
      BY <1>0, <1>3, <2>1 DEF OpenOutput, StreamInv
    <3>2. /\ out'[r] \in Inodes /\ data'[out'[r]] \in Texts /\ pc'[r] = "insert"
          /\ ~job[r].append => data'[out'[r]] = <<>>
      BY <1>0, <1>3, <2>1, <3>1, Opened DEF TypeOK
    <3>3. pos'[r] = 0 /\ buf'[r] = <<>> /\ off'[r] = 0
      BY <1>0, <1>3, <3>2 DEF StreamInv
    <3>4. data'[in'[r]] \in Texts
      BY <1>0, <1>1, <1>3 DEF TypeOK
    <3>5. Out(r)' = 0
      <4>1. Out(r)' = pos'[r] - Len(buf'[r])
        BY DEF Out
      <4>2. Len(buf'[r]) = 0 /\ pos'[r] = 0
        BY <3>3
      <4> QED BY <4>1, <4>2
    <3> QED BY <1>0, <1>3, <3>2, <3>3, <3>4, <3>5 DEF CopyInv, Texts
  <2>2. CASE OpenInsert(r)
    <3>1. /\ UNCHANGED <<files, in, pos, out, off, buf, job>> /\ pc[r] = "insert"
          /\ pc'[r] = "copy" /\ code'[r] = code[r]
      BY <1>0, <1>3, <2>2 DEF OpenInsert, TypeOK
    <3> QED BY <1>0, <1>3, <3>1 DEF CopyInv, Out
  <2>3. CASE CopyChunk(r)
    <3> DEFINE source == data[in[r]]
    <3>1. /\ UNCHANGED <<pc, in, out, off, data, code>> /\ pc[r] = "copy"
          /\ pos[r] < Len(source) /\ pos'[r] = pos[r] + 1
          /\ buf'[r] = Append(buf[r], source[pos[r] + 1] \cup {r})
      BY <1>0, <2>3 DEF CopyChunk, TypeOK
    <3>2. /\ buf[r] \in Seq(SUBSET (Words \cup Runs)) /\ pos[r] \in Nat
          /\ Len(source) \in Nat /\ Len(data[out[r]]) \in Nat
      BY <1>0, <1>1, <1>3, <3>1 DEF TypeOK, Texts
    <3>3. Len(buf'[r]) = Len(buf[r]) + 1 /\ Len(buf[r]) \in Nat
      BY <3>1, <3>2
    <3>4. Out(r)' = Out(r) /\ Out(r) = pos[r] - Len(buf[r])
      <4>1. Out(r)' = pos'[r] - Len(buf'[r])
        BY DEF Out
      <4> QED BY SMTT(30), <3>1, <3>2, <3>3, <4>1 DEF Out
    <3>5. ASSUME NEW i \in 1 .. Len(buf'[r])
          PROVE  buf'[r][i] = source[Out(r) + i] \cup {r}
      <4>1. CASE i <= Len(buf[r])
        <5>1. i \in 1 .. Len(buf[r]) /\ buf'[r][i] = buf[r][i]
          BY <3>1, <3>2, <3>3, <4>1
        <5> QED BY <1>0, <1>3, <3>1, <5>1 DEF CopyInv
      <4>2. CASE ~(i <= Len(buf[r]))
        <5>1. i = Len(buf[r]) + 1
          BY <3>2, <3>3, <4>2
        <5>2. Out(r) + i = pos[r] + 1
          BY <3>2, <3>3, <3>4, <5>1
        <5>3. buf'[r][i] = source[pos[r] + 1] \cup {r}
          BY <3>1, <3>2, <5>1
        <5> QED BY <5>2, <5>3
      <4> QED BY <4>1, <4>2
    <3>6. pos'[r] <= Len(source)
      BY <3>1, <3>2
    <3> QED BY SMTT(30), <1>0, <1>3, <3>1, <3>4, <3>5, <3>6 DEF CopyInv
  <2>4. CASE WriteOut(r)
    <3>1. UNCHANGED <<pc, in, pos, out, code>> /\ pc[r] = "copy" /\ Flush(r)
      BY <2>4 DEF WriteOut
    <3>2. /\ buf'[r] = <<>> /\ pos[r] \in 0 .. Len(data'[out[r]])
          /\ ~job[r].append => pos[r] = Len(data'[out[r]]) /\ off'[r] = pos[r]
          /\ \A i \in 1 .. pos[r] :
               data'[out[r]][Len(data'[out[r]]) - pos[r] + i] = data[in[r]][i] \cup {r}
      BY <1>0, <1>3, <3>1, FlushCopies
    <3>3. Out(r)' = pos[r] /\ Len(buf'[r]) = 0
      <4>1. Out(r)' = pos'[r] - Len(buf'[r]) /\ pos[r] \in Nat
        BY <1>0 DEF Out, TypeOK
      <4> QED BY <3>1, <3>2, <4>1
    <3>4. pos[r] <= Len(data[in[r]])
      BY <1>0, <1>3, <3>1 DEF CopyInv
    <3> QED BY <1>0, <1>1, <1>3, <3>1, <3>2, <3>3, <3>4 DEF CopyInv
  <2>5. CASE EndOfInput(r)
    <3>1. /\ UNCHANGED <<files, in, pos, out, off, buf, job>> /\ pc[r] = "copy"
          /\ code'[r] = code[r] /\ pos[r] >= Len(data[in[r]])
      BY <1>0, <1>3, <2>5 DEF EndOfInput, TypeOK
    <3>2. pos[r] \in Nat /\ Len(data[in[r]]) \in Nat
      BY <1>0, <1>1, <1>3, <3>1 DEF TypeOK, Texts
    <3>3. pos[r] <= Len(data[in[r]])
      BY <1>0, <1>3, <3>1 DEF CopyInv
    <3>4. pos[r] = Len(data[in[r]])
      BY <3>1, <3>2, <3>3
    <3> QED BY <1>0, <1>3, <3>1, <3>4 DEF CopyInv, Out
  <2>6. OpenOutput(r) \/ OpenInsert(r) \/ CopyChunk(r) \/ WriteOut(r) \/ EndOfInput(r)
    BY <1>0, <1>3 DEF RunNext, OpenInput, WriteError, LabelError, ReadError, Close, AfterClose,
       Remove, RestorePermissions, Rename, Exit, Kill, TypeOK
  <2> QED BY <2>1, <2>2, <2>3, <2>4, <2>5, <2>6
<1> QED BY <1>2, <1>3

\* What is finished stays the edited input.
LEMMA FinishStep ==
    ASSUME IInv, IInv', JInv, ~Clash', NEW r \in Runs, RunNext(r), NEW q \in Runs
    PROVE  FinishInv(q)'
<1> USE DEF At, Goto, Fail, streams, files
<1>0. /\ TypeOK /\ TypeOK' /\ StreamInv(q)' /\ StreamInv(r) /\ job' = job
      /\ CopyInv(q) /\ FinishInv(q)
  BY Effects DEF IInv, JInv
<1> SUFFICES ASSUME Finished(q)'
             PROVE  FinishInv(q)'
  BY DEF FinishInv
<1>1. Live(q)' /\ in'[q] # None /\ data'[in'[q]] = data[in'[q]] /\ out'[q] # None
  <2>1. Live(q)' /\ in'[q] # None /\ out'[q] # None
    BY <1>0 DEF Live, Finished, StreamInv
  <2> QED BY <2>1, TextsKept
<1>2. ASSUME Finished(q), in'[q] = in[q], out'[q] = out[q], data'[out[q]] = data[out[q]]
      PROVE  FinishInv(q)'
  BY <1>0, <1>1, <1>2 DEF FinishInv
<1>3. CASE q # r
  <2>1. /\ pc'[q] = pc[q] /\ in'[q] = in[q] /\ out'[q] = out[q] /\ code'[q] = code[q]
    BY <1>0, <1>3, Others
  <2>2. data'[out[q]] = data[out[q]]
    BY <1>1, <1>3, <2>1, TextsKept
  <2> QED BY <1>0, <1>2, <2>1, <2>2 DEF Finished
<1>4. CASE q = r
  <2>1. CASE Close(r)
    <3>1. UNCHANGED <<in, pos, out>> /\ pc[r] = "close" /\ Flush(r) /\ code' = code
      BY <1>0, <1>1, <1>4, <2>1 DEF Close, Finished, TypeOK
    <3>2. code[r] = 0 /\ ~job[r].labels
      BY <1>0, <1>4, <3>1 DEF Finished
    <3>3. pos[r] = Len(data[in[r]])
      BY <1>0, <1>1, <1>4, <3>1, <3>2 DEF CopyInv
    <3>4. /\ pos[r] \in 0 .. Len(data'[out[r]])
          /\ ~job[r].append => pos[r] = Len(data'[out[r]])
          /\ \A i \in 1 .. pos[r] :
               data'[out[r]][Len(data'[out[r]]) - pos[r] + i] = data[in[r]][i] \cup {r}
      BY <1>0, <1>1, <1>4, <3>1, <3>2, FlushCopies
    <3>5. data[in[r]] \in Seq(SUBSET (Words \cup Runs)) /\ Len(data'[out[r]]) \in Nat
      BY <1>0, <1>1, <1>4, <3>1 DEF TypeOK, Texts
    <3>6. DOMAIN data[in[r]] = 1 .. pos[r]
      BY <3>3, <3>5
    <3>7. /\ Len(data[in[r]]) <= Len(data'[out[r]])
          /\ ~job[r].append => Len(data[in[r]]) = Len(data'[out[r]])
      BY <3>3, <3>4, <3>5
    <3>8. \A i \in DOMAIN data[in[r]] :
            data'[out[r]][Len(data'[out[r]]) - Len(data[in[r]]) + i] =
                data[in[r]][i] \cup {r}
      BY <3>3, <3>4, <3>6
    <3>9. data'[in'[r]] = data[in[r]] /\ out'[r] = out[r] /\ job' = job
      BY <1>0, <1>1, <1>4, <3>1
    <3> QED BY <1>4, <3>7, <3>8, <3>9 DEF FinishInv
  <2>2. CASE RestorePermissions(r) \/ Rename(r)
    <3>1. UNCHANGED <<in, out, data, code>> /\ pc[r] \in {"permissions", "rename"}
      BY <2>2 DEF RestorePermissions, Rename
    <3>2. Finished(r)
      BY <1>0, <1>4, <3>1 DEF Finished
    <3> QED BY <1>2, <1>4, <3>1, <3>2
  <2>3. Close(r) \/ RestorePermissions(r) \/ Rename(r)
    BY <1>0, <1>4 DEF Finished, RunNext, OpenInput, OpenOutput, OpenInsert, CopyChunk,
       WriteOut, WriteError, LabelError, ReadError, EndOfInput, Remove, Exit, Kill,
       TypeOK, StreamInv
  <2> QED BY <2>1, <2>2, <2>3
<1> QED BY <1>3, <1>4

\* What a run has reported it does not take back.
LEMMA ProblemsGrow ==
    ASSUME TypeOK, NEW r \in Runs, RunNext(r), NEW q \in Runs
    PROVE  problems[q] \subseteq problems'[q]
BY Effects DEF Remove, RestorePermissions, Rename, Pass, TypeOK

\* The permissions of the input file go over to the one that replaces it.
LEMMA ModeStep ==
    ASSUME IInv, IInv', JInv, NEW r \in Runs, RunNext(r)
    PROVE  ModeInv'
<1> USE DEF At, Goto, Fail, streams, files
<1>0. /\ TypeOK /\ TypeOK' /\ DirInv /\ ModeInv /\ TargetInv(r)
      /\ \A q \in Runs : StreamInv(q)
      /\ "file" \in Names /\ "file~" \in Names /\ dir["file"] \in Inodes
  BY DEF IInv, JInv, DirInv, TypeOK, Names
<1>1. CASE \E q \in Runs : problems[q] \cap {"stat", "chmod"} # {}
  BY <1>0, <1>1, ProblemsGrow DEF ModeInv
<1>2. CASE ~\E q \in Runs : problems[q] \cap {"stat", "chmod"} # {}
  <2>0. /\ mode[dir["file"]] = "original"
        /\ \A q \in Runs : pc[q] = "rename" => mode[out[q]] = "original"
    BY <1>0, <1>2 DEF ModeInv
  <2>1. CASE RestorePermissions(r)
    <3>1. /\ pc[r] = "permissions" /\ UNCHANGED <<dir, out>> /\ Live(r) /\ out[r] # None
          /\ Target(r) = "file~"
      BY <1>0, <2>1, Effects, TargetName DEF RestorePermissions, StreamInv
    <3>2. dir["file~"] = out[r]
      BY <3>1 DEF TargetInv, JInv
    <3>3. CASE Pass(r, "stat") \/ Pass(r, "chmod")
      <4>1. "stat" \in problems'[r] \/ "chmod" \in problems'[r]
        BY <1>0, <3>3 DEF Pass, TypeOK
      <4>2. problems'[r] \cap {"stat", "chmod"} # {}
        BY <4>1
      <4> QED BY <4>2 DEF ModeInv
    <3>4. CASE mode' = [mode EXCEPT ![dir["file~"]] = mode[dir["file"]]]
      <4>1. \A i \in Inodes : mode[i] = "original" \/ i = out[r] => mode'[i] = "original"
        BY <1>0, <2>0, <3>1, <3>2, <3>4 DEF TypeOK
      <4>2. \A q \in Runs : pc'[q] = "rename" =>
              out'[q] \in Inodes /\ (mode[out[q]] = "original" \/ q = r)
        <5> SUFFICES ASSUME NEW q \in Runs, pc'[q] = "rename"
                     PROVE  out'[q] \in Inodes /\ (mode[out[q]] = "original" \/ q = r)
          OBVIOUS
        <5>1. q # r => pc[q] = "rename"
          BY <1>0, Others
        <5>2. out[q] # None
          BY <1>0, <3>1, <5>1 DEF StreamInv
        <5> QED BY <1>0, <2>0, <3>1, <5>1, <5>2 DEF TypeOK
      <4> QED BY <1>0, <2>0, <3>1, <4>1, <4>2 DEF ModeInv
    <3> QED BY <1>0, <2>1, <3>3, <3>4 DEF RestorePermissions, DirInv
  <2>2. CASE Rename(r)
    <3>1. /\ pc[r] = "rename" /\ UNCHANGED <<mode, out>> /\ Live(r) /\ out[r] # None
          /\ Target(r) = "file~" /\ pc' = [pc EXCEPT ![r] = "exit"]
      BY <1>0, <2>2, Effects, TargetName DEF Rename, StreamInv
    <3>2. dir["file~"] = out[r]
      BY <3>1 DEF TargetInv, JInv
    <3>3. dir'["file"] \in {dir["file"], out[r]}
      BY <1>0, <2>2, <3>2 DEF Rename, TypeOK
    <3>4. mode'[dir'["file"]] = "original"
      BY <2>0, <3>1, <3>3
    <3> QED BY <1>0, <2>0, <3>1, <3>4 DEF ModeInv, TypeOK
  <2>3. CASE ~RestorePermissions(r) /\ ~Rename(r)
    <3>1. dir'["file"] = dir["file"]
      BY <1>0, <2>3, FileKept
    <3>2. \A q \in Runs : pc'[q] = "rename" => pc[q] = "rename" /\ out'[q] = out[q] /\ Live(q)
      <4> SUFFICES ASSUME NEW q \in Runs, pc'[q] = "rename"
                   PROVE  pc[q] = "rename" /\ out'[q] = out[q] /\ Live(q)
        OBVIOUS
      <4>1. q # r
        BY SMTT(30), <1>0, <2>3 DEF RunNext, OpenInput, OpenOutput, OpenInsert, CopyChunk, WriteOut,
           WriteError, LabelError, ReadError, EndOfInput, Close, AfterClose, Remove, Exit,
           Kill, Live, TypeOK
      <4> QED BY <1>0, <4>1, Others DEF Live
    <3>3. CASE mode' = mode
      BY <2>0, <3>1, <3>2, <3>3 DEF ModeInv
    <3>4. ASSUME NEW i \in Inodes, Free(i), mode' = [mode EXCEPT ![i] = "umask"]
          PROVE  ModeInv'
      <4>1. i # dir["file"] /\ \A q \in Runs : Live(q) => out[q] # i
        BY <1>0, <3>4 DEF Free
      <4>2. \A j \in Inodes : j # i => mode'[j] = mode[j]
        BY <1>0, <3>4 DEF TypeOK
      <4>3. \A q \in Runs : pc'[q] = "rename" => mode'[out'[q]] = "original"
        BY <1>0, <2>0, <3>2, <4>1, <4>2 DEF StreamInv, TypeOK
      <4> QED BY <1>0, <2>0, <3>1, <4>1, <4>2, <4>3 DEF ModeInv
    <3> QED BY <1>0, <2>3, <3>3, <3>4, Opened, Effects
  <2> QED BY <2>1, <2>2, <2>3
<1> QED BY <1>1, <1>2

\* An in-place update that neither appends nor writes labels is finished when
\* it restores the permissions.
LEMMA UpdateFinished ==
    ASSUME IInv, JInv, PlainUpdates, NEW r \in Runs, pc[r] \in {"permissions", "rename"}
    PROVE  /\ Finished(r) /\ InPlace(r) /\ ~job[r].append /\ Live(r)
           /\ in[r] \in Inodes /\ out[r] \in Inodes /\ dir["file~"] = out[r]
<1>1. TypeOK /\ StreamInv(r) /\ TargetInv(r)
  BY DEF IInv, JInv
<1>2. InPlace(r) /\ out[r] # None /\ in[r] # None /\ code[r] = 0 /\ ~ToStdout(r)
  BY <1>1 DEF StreamInv
<1>3. ~job[r].append /\ ~job[r].labels
  BY <1>1, <1>2 DEF InPlace, TypeOK, PlainUpdates
<1>4. dir["file~"] = out[r] /\ Live(r)
  BY <1>1, <1>2, TargetName DEF TargetInv, Live
<1> QED BY <1>1, <1>2, <1>3, <1>4 DEF Finished, TypeOK

\* No text becomes empty.
LEMMA TextStep ==
    ASSUME IInv, IInv', JInv, ~Clash', NEW r \in Runs, RunNext(r)
    PROVE  TextInv'
<1> SUFFICES ASSUME PlainUpdates
             PROVE  /\ data'[dir'["file"]] # <<>>
                    /\ \A q \in Runs : Live(q)' /\ in'[q] # None => data'[in'[q]] # <<>>
  BY DEF TextInv
<1>0. /\ TypeOK /\ TypeOK' /\ DirInv /\ TargetInv(r) /\ "file" \in Names /\ "file~" \in Names
      /\ data[dir["file"]] # <<>>
      /\ \A q \in Runs : Live(q) /\ in[q] # None => data[in[q]] # <<>>
  BY DEF IInv, JInv, TextInv, Names
<1>1. data'[dir'["file"]] # <<>>
  <2>1. CASE Rename(r)
    <3>1. data' = data /\ pc[r] = "rename"
      BY <2>1 DEF Rename, At
    <3>2. /\ Finished(r) /\ Live(r) /\ in[r] \in Inodes /\ out[r] \in Inodes
          /\ dir["file~"] = out[r]
      BY <3>1, UpdateFinished
    <3>3. dir'["file"] \in {dir["file"], out[r]}
      BY <1>0, <2>1, <3>2 DEF Rename, TypeOK
    <3>4. data[out[r]] # <<>>
      <4>1. Len(data[in[r]]) <= Len(data[out[r]])
        BY <3>2 DEF JInv, FinishInv
      <4>2. data[in[r]] # <<>>
        BY <1>0, <3>2, NoneAssumption
      <4>3. data[in[r]] \in Seq(SUBSET (Words \cup Runs))
            /\ data[out[r]] \in Seq(SUBSET (Words \cup Runs))
        BY <1>0, <3>2 DEF TypeOK, Texts
      <4> HIDE DEF Finished
      <4> QED BY <4>1, <4>2, <4>3
    <3> QED BY <1>0, <3>1, <3>3, <3>4
  <2>2. CASE ~Rename(r)
    BY <1>0, <2>2, FileKept
  <2> QED BY <2>1, <2>2
<1>2. ASSUME NEW q \in Runs, Live(q)', in'[q] # None
      PROVE  data'[in'[q]] # <<>>
  <2>1. data'[in'[q]] = data[in'[q]]
    BY <1>2, TextsKept
  <2>2. Live(q)
    BY <1>0, <1>2, Others, Effects DEF Live
  <2>3. in'[q] = in[q] \/ in'[q] = dir["file"]
    BY <1>0, Effects DEF OpenInput, TypeOK
  <2> QED BY <1>0, <1>2, <2>1, <2>2, <2>3
<1> QED BY <1>1, <1>2

LEMMA JInitially == Init => JInv
<1> SUFFICES ASSUME Init  PROVE JInv
  OBVIOUS
<1>1. ~Clash /\ \A r \in Runs : TargetInv(r) /\ CopyInv(r) /\ FinishInv(r)
  BY DEF Init, Clash, TargetInv, CopyInv, FinishInv, Finished
<1>2. "file" \in Names /\ dir["file"] \in Inodes
  BY DEF Init, Names
<1>3. ModeInv
  BY <1>2 DEF Init, ModeInv
<1>4. TextInv
  BY <1>2, OriginalsAssumption DEF Init, TextInv
<1> QED BY <1>1, <1>3, <1>4 DEF JInv

LEMMA JInductive == IInv /\ IInv' /\ JInv /\ [Next /\ ~Clash']_vars => JInv'
<1> SUFFICES ASSUME IInv, IInv', JInv, [Next /\ ~Clash']_vars  PROVE JInv'
  OBVIOUS
<1>1. ASSUME NEW r \in Runs, RunNext(r), ~Clash'  PROVE JInv'
  BY <1>1, ModeStep, TextStep, TargetStep, CopyStep, FinishStep DEF JInv
<1>2. CASE UNCHANGED vars
  BY ZenonT(60), <1>2 DEF vars, JInv, Clash, Live, ModeInv, TextInv, TargetInv, Target, InPlace,
     CopyInv, Out, FinishInv, Finished
<1> QED BY <1>1, <1>2 DEF Next

LEMMA Invariance == SeparateSpec => [](IInv /\ JInv)
<1>1. IInv /\ JInv /\ [Next /\ ~Clash']_vars => (IInv /\ JInv)'
  <2>1. [Next /\ ~Clash']_vars => [Next]_vars
    OBVIOUS
  <2> QED BY <2>1, Inductive, JInductive
<1> QED BY <1>1, Initially, JInitially, PTL DEF SeparateSpec

-----------------------------------------------------------------------------
(* The theorems.                                                            *)

\* Type correctness, whatever calls fail, whichever runs are killed, and
\* whatever the runs do to each other's files.
THEOREM TypeCorrect == Spec => []TypeOK
<1>1. IInv => TypeOK
  BY DEF IInv
<1> QED BY <1>1, Initially, Inductive, PTL DEF Spec

\* No broken output and no temporary file is left over without a word, unless
\* the user wants to keep it: not even when other runs use the same names.
THEOREM NothingLeftOver == Spec => []NoLeftovers
<1>1. IInv => NoLeftovers
  BY DEF IInv, LeftInv, NoLeftovers
<1> QED BY <1>1, Initially, Inductive, PTL DEF Spec

\* What cleanUp() has closed without an error ends with the whole edited input,
\* and holds nothing else unless it was opened to append.
THEOREM AllDelivered == SeparateSpec => []Delivered
<1>1. IInv /\ JInv => Delivered
  <2> SUFFICES ASSUME IInv, JInv, NEW r \in Runs, Finished(r)
               PROVE  LET text   == data[out[r]]
                          edited == Edited(r, data[in[r]])
                      IN  /\ Len(text) >= Len(edited)
                          /\ ~job[r].append => Len(text) = Len(edited)
                          /\ SubSeq(text, Len(text) - Len(edited) + 1, Len(text)) = edited
    BY DEF Delivered
  <2> DEFINE text == data[out[r]]
             source == data[in[r]]
             edited == Edited(r, source)
  <2>1. text \in Seq(SUBSET (Words \cup Runs)) /\ source \in Seq(SUBSET (Words \cup Runs))
    BY DEF Finished, IInv, StreamInv, TypeOK, Texts
  <2>2. /\ Len(source) <= Len(text)
        /\ ~job[r].append => Len(source) = Len(text)
        /\ \A i \in DOMAIN source :
             text[Len(text) - Len(source) + i] = source[i] \cup {r}
    BY DEF JInv, FinishInv
  <2>3. /\ Len(text) \in Nat /\ Len(source) \in Nat /\ DOMAIN source = 1 .. Len(source)
        /\ edited = [i \in 1 .. Len(source) |-> source[i] \cup {r}]
        /\ Len(edited) = Len(source)
    <3>1. /\ Len(text) \in Nat /\ Len(source) \in Nat /\ DOMAIN source = 1 .. Len(source)
      BY <2>1
    <3>2. edited = [i \in 1 .. Len(source) |-> source[i] \cup {r}]
      BY <3>1 DEF Edited
    <3> HIDE DEF edited
    <3> QED BY <3>1, <3>2
  <2>4. SubSeq(text, Len(text) - Len(source) + 1, Len(text)) = edited
    <3> DEFINE end == SubSeq(text, Len(text) - Len(source) + 1, Len(text))
    <3>1. end = [i \in 1 .. Len(source) |-> text[Len(text) - Len(source) + i]]
      <4> HIDE DEF text, source
      <4>1. /\ Len(end) = Len(source)
            /\ \A i \in 1 .. Len(source) : end[i] = text[Len(text) - Len(source) + i]
            /\ end \in Seq(SUBSET (Words \cup Runs))
        BY <2>1, <2>2, <2>3
      <4> HIDE DEF end
      <4> QED BY <4>1
    <3>2. \A i \in 1 .. Len(source) : text[Len(text) - Len(source) + i] = source[i] \cup {r}
      BY <2>2, <2>3
    <3>3. [i \in 1 .. Len(source) |-> text[Len(text) - Len(source) + i]]
            = [i \in 1 .. Len(source) |-> source[i] \cup {r}]
      <4> HIDE DEF text, source
      <4> QED BY <3>2, Zenon
    <3> HIDE DEF edited, text, source
    <3> QED BY <2>3, <3>1, <3>3, Zenon
  <2>5. /\ Len(text) >= Len(edited)
        /\ ~job[r].append => Len(text) = Len(edited)
    <3> HIDE DEF edited, text, source
    <3> QED BY <2>2, <2>3
  <2>6. SubSeq(text, Len(text) - Len(edited) + 1, Len(text)) = edited
    <3> HIDE DEF edited, text, source
    <3> QED BY <2>3, <2>4
  <2> QED BY <2>5, <2>6
<1> QED BY <1>1, Invariance, PTL

\* The updated file has other permissions than the original only when chmod()
\* or, without a word, stat() has failed.
THEOREM PermissionsArePassedOn == SeparateSpec => []PermissionsKept
<1>1. JInv => PermissionsKept
  BY DEF JInv, ModeInv, PermissionsKept
<1> QED BY <1>1, Invariance, PTL

\* A run removes or replaces no file but the one it writes and, in place, the
\* input file by the one it wrote.
THEOREM OthersFilesStay == SeparateSpec => OnlyOwnFiles
<1> DEFINE Own == \A n \in Names : dir[n] # None /\ dir'[n] # dir[n] =>
                    \E r \in Runs :
                        /\ Live(r) /\ out[r] # None
                        /\ \/ n = Target(r) /\ dir[n] = out[r]
                           \/ n = "file" /\ InPlace(r) /\ dir'[n] = out[r]
<1>1. ASSUME IInv, JInv, NEW r \in Runs, RunNext(r)  PROVE Own
  <2> SUFFICES ASSUME NEW n \in Names, dir[n] # None, dir'[n] # dir[n]
               PROVE  /\ Live(r) /\ out[r] # None
                      /\ \/ n = Target(r) /\ dir[n] = out[r]
                         \/ n = "file" /\ InPlace(r) /\ dir'[n] = out[r]
    OBVIOUS
  <2>0. TypeOK /\ StreamInv(r) /\ TargetInv(r) /\ Live(r)
    BY <1>1, Effects DEF IInv, JInv
  <2>1. CASE Remove(r) /\ dir' = [dir EXCEPT ![Target(r)] = None]
    <3>1. pc[r] = "remove" /\ out[r] # None /\ dir[Target(r)] = out[r]
      BY <2>0, <2>1 DEF Remove, At, StreamInv, TargetInv
    <3> QED BY <2>0, <2>1, <3>1 DEF TypeOK
  <2>2. CASE Rename(r) /\ dir' = [dir EXCEPT !["file"] = dir["file~"], !["file~"] = None]
    <3>1. /\ pc[r] = "rename" /\ out[r] # None /\ dir[Target(r)] = out[r]
          /\ Target(r) = "file~" /\ InPlace(r)
      BY <2>0, <2>2, TargetName DEF Rename, At, StreamInv, TargetInv
    <3> QED BY <2>0, <2>2, <3>1 DEF TypeOK
  <2>3. ASSUME NEW i \in Inodes, dir[Target(r)] = None, dir' = [dir EXCEPT ![Target(r)] = i]
        PROVE  FALSE
    BY <2>0, <2>3 DEF TypeOK
  <2> QED BY <1>1, <2>1, <2>2, <2>3, DirChange
<1>2. IInv /\ JInv /\ [Next /\ ~Clash']_vars => [Own]_vars
  BY <1>1 DEF Next
<1> QED BY <1>2, Invariance, PTL DEF SeparateSpec, OnlyOwnFiles

-----------------------------------------------------------------------------
(* In-place updates are atomic.                                             *)

\* What AtomicUpdate knows of a run: the text it has looked at, and what has
\* become of it.
Seen(r) == IF Live(r) /\ in[r] # None THEN data[in[r]] ELSE <<>>

Outcome(r) == IF pc[r] = "killed" THEN "killed"
              ELSE IF Replaced(r)
                THEN IF Live(r) THEN "replaced" ELSE "success"
                ELSE IF Live(r) THEN "running" ELSE "unchanged"

\* A step of one run leaves what is known of the others.
LEMMA OthersKept ==
    ASSUME IInv, IInv', ~Clash', NEW r \in Runs, RunNext(r), NEW q \in Runs, q # r
    PROVE  Seen(q)' = Seen(q) /\ Outcome(q)' = Outcome(q)
<1>1. /\ pc'[q] = pc[q] /\ in'[q] = in[q] /\ code'[q] = code[q] /\ problems'[q] = problems[q]
      /\ job' = job
  BY Others, Effects DEF IInv
<1>2. Live(q)' = Live(q) /\ Replaced(q)' = Replaced(q)
  BY <1>1 DEF Live, Replaced, InPlace
<1> QED BY <1>1, <1>2, TextsKept DEF Seen, Outcome

\* A run looks at its input file, replaces it, ends, or does what nobody sees.
LEMMA OwnStep ==
    ASSUME IInv, IInv', JInv, ~Clash', PlainUpdates, NEW r \in Runs, RunNext(r)
    PROVE  LET file == data[dir["file"]]
           IN
           \/ file' = file /\ Seen(r)' = Seen(r) /\ Outcome(r)' = Outcome(r)
           \/ /\ file' = file /\ Outcome(r)' = Outcome(r)
              /\ Outcome(r) = "running" /\ Seen(r) = <<>> /\ Seen(r)' = file
           \/ /\ Seen(r)' = Seen(r)
              /\ Outcome(r) = "running" /\ Seen(r) # <<>>
              /\ file' = Edited(r, Seen(r)) /\ Outcome(r)' = "replaced"
           \/ /\ file' = file /\ Seen(r)' = <<>>
              /\ \/ Outcome(r) = "replaced" /\ Outcome(r)' = "success"
                 \/ Outcome(r) = "running" /\ Outcome(r)' = "unchanged"
           \/ /\ file' = file /\ Seen(r)' = <<>>
              /\ Outcome(r) \in {"running", "replaced"} /\ Outcome(r)' = "killed"
<1> DEFINE file == data[dir["file"]]
<1> USE DEF At, Goto, Fail, streams, files
<1>0. /\ TypeOK /\ TypeOK' /\ StreamInv(r) /\ StreamInv(r)' /\ TargetInv(r) /\ job' = job
      /\ Live(r) /\ "file" \in Names /\ "file~" \in Names /\ dir["file"] \in Inodes
      /\ dir["file"] # None
  BY Effects DEF IInv, JInv, DirInv, TypeOK, Names
<1>a. InPlace(r)' = InPlace(r) /\ (Replaced(r) => pc[r] = "exit")
  BY <1>0 DEF InPlace, Replaced, Live
<1>b. Outcome(r) = IF Replaced(r) THEN "replaced" ELSE "running"
  BY <1>0 DEF Outcome, Live
<1>c. ~Rename(r) => file' = file
  BY <1>0, FileKept
<1>1. CASE OpenInput(r)
  <2>1. pc[r] = "input" /\ in[r] = None /\ data' = data
    BY <1>0, <1>1 DEF OpenInput, StreamInv
  <2>2. file' = file
    BY <1>1, <1>c DEF OpenInput, Rename
  <2>3. Seen(r) = <<>> /\ Outcome(r) = "running"
    BY <1>a, <1>b, <2>1 DEF Seen
  <2>4. CASE in'[r] = dir["file"] /\ pc'[r] = "output"
    <3>1. Seen(r)' = file /\ Outcome(r)' = "running"
      BY <1>0, <2>1, <2>4 DEF Seen, Outcome, Live, Replaced
    <3> QED BY <2>2, <2>3, <3>1
  <2>5. CASE in' = in /\ pc'[r] = "close"
    <3>1. Seen(r)' = <<>> /\ Outcome(r)' = "running"
      BY <2>1, <2>5 DEF Seen, Outcome, Live, Replaced
    <3> QED BY <2>2, <2>3, <3>1
  <2> QED BY <1>0, <1>1, <2>4, <2>5 DEF OpenInput, TypeOK
<1>2. CASE Rename(r)
  <2>1. /\ pc[r] = "rename" /\ pc'[r] = "exit" /\ UNCHANGED <<data, in, out, code>>
    BY <1>0, <1>2 DEF Rename, TypeOK
  <2>2. /\ Finished(r) /\ InPlace(r) /\ ~job[r].append
        /\ in[r] \in Inodes /\ out[r] \in Inodes /\ dir["file~"] = out[r]
    BY <2>1, UpdateFinished
  <2>3. code[r] = 0 /\ "rename" \notin problems[r] /\ Outcome(r) = "running" /\ in[r] # None
    BY <1>0, <1>a, <1>b, <2>1, <2>2, NoneAssumption DEF StreamInv
  <2>4. Seen(r) = data[in[r]] /\ Seen(r)' = Seen(r) /\ Live(r)'
    BY <1>0, <2>1, <2>3 DEF Seen, Live
  <2>5. CASE dir' = [dir EXCEPT !["file"] = dir["file~"], !["file~"] = None] /\ problems' = problems
    <3>1. Outcome(r)' = "replaced"
      BY <1>a, <2>1, <2>2, <2>3, <2>4, <2>5 DEF Outcome, Replaced
    <3>2. Seen(r) # <<>>
      BY <1>0, <2>3, <2>4 DEF JInv, TextInv
    <3>3. data[out[r]] = Edited(r, data[in[r]])
      <4>1. /\ data[in[r]] \in Seq(SUBSET (Words \cup Runs))
            /\ data[out[r]] \in Seq(SUBSET (Words \cup Runs))
        BY <1>0, <2>2 DEF TypeOK, Texts
      <4>2. /\ Len(data[in[r]]) = Len(data[out[r]])
            /\ \A i \in DOMAIN data[in[r]] :
                 data[out[r]][Len(data[out[r]]) - Len(data[in[r]]) + i] =
                     data[in[r]][i] \cup {r}
        BY <2>2 DEF JInv, FinishInv
      <4>3. \A i \in 1 .. Len(data[in[r]]) : data[out[r]][i] = data[in[r]][i] \cup {r}
        <5>1. \A i \in 1 .. Len(data[in[r]]) :
                i \in DOMAIN data[in[r]]
                  /\ Len(data[out[r]]) - Len(data[in[r]]) + i = i
          BY <4>1, <4>2
        <5> QED BY <4>2, <5>1
      <4>4. /\ data[out[r]] = [i \in 1 .. Len(data[out[r]]) |-> data[out[r]][i]]
            /\ DOMAIN data[in[r]] = 1 .. Len(data[in[r]])
        BY <4>1
      <4> QED BY <4>2, <4>3, <4>4 DEF Edited
    <3>4. file' = data[out[r]]
      BY <1>0, <2>1, <2>2, <2>5 DEF TypeOK
    <3> QED BY <2>3, <2>4, <3>1, <3>2, <3>3, <3>4
  <2>6. CASE Pass(r, "rename") /\ dir' = dir
    <3>1. "rename" \in problems'[r]
      BY <1>0, <2>6 DEF Pass, TypeOK
    <3>2. Outcome(r)' = "running"
      BY <2>1, <2>4, <3>1 DEF Outcome, Replaced
    <3>3. file' = file
      BY <2>1, <2>6
    <3> QED BY <2>3, <2>4, <3>2, <3>3
  <2> QED BY <1>2, <2>5, <2>6 DEF Rename
<1>3. CASE Exit(r)
  <2>1. pc[r] = "exit" /\ pc'[r] = "done" /\ UNCHANGED <<code, problems>>
    BY <1>0, <1>3 DEF Exit, TypeOK
  <2>2. Replaced(r)' = Replaced(r) /\ ~Live(r)'
    BY <1>a, <2>1 DEF Replaced, Live
  <2>3. Seen(r)' = <<>>
    BY <2>2 DEF Seen
  <2>4. Outcome(r)' = IF Replaced(r) THEN "success" ELSE "unchanged"
    BY <2>1, <2>2 DEF Outcome
  <2>5. file' = file
    BY <1>c, <2>1 DEF Rename
  <2> QED BY <1>b, <2>3, <2>4, <2>5
<1>4. CASE Kill(r)
  <2>1. pc'[r] = "killed"
    BY <1>0, <1>4 DEF Kill, TypeOK
  <2>2. Seen(r)' = <<>> /\ Outcome(r)' = "killed"
    BY <2>1 DEF Seen, Outcome, Live
  <2>3. file' = file
    BY <1>4 DEF Kill
  <2> QED BY <1>b, <2>2, <2>3
<1>5. CASE ~OpenInput(r) /\ ~Rename(r) /\ ~Exit(r) /\ ~Kill(r)
  <2>1. in' = in /\ Live(r)' /\ pc[r] # "exit"
    BY SMTT(30), <1>0, <1>5, Effects DEF RunNext, OpenOutput, OpenInsert, CopyChunk, WriteOut,
       WriteError, LabelError, ReadError, EndOfInput, Close, AfterClose, Remove,
       RestorePermissions, Live, TypeOK
  <2>2. Seen(r)' = Seen(r)
    BY <1>0, <2>1, TextsKept DEF Seen
  <2>3. ~Replaced(r)'
    <3> SUFFICES ASSUME pc'[r] = "exit", InPlace(r), code'[r] = 0  PROVE FALSE
      BY <1>a, <2>1 DEF Replaced, Live
    <3>1. Close(r) \/ Remove(r)
      BY <1>0, <1>5 DEF RunNext, OpenOutput, OpenInsert, CopyChunk, WriteOut, WriteError,
         LabelError, ReadError, EndOfInput, RestorePermissions, TypeOK
    <3>2. CASE Close(r)
      BY <1>0, <1>a, <3>2 DEF Close, AfterClose, StreamInv, TypeOK
    <3>3. CASE Remove(r)
      BY <1>0, <3>3 DEF Remove, StreamInv
    <3> QED BY <3>1, <3>2, <3>3
  <2>4. Outcome(r) = "running" /\ Outcome(r)' = "running"
    BY <1>a, <1>b, <2>1, <2>3 DEF Outcome, Live
  <2> QED BY <1>5, <1>c, <2>2, <2>4
<1> QED BY <1>1, <1>2, <1>3, <1>4, <1>5

\* Each step maps to a step of AtomicUpdate, or to none.
LEMMA AtomicStep ==
    ASSUME IInv, IInv', JInv, PlainUpdates, [Next /\ ~Clash']_vars
    PROVE  [Atomic!Next]_(Atomic!vars)
<1> DEFINE file == data[dir["file"]]
           seen == [r \in Runs |-> Seen(r)]
           outcome == [r \in Runs |-> Outcome(r)]
<1>1. CASE UNCHANGED vars
  BY <1>1 DEF vars, Atomic!vars, Live, Replaced, InPlace
<1>2. ASSUME NEW r \in Runs, RunNext(r), ~Clash'
      PROVE  [Atomic!Next]_(Atomic!vars)
  <2>1. \A q \in Runs : q # r => Seen(q)' = Seen(q) /\ Outcome(q)' = Outcome(q)
    BY <1>2, OthersKept
  <2>2. seen' = [seen EXCEPT ![r] = Seen(r)'] /\ outcome' = [outcome EXCEPT ![r] = Outcome(r)']
    BY <2>1
  <2>3. seen[r] = Seen(r) /\ outcome[r] = Outcome(r)
    OBVIOUS
  <2>4. /\ seen = [q \in Runs |-> IF Live(q) /\ in[q] # None THEN data[in[q]] ELSE <<>>]
        /\ seen' = [q \in Runs |-> IF Live(q) /\ in[q] # None THEN data[in[q]] ELSE <<>>]'
        /\ outcome = [q \in Runs |->
                        IF pc[q] = "killed" THEN "killed"
                        ELSE IF Replaced(q)
                          THEN IF Live(q) THEN "replaced" ELSE "success"
                          ELSE IF Live(q) THEN "running" ELSE "unchanged"]
        /\ outcome' = [q \in Runs |->
                         IF pc[q] = "killed" THEN "killed"
                         ELSE IF Replaced(q)
                           THEN IF Live(q) THEN "replaced" ELSE "success"
                           ELSE IF Live(q) THEN "running" ELSE "unchanged"]'
    BY DEF Seen, Outcome
  <2>5. CASE file' = file /\ Seen(r)' = Seen(r) /\ Outcome(r)' = Outcome(r)
    <3>1. seen' = seen /\ outcome' = outcome
      BY <2>2, <2>3, <2>5
    <3> QED BY <2>4, <2>5, <3>1 DEF Atomic!vars
  <2>6. CASE /\ file' = file /\ Outcome(r)' = Outcome(r)
             /\ Outcome(r) = "running" /\ Seen(r) = <<>> /\ Seen(r)' = file
    <3>1. seen' = [seen EXCEPT ![r] = file] /\ outcome' = outcome
      BY <2>2, <2>3, <2>6
    <3>2. Atomic!Look(r)
      BY <2>3, <2>4, <2>6, <3>1 DEF Atomic!Look, Atomic!NoText
    <3> QED BY <3>2 DEF Atomic!Next
  <2>7. CASE /\ Seen(r)' = Seen(r)
             /\ Outcome(r) = "running" /\ Seen(r) # <<>>
             /\ file' = Edited(r, Seen(r)) /\ Outcome(r)' = "replaced"
    <3>1. seen' = seen /\ outcome' = [outcome EXCEPT ![r] = "replaced"]
      BY <2>2, <2>3, <2>7
    <3>2. file' = Atomic!Edited(r, seen[r])
      BY <2>3, <2>7 DEF Edited, Atomic!Edited
    <3>3. Atomic!Replace(r)
      BY <2>3, <2>4, <2>7, <3>1, <3>2 DEF Atomic!Replace, Atomic!NoText
    <3> QED BY <3>3 DEF Atomic!Next
  <2>8. CASE /\ file' = file /\ Seen(r)' = <<>>
             /\ \/ Outcome(r) = "replaced" /\ Outcome(r)' = "success"
                \/ Outcome(r) = "running" /\ Outcome(r)' = "unchanged"
    <3>1. /\ seen' = [seen EXCEPT ![r] = <<>>]
          /\ outcome' = [outcome EXCEPT ![r] =
                            IF outcome[r] = "replaced" THEN "success" ELSE "unchanged"]
      BY <2>2, <2>3, <2>8
    <3>2. Atomic!Finish(r)
      BY <2>3, <2>4, <2>8, <3>1 DEF Atomic!Finish, Atomic!NoText
    <3> QED BY <3>2 DEF Atomic!Next
  <2>9. CASE /\ file' = file /\ Seen(r)' = <<>>
             /\ Outcome(r) \in {"running", "replaced"} /\ Outcome(r)' = "killed"
    <3>1. /\ seen' = [seen EXCEPT ![r] = <<>>]
          /\ outcome' = [outcome EXCEPT ![r] = "killed"]
      BY <2>2, <2>3, <2>9
    <3>2. Atomic!Kill(r)
      BY <2>3, <2>4, <2>9, <3>1 DEF Atomic!Kill, Atomic!NoText
    <3> QED BY <3>2 DEF Atomic!Next
  <2> HIDE DEF file, seen, outcome
  <2> QED BY <1>2, <2>5, <2>6, <2>7, <2>8, <2>9, OwnStep DEF file
<1> QED BY <1>1, <1>2 DEF Next

\* In-place updates that neither append nor write labels are atomic: whatever
\* fails and whoever is killed, the input file holds a whole text, and what a
\* run made of the text it looked at exactly when it reports success.
THEOREM UpdatesAreAtomic == PlainUpdates => (SeparateSpec => AtomicSpec)
<1> SUFFICES ASSUME PlainUpdates  PROVE SeparateSpec => AtomicSpec
  OBVIOUS
<1>1. Init => Atomic!Init
  <2> SUFFICES ASSUME Init  PROVE Atomic!Init
    OBVIOUS
  <2>1. data[dir["file"]] \in Originals
    BY DEF Init, Names
  <2>2. \A r \in Runs : in[r] = None /\ Live(r) /\ ~Replaced(r) /\ pc[r] # "killed"
    BY DEF Init, Live, Replaced
  <2> QED BY <2>1, <2>2 DEF Atomic!Init, Atomic!NoText
<1>2. IInv /\ IInv' /\ JInv /\ [Next /\ ~Clash']_vars => [Atomic!Next]_(Atomic!vars)
  BY AtomicStep
<1> QED BY <1>1, <1>2, Invariance, PTL DEF SeparateSpec, AtomicSpec, Atomic!Spec

=============================================================================
