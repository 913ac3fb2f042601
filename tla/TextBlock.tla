----------------------------- MODULE TextBlock -----------------------------
(***************************************************************************)
(* The line processor of text-block (src/Text-Block/text-block.c).         *)
(*                                                                         *)
(* text-block reads its input line by line, finds marked blocks by tags or *)
(* by a range of line numbers, and hands every piece of text to            *)
(* processUnmarked or processMarked, which write what the operation mode   *)
(* asks for.  Both assert that the block is closed (or open) when they are *)
(* called.  A position in the line buffer is 1 for Buffer and Len(Line)+1  *)
(* for EndOfLine; 0 stands for strstr's null pointer.  The empty sequence  *)
(* stands for a tag that is a null pointer; after CheckParameters equal    *)
(* tags are the same pointer, so comparing tags compares the pointers.     *)
(*                                                                         *)
(* The files behind the streams are in module TextBlockFiles.              *)
(***************************************************************************)
EXTENDS Integers, Sequences

CONSTANTS
    Chars,          \* the characters of the input, of any size
    CommandLines,   \* the command lines the program is started with
    Inputs          \* the input texts, each a sequence of lines

Modes == {"cat", "discard", "enumerate", "highlight", "extract",
          "insertFront", "insertBack", "replace", "remove"}

InsertModes == {"insertFront", "insertBack", "replace"}

Tags == Seq(Chars)
NoTag == <<>>

\* A parsed command line: -b, -e, -y/-x, -f/-g, -s, -m, -M, whether -i names
\* a file, and whether an insert file could be opened.
CommandLine ==
    [mode : Modes, begin : Tags, end : Tags, include : BOOLEAN,
     full : BOOLEAN, from : Int, to : Int, min : Int, max : Int,
     file : BOOLEAN, insert : BOOLEAN]

\* What getline() returns is never empty.
Lines == Seq(Chars) \ {<<>>}

ASSUME CommandLinesAssumption == CommandLines \subseteq CommandLine
ASSUME InputsAssumption == Inputs \subseteq Seq(Lines)

VARIABLES
    input,      \* the lines of the input
    arg,        \* the command line
    opt,        \* the global options, set from arg and normalised
    pc,         \* where main() is
    lineNo,     \* LineNo
    ptr,        \* Pointer, a position in the line buffer
    marker,     \* MarkerTag, the tag that is searched next
    blk,        \* the block state and the output, see below
    exitCode    \* the argument of exit(), 0 while the program runs

vars == <<input, arg, opt, pc, lineNo, ptr, marker, blk, exitCode>>

-----------------------------------------------------------------------------
(* Text.                                                                   *)

\* The line buffer.  Before the first line it holds nothing.
Line == IF lineNo = 0 THEN <<>> ELSE input[lineNo]
EndOfLine == Len(Line) + 1

\* The positions from which on tag stands in line, at start or later.
Matches(line, start, tag) ==
    {i \in start .. (Len(line) - Len(tag) + 1) :
        SubSeq(line, i, i + Len(tag) - 1) = tag}

\* strstr(line + start, tag): the first match, or 0.
Strstr(line, start, tag) ==
    LET found == Matches(line, start, tag)
    IN  IF found = {} THEN 0
        ELSE CHOOSE i \in found : \A j \in found : i <= j

-----------------------------------------------------------------------------
(* processUnmarked and processMarked as functions on the block state       *)
(*   in      : InMarkedBlock                                               *)
(*   actions : Actions                                                     *)
(*   out     : what has been written to the output file                    *)
(*   handed  : history: the text of the current line handed over so far    *)
(*   aborted : history: an assert() has failed                             *)

InsertFile == <<"INSERT">>
HighlightBegin == <<"{">>
HighlightEnd == <<"}">>

\* A line number is written in unary, since its format is layout.
Numeral(n) == [i \in 1 .. n |-> "#"]

When(condition, text) == IF condition THEN text ELSE <<>>

UnmarkedOutput(text, beginOfMarking) ==
    CASE opt.mode \in {"cat", "remove", "replace", "insertBack"} -> text
      [] opt.mode = "insertFront" -> text \o When(beginOfMarking, InsertFile)
      [] opt.mode = "enumerate" -> Numeral(lineNo) \o text
      [] opt.mode = "highlight" -> text \o When(beginOfMarking, HighlightBegin)
      [] OTHER -> <<>>

MarkedOutput(text, endOfMarking) ==
    CASE opt.mode \in {"extract", "insertFront"} -> text
      [] opt.mode = "replace" -> When(endOfMarking, InsertFile)
      [] opt.mode = "insertBack" -> text \o When(endOfMarking, InsertFile)
      [] opt.mode = "highlight" -> text \o When(endOfMarking, HighlightEnd)
      [] OTHER -> <<>>

\* The text between two pointers into the line buffer.
Text(from, to) == SubSeq(Line, from, to - 1)

ProcessUnmarked(b, from, to, beginOfMarking) ==
    [in      |-> b.in \/ beginOfMarking,
     actions |-> b.actions + (IF beginOfMarking THEN 1 ELSE 0),
     out     |-> b.out \o UnmarkedOutput(Text(from, to), beginOfMarking),
     handed  |-> b.handed \o Text(from, to),
     aborted |-> b.aborted \/ b.in \/ to < from]

ProcessMarked(b, from, to, endOfMarking) ==
    [in      |-> b.in /\ ~endOfMarking,
     actions |-> b.actions,
     out     |-> b.out \o MarkedOutput(Text(from, to), endOfMarking),
     handed  |-> b.handed \o Text(from, to),
     aborted |-> b.aborted \/ ~b.in \/ to < from]

-----------------------------------------------------------------------------
(* Start of the program.                                                   *)

Init ==
    /\ input \in Inputs
    /\ arg \in CommandLines
    /\ opt = arg
    /\ pc = "args"
    /\ lineNo = 0
    /\ ptr = 1
    /\ marker = NoTag
    /\ blk = [in |-> FALSE, actions |-> 0, out |-> <<>>, handed |-> <<>>,
              aborted |-> FALSE]
    /\ exitCode = 0

\* Once an assert() has failed the program is gone.
At(label) == pc = label /\ ~blk.aborted

Exit(code) == pc' = "exit" /\ exitCode' = code

\* Mutant: a missing end tag is not replaced by the begin tag.
NormalisedEndTagMissing == arg.end

\* A null, empty or missing begin or end tag, or an end tag equal to the
\* begin tag, makes EndTag the same pointer as BeginTag.
NormalisedEndTag ==
    IF arg.end = NoTag \/ arg.begin = NoTag \/ arg.end = arg.begin
      THEN arg.begin ELSE arg.end

BadArguments ==
    \/ arg.max >= 0 /\ arg.min > arg.max
    \/ arg.begin # NoTag /\ (arg.from # 0 \/ arg.to # 0)

TagsIgnored == arg.mode \in {"cat", "discard", "enumerate"}

\* The checks before the first file is opened.
CheckParameters ==
    /\ At("args")
    /\ IF BadArguments
         THEN Exit(1) /\ UNCHANGED opt
         ELSE /\ pc' = "open"
              /\ opt' = [opt EXCEPT
                    !.begin = IF TagsIgnored THEN NoTag ELSE @,
                    !.end   = IF TagsIgnored THEN NoTag ELSE NormalisedEndTag]
              /\ UNCHANGED exitCode
    /\ UNCHANGED <<input, arg, lineNo, ptr, marker, blk>>

\* Mutant: the last line is counted as line 0 from the end.
FromEndOffByOne(number) ==
    IF number < 0 THEN Len(input) + number ELSE number

\* A negative line number counts back from the end of the file.
FromEnd(number) ==
    IF number < 0 THEN Len(input) + number + 1 ELSE number

\* Opening the streams: an input file is line-counted first, standard input
\* cannot be; the modes that insert need an insert file.  Assumed: countLines()
\* reads to the end and rewind() works.  Neither is checked (lines 248 to 261):
\* after an error, or on a pipe, lines are missing from the count or the input.
OpenInput ==
    /\ At("open")
    /\ IF \/ ~opt.file /\ (opt.from < 0 \/ opt.to < 0)
          \/ opt.mode \in InsertModes /\ ~opt.insert
         THEN Exit(1) /\ UNCHANGED <<opt, marker>>
         ELSE /\ pc' = "read"
              /\ opt' = [opt EXCEPT !.from = FromEnd(@), !.to = FromEnd(@)]
              /\ marker' = opt.begin
              /\ UNCHANGED exitCode
    /\ UNCHANGED <<input, arg, lineNo, ptr, blk>>

-----------------------------------------------------------------------------
(* The loop over the lines.                                                *)

ReadLine ==
    /\ At("read")
    /\ lineNo < Len(input)
    /\ lineNo' = lineNo + 1
    /\ ptr' = 1
    /\ blk' = [blk EXCEPT !.handed = <<>>]
    /\ pc' = "line"
    /\ UNCHANGED <<input, arg, opt, marker, exitCode>>

\* getline() fails with an error.
ReadError ==
    /\ At("read")
    /\ Exit(1)
    /\ UNCHANGED <<input, arg, opt, lineNo, ptr, marker, blk>>

\* Mutant: one of the two limits is enough.
EndOfFileOneLimit ==
    /\ At("read")
    /\ lineNo = Len(input)
    /\ blk' = IF blk.in THEN ProcessMarked(blk, 1, 1, TRUE) ELSE blk
    /\ Exit(IF \/ opt.min < 0 \/ blk.actions >= opt.min
               \/ opt.max < 0 \/ blk.actions <= opt.max
              THEN 0 ELSE 1)
    /\ UNCHANGED <<input, arg, opt, lineNo, ptr, marker>>

\* The end of the input: a block that is still open ends here, and the
\* number of actions decides about the exit code.
EndOfFile ==
    /\ At("read")
    /\ lineNo = Len(input)
    /\ blk' = IF blk.in THEN ProcessMarked(blk, 1, 1, TRUE) ELSE blk
    /\ Exit(IF /\ opt.min < 0 \/ blk.actions >= opt.min
               /\ opt.max < 0 \/ blk.actions <= opt.max
              THEN 0 ELSE 1)
    /\ UNCHANGED <<input, arg, opt, lineNo, ptr, marker>>

(* Lines without tags.                                                     *)

InSelection ==
    /\ opt.from > 0
    /\ lineNo >= opt.from
    /\ opt.to = 0 \/ lineNo <= opt.to

SelectedLine ==
    /\ At("line") /\ marker = NoTag
    /\ InSelection
    /\ LET opened == IF lineNo = opt.from
                       THEN ProcessUnmarked(blk, 1, 1, TRUE) ELSE blk
           marked == ProcessMarked(opened, 1, EndOfLine, FALSE)
       IN  blk' = IF lineNo = opt.to
                    THEN ProcessMarked(marked, EndOfLine, EndOfLine, TRUE)
                    ELSE marked
    /\ pc' = "read"
    /\ UNCHANGED <<input, arg, opt, lineNo, ptr, marker, exitCode>>

PlainLine ==
    /\ At("line") /\ marker = NoTag
    /\ ~InSelection
    /\ blk' = ProcessUnmarked(blk, 1, EndOfLine, FALSE)
    /\ pc' = "read"
    /\ UNCHANGED <<input, arg, opt, lineNo, ptr, marker, exitCode>>

(* Lines with tags: one action for each way to handle a marker.            *)

SameTags == opt.begin = opt.end

NextMarker == Strstr(Line, ptr, marker)
Behind == NextMarker + Len(marker)

MarkerFound(tag) ==
    /\ At("line") /\ marker # NoTag
    /\ NextMarker # 0
    /\ marker = tag

\* Mutant: the pointer skips one character more.
ContinueTooFar(next, newMarker) ==
    /\ ptr' = next + 1
    /\ marker' = newMarker
    /\ pc' = IF opt.full THEN "rest" ELSE "line"
    /\ UNCHANGED <<input, arg, opt, lineNo, exitCode>>

\* With full-tag-lines the first marker ends the search in this line.
Continue(next, newMarker) ==
    /\ ptr' = next
    /\ marker' = newMarker
    /\ pc' = IF opt.full THEN "rest" ELSE "line"
    /\ UNCHANGED <<input, arg, opt, lineNo, exitCode>>

BeginOfFullLines ==
    /\ MarkerFound(opt.begin) /\ opt.full
    /\ blk' = IF opt.include
                THEN ProcessMarked(ProcessUnmarked(blk, 1, 1, TRUE),
                                   ptr, Behind, FALSE)
                ELSE ProcessUnmarked(blk, ptr, Behind, FALSE)
    /\ Continue(Behind, opt.end)

\* Mutant: equal tags do not end the block at once.
BeginOfTagsOnlyStaysOpen ==
    /\ MarkerFound(opt.begin) /\ ~opt.full
    /\ LET next == IF opt.include THEN NextMarker ELSE Behind
       IN  /\ blk' = ProcessUnmarked(blk, ptr, next, TRUE)
           /\ Continue(next, opt.end)

BeginOfTagsOnly ==
    /\ MarkerFound(opt.begin) /\ ~opt.full
    /\ LET next   == IF opt.include THEN NextMarker ELSE Behind
           opened == ProcessUnmarked(blk, ptr, next, TRUE)
       IN  /\ blk' = IF SameTags
                       THEN ProcessMarked(opened, next, Behind, TRUE)
                       ELSE opened
           /\ Continue(IF SameTags THEN Behind ELSE next, opt.end)

EndOfFullLines ==
    /\ MarkerFound(opt.end) /\ ~SameTags /\ opt.full
    /\ blk' = IF opt.include
                THEN ProcessMarked(blk, ptr, Behind, FALSE)
                ELSE ProcessUnmarked(ProcessMarked(blk, 1, 1, TRUE),
                                     ptr, Behind, FALSE)
    /\ Continue(Behind, opt.begin)

\* Mutant: the pointer is behind the tag even if the tag is not in the block.
EndOfTagsOnlyLosesTag ==
    /\ MarkerFound(opt.end) /\ ~SameTags /\ ~opt.full
    /\ LET next == IF opt.include THEN Behind ELSE NextMarker
       IN  /\ blk' = ProcessMarked(blk, ptr, next, TRUE)
           /\ Continue(Behind, opt.begin)

\* Mutant: the pointer is not moved.
EndOfTagsOnlyStandsStill ==
    /\ MarkerFound(opt.end) /\ ~SameTags /\ ~opt.full
    /\ LET next == IF opt.include THEN Behind ELSE NextMarker
       IN  /\ blk' = ProcessMarked(blk, ptr, next, TRUE)
           /\ Continue(ptr, opt.begin)

EndOfTagsOnly ==
    /\ MarkerFound(opt.end) /\ ~SameTags /\ ~opt.full
    /\ LET next == IF opt.include THEN Behind ELSE NextMarker
       IN  /\ blk' = ProcessMarked(blk, ptr, next, TRUE)
           /\ Continue(next, opt.begin)

EndLine(b) ==
    /\ blk' = b
    /\ pc' = "read"
    /\ UNCHANGED <<input, arg, opt, lineNo, ptr, marker, exitCode>>

\* The rest of a line whose first marker has been handled.
RestOfTagLine ==
    /\ At("rest")
    /\ IF opt.include
         THEN EndLine(ProcessMarked(blk, ptr, EndOfLine, marker = opt.begin))
       ELSE IF SameTags
         THEN EndLine(ProcessMarked(ProcessUnmarked(blk, ptr, EndOfLine, TRUE),
                                    EndOfLine, EndOfLine, TRUE))
         ELSE EndLine(ProcessUnmarked(blk, ptr, EndOfLine, marker = opt.end))

\* No (further) marker in the line.
RestOfLine ==
    /\ At("line") /\ marker # NoTag
    /\ NextMarker = 0
    /\ IF marker = opt.begin
         THEN EndLine(ProcessUnmarked(blk, ptr, EndOfLine, FALSE))
         ELSE EndLine(ProcessMarked(blk, ptr, EndOfLine, FALSE))

Terminated == pc = "exit" /\ UNCHANGED vars

-----------------------------------------------------------------------------

Next ==
    \/ CheckParameters \/ OpenInput
    \/ ReadLine \/ ReadError \/ EndOfFile
    \/ SelectedLine \/ PlainLine
    \/ BeginOfFullLines \/ BeginOfTagsOnly
    \/ EndOfFullLines \/ EndOfTagsOnly
    \/ RestOfTagLine \/ RestOfLine
    \/ Terminated

Spec == Init /\ [][Next]_vars

\* A single-threaded program on a finite input takes its steps.
FairSpec == Spec /\ WF_vars(Next)

-----------------------------------------------------------------------------
(* Properties.                                                             *)

PCs == {"args", "open", "read", "line", "rest", "exit"}

\* What is written beside the characters of the input.
Labels == {"INSERT", "{", "}", "#"}

BlockState ==
    [in : BOOLEAN, actions : Nat, out : Seq(Chars \cup Labels),
     handed : Seq(Chars), aborted : BOOLEAN]

\* Types: the options, the place in the line and the state of the blocks.
TypeOK ==
    /\ input \in Seq(Lines)
    /\ arg \in CommandLine
    /\ opt \in CommandLine
    /\ pc \in PCs
    /\ lineNo \in 0 .. Len(input)
    /\ ptr \in 1 .. EndOfLine
    /\ marker \in Tags
    /\ blk \in BlockState
    /\ exitCode \in {0, 1}

\* The assertions of processUnmarked() and processMarked() never fail: no
\* sequence of markers, special cases and postponed block ends hands over
\* text of the wrong kind, or a text of negative length
\* (text-block.c:283-284, 334-335).
AssertionsHold == ~blk.aborted

\* The pieces of a line that are handed to processUnmarked() and
\* processMarked() are the line: nothing is lost, doubled or reordered
\* (text-block.c:881-998).
LinesConserved == pc = "read" /\ lineNo > 0 => blk.handed = Line

\* Why the assertions hold: while a line is searched, the marker to be found
\* next tells whether a block is open; in the rest of a full tag line a block
\* is open if and only if tag lines belong to blocks; without tags the line
\* number tells.
Open(b) == b.in /\ ~b.aborted
Closed(b) == ~b.in /\ ~b.aborted

OpenIff(condition) == IF condition THEN Open(blk) ELSE Closed(blk)

SelectionOpenAfter(n) ==
    opt.from > 0 /\ n >= opt.from /\ (opt.to = 0 \/ n < opt.to)

BlockInv ==
    /\ AssertionsHold
    /\ pc = "args" => opt = arg
    /\ pc \in {"args", "open"} => lineNo = 0 /\ Closed(blk)
    /\ pc \in {"open", "read", "line", "rest"} =>
          (opt.begin = NoTag <=> opt.end = NoTag)
    /\ pc \in {"line", "rest"} => lineNo > 0
    /\ pc \in {"read", "line", "rest"} => marker \in {opt.begin, opt.end}
    /\ pc \in {"read", "line"} /\ opt.begin # NoTag =>
          OpenIff(~SameTags /\ marker = opt.end)
    /\ pc = "rest" => opt.begin # NoTag /\ OpenIff(opt.include)
    /\ pc = "read" /\ opt.begin = NoTag => OpenIff(SelectionOpenAfter(lineNo))
    /\ pc = "line" /\ opt.begin = NoTag =>
          OpenIff(SelectionOpenAfter(lineNo - 1))

\* Why lines are conserved: the text up to the pointer has been handed over.
HandedTo(b, position) == b.handed = SubSeq(Line, 1, position - 1)

LineInv ==
    /\ pc \in {"line", "rest"} => HandedTo(blk, ptr)
    /\ pc = "line" /\ opt.begin = NoTag => ptr = 1
    /\ LinesConserved

\* Within a line the pointer never goes back, and it stands still for at most
\* one of two markers: with include-tags for the begin marker, with
\* exclude-tags for the end marker, since then it stays in front of the tag
\* (text-block.c:904-906, 937-939).  The sum below grows with each marker, so
\* the search loop of a line ends.
Variant ==
    2 * ptr + (IF (marker = opt.begin) # opt.include THEN 1 ELSE 0)

ScanAdvances == [][pc = "line" /\ pc' = "line" => Variant' > Variant]_vars

\* The program ends, whatever the input.
Terminates == <>(pc = "exit")

=============================================================================
