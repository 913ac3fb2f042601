-------------------------- MODULE TextBlockManual --------------------------
(***************************************************************************)
(* What text-block promises (text-block.1), as a definition on the whole   *)
(* text at once: which intervals are marked blocks, and what each          *)
(* operation mode makes of them.  No line loop, no pointer, no state: the  *)
(* properties of module TextBlock compare the two.                         *)
(***************************************************************************)
EXTENDS TextBlock, SequencesExt

-----------------------------------------------------------------------------
(* The blocks.  An interval [from, to) holds the positions from .. to-1 of *)
(* the text.                                                               *)

Content == FlattenSeq(input)

\* Line i begins at LineStart[i] and ends before LineStart[i + 1].
LineStart ==
    [i \in 1 .. Len(input) + 1 |->
        Len(FlattenSeq(SubSeq(input, 1, i - 1))) + 1]

\* A marker is the tag itself, or the full line that contains the tag.
TagMarkers(tag) ==
    {[from |-> i, to |-> i + Len(tag)] : i \in Matches(Content, 1, tag)}

LineMarkers(tag) ==
    {[from |-> LineStart[i], to |-> LineStart[i + 1]] :
        i \in {j \in DOMAIN input : Matches(input[j], 1, tag) # {}}}

Markers(tag) == IF arg.full THEN LineMarkers(tag) ELSE TagMarkers(tag)

BeginMarkers == Markers(arg.begin)
EndMarkers == Markers(NormalisedEndTag)

From(markers, position) == {m \in markers : m.from >= position}
First(markers) ==
    CHOOSE m \in markers : \A n \in markers : m.from <= n.from

\* The block between a begin marker and the end marker behind it.
Between(b, e, include) ==
    [from |-> IF include THEN b.from ELSE b.to,
     to   |-> IF include THEN e.to ELSE e.from]

Point(position) == [from |-> position, to |-> position]

\* The end marker of the block that begins with b.  With identical tags every
\* marker is a block of its own, empty unless it includes the tag.  A block
\* without end marker ends with the text.
EndMarker(b, ends, same, size) ==
    IF same THEN Point(b.to)
    ELSE IF From(ends, b.to) = {} THEN Point(size + 1)
    ELSE First(From(ends, b.to))

\* The blocks behind each position of a text, from left to right: a begin
\* marker, the end marker behind it, and so on behind that end marker.
BlocksBehind(begins, ends, same, include, size) ==
    LET blocks[p \in 1 .. size + 1] ==
            LET b == First(From(begins, p))
                e == EndMarker(b, ends, same, size)
            IN  IF From(begins, p) = {} THEN <<>>
                ELSE <<Between(b, e, include)>> \o blocks[e.to]
    IN  blocks

SameMarkers == arg.begin = NormalisedEndTag

TagBlocks ==
    BlocksBehind(BeginMarkers, EndMarkers, SameMarkers, arg.include,
                 Len(Content))[1]

\* "A to_line of zero denotes marking until end of the file"; a negative
\* number counts back from the end.
NumberedLine(n) == IF n < 0 THEN Len(input) + 1 - (-n) ELSE n
FirstSelected == NumberedLine(arg.from)
LastSelected == IF arg.to = 0 THEN Len(input) ELSE NumberedLine(arg.to)

SelectedBlocks ==
    IF /\ FirstSelected \in DOMAIN input
       /\ FirstSelected <= LastSelected
    THEN <<[from |-> LineStart[FirstSelected],
            to   |-> IF LastSelected <= Len(input)
                       THEN LineStart[LastSelected + 1]
                       ELSE Len(Content) + 1]>>
    ELSE <<>>

Blocks ==
    IF TagsIgnored \/ arg.begin = NoTag THEN SelectedBlocks ELSE TagBlocks

-----------------------------------------------------------------------------
(* The output of each mode.                                                *)

Slice(from, to) == SubSeq(Content, from, to - 1)

\* The unmarked text before block i, and the text behind the last block.
GapStart(i) == IF i = 1 THEN 1 ELSE Blocks[i - 1].to

Gap(i) ==
    Slice(GapStart(i), IF i > Len(Blocks) THEN Len(Content) + 1 ELSE Blocks[i].from)

Inside(i) == Slice(Blocks[i].from, Blocks[i].to)

\* Each mode keeps or drops the unmarked text, keeps or drops the marked
\* text, and puts something before and behind each block.
KeepsUnmarked == arg.mode \notin {"discard", "extract"}
KeepsMarked == arg.mode \notin {"discard", "remove", "replace"}
Before == CASE arg.mode = "highlight" -> HighlightBegin
            [] arg.mode = "insertFront" -> InsertFile
            [] OTHER -> <<>>
After == CASE arg.mode = "highlight" -> HighlightEnd
             [] arg.mode \in {"insertBack", "replace"} -> InsertFile
             [] OTHER -> <<>>

BlockPiece(i) ==
    When(KeepsUnmarked, Gap(i)) \o Before \o When(KeepsMarked, Inside(i)) \o After

BlockOutput ==
    FlattenSeq([i \in 1 .. Len(Blocks) |-> BlockPiece(i)])
    \o When(KeepsUnmarked, Gap(Len(Blocks) + 1))

NumberedOutput ==
    FlattenSeq([i \in 1 .. Len(input) |-> Numeral(i) \o input[i]])

ManualOutput ==
    IF arg.mode = "enumerate" THEN NumberedOutput ELSE BlockOutput

-----------------------------------------------------------------------------
(* Where program and manual agree.                                         *)

\* No begin marker of the text shares a character with an end marker.  When
\* they do, as END-BLOCK holds BLOCK, the program searches a tag inside the
\* other one.
MarkersSeparate ==
    \/ TagsIgnored \/ arg.begin = NoTag \/ arg.full
    \/ SameMarkers
    \/ \A b \in BeginMarkers, e \in EndMarkers :
           b.to <= e.from \/ e.to <= b.from

\* No tag of the text goes on behind the end of a line.  The program reads
\* line by line and cannot see such a tag.
TagsWithinLines ==
    \/ TagsIgnored \/ arg.begin = NoTag \/ arg.full
    \/ \A m \in BeginMarkers \cup EndMarkers :
           \E i \in DOMAIN input :
               LineStart[i] <= m.from /\ m.to <= LineStart[i + 1]

Selecting == arg.from # 0 \/ arg.to # 0

\* cat and enumerate write no marked line, although the manual says of cat "copy
\* the input text as-is" (text-block.1:130).
SelectionHasEffect ==
    /\ Selecting
    /\ arg.mode \in {"cat", "enumerate"}

\* A negative to_line that counts back to just before the first line becomes
\* 0, which the program takes for the end of the file.
SelectionEndWraps == arg.to < 0 /\ LastSelected = 0

\* The texts and command lines the manual describes.
Described == MarkersSeparate /\ TagsWithinLines /\ ~SelectionEndWraps

Success == pc = "exit" /\ exitCode = 0

-----------------------------------------------------------------------------
(* Properties.                                                             *)

\* A run that reports success has written what the manual promises: the line
\* loop of main() with its pointer, its postponed block begins and ends and
\* its special cases for identical tags agrees with the blocks of the text as
\* a whole, in each mode (text-block.c:868-1014).
OutputAsManual ==
    Success /\ Described /\ ~SelectionHasEffect
        => blk.out = ManualOutput

\* A run that reports success has marked a number of blocks within the limits
\* of -m and -M (text-block.c:1015-1022), counted on the text as a whole.
ActionLimitsHold ==
    Success /\ Described
        => /\ arg.min < 0 \/ Len(Blocks) >= arg.min
           /\ arg.max < 0 \/ Len(Blocks) <= arg.max

\* "Only the text between the marker tags belongs to a block", and
\* "include-tags: marked text includes the begin/end tags" (text-block.1:152,
\* 163) for every pair of tags.  The code contradicts it when one tag
\* contains the other one: it looks for the second inside the first.
TagsOnlyAsManual ==
    Success /\ ~Selecting => blk.out = ManualOutput

=============================================================================
