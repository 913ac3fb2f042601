-------------------------- MODULE TextBlockProofs --------------------------
(***************************************************************************)
(* Proofs about the line processor of text-block, for all inputs, tags and *)
(* command lines.                                                          *)
(***************************************************************************)
EXTENDS TextBlock, TLAPS, SequenceTheorems, WellFoundedInduction

-----------------------------------------------------------------------------
(* Searching a tag.                                                        *)

\* A non-empty set of positions has a smallest element.
LEMMA SmallestPosition ==
  ASSUME NEW S, S \subseteq Nat, S # {}
  PROVE  \E i \in S : \A j \in S : i <= j
<1>1. PICK x \in S : \A y \in S : ~ (<<y, x>> \in OpToRel(<, Nat))
  BY NatLessThanWellFounded, WFMin
<1>2. \A y \in S : ~ (y < x)
  BY <1>1 DEF OpToRel
<1>. QED
  BY <1>2

\* strstr() returns a null pointer, or a match at the start pointer or behind
\* it that ends within the line.
LEMMA StrstrInLine ==
  ASSUME NEW line \in Seq(Chars), NEW start \in Nat \ {0},
         NEW tag \in Seq(Chars)
  PROVE  \/ Strstr(line, start, tag) = 0
         \/ /\ Strstr(line, start, tag) \in Nat
            /\ Strstr(line, start, tag) >= start
            /\ Strstr(line, start, tag) + Len(tag) <= Len(line) + 1
<1>. DEFINE found == Matches(line, start, tag)
<1>1. Len(line) \in Nat /\ Len(tag) \in Nat
  BY LenProperties
<1>2. \A i \in found : i \in Nat /\ i >= start /\ i + Len(tag) <= Len(line) + 1
  BY <1>1 DEF Matches
<1>3. CASE found = {}
  BY <1>3 DEF Strstr
<1>4. CASE found # {}
  <2>1. \E i \in found : \A j \in found : i <= j
    BY <1>2, <1>4, SmallestPosition
  <2>2. Strstr(line, start, tag) \in found
    BY <2>1, <1>4 DEF Strstr
  <2>. QED
    BY <2>2, <1>2
<1>. QED
  BY <1>3, <1>4

-----------------------------------------------------------------------------
(* Types.                                                                  *)

LEMMA LineType ==
  ASSUME TypeOK
  PROVE  Line \in Seq(Chars) /\ Len(Line) \in Nat /\ EndOfLine \in Nat \ {0}
<1>1. Line \in Seq(Chars)
  BY DEF TypeOK, Line, Lines
<1>. QED
  BY <1>1, LenProperties DEF EndOfLine

LEMMA TextType ==
  ASSUME TypeOK, NEW from \in 1 .. EndOfLine, NEW to \in 1 .. EndOfLine
  PROVE  Text(from, to) \in Seq(Chars)
<1>1. Line \in Seq(Chars) /\ Len(Line) \in Nat /\ EndOfLine = Len(Line) + 1
  BY LineType DEF EndOfLine
<1>2. from \in Int /\ to - 1 \in Int /\ \A i \in from .. to - 1 : i \in 1 .. Len(Line)
  BY <1>1
<1>3. \A i \in from .. to - 1 : Line[i] \in Chars
  BY <1>1, <1>2, ElementOfSeq
<1>. QED
  BY <1>2, <1>3, SubSeqProperties DEF Text

Output == Seq(Chars \cup Labels)

LEMMA OutputType ==
  /\ \A s \in Seq(Chars) : s \in Output
  /\ \A s, t \in Output : s \o t \in Output
  /\ \A s, t \in Seq(Chars) : s \o t \in Seq(Chars)
  /\ <<>> \in Output
  /\ InsertFile \in Output /\ HighlightBegin \in Output
  /\ HighlightEnd \in Output
  /\ \A n \in Nat : Numeral(n) \in Output
<1>1. \A s \in Seq(Chars) : s \in Output
  BY SeqMonotonic DEF Output
<1>2. \A n \in Nat : Numeral(n) \in Output
  <2>. TAKE n \in Nat
  <2>1. Numeral(n) \in [1 .. n -> Labels]
    BY DEF Numeral, Labels
  <2>2. Numeral(n) \in Seq(Labels)
    BY <2>1
  <2>. QED
    BY <2>2, SeqMonotonic DEF Output
<1>3. \A s, t \in Output : s \o t \in Output
  BY ConcatProperties DEF Output
<1>4. \A s, t \in Seq(Chars) : s \o t \in Seq(Chars)
  BY ConcatProperties
<1>5. InsertFile \in Output /\ HighlightBegin \in Output /\ HighlightEnd \in Output
  BY DEF InsertFile, HighlightBegin, HighlightEnd, Output, Labels
<1>6. <<>> \in Output
  BY DEF Output
<1>. QED
  BY <1>1, <1>2, <1>3, <1>4, <1>5, <1>6

LEMMA UnmarkedType ==
  ASSUME TypeOK, NEW b \in BlockState, NEW begin \in BOOLEAN,
         NEW from \in 1 .. EndOfLine, NEW to \in 1 .. EndOfLine
  PROVE  ProcessUnmarked(b, from, to, begin) \in BlockState
<1>. DEFINE text == Text(from, to)
<1>1. text \in Seq(Chars) /\ text \in Output
  BY TextType, OutputType
<1>2. lineNo \in Nat
  BY LenProperties DEF TypeOK
<1>3. UnmarkedOutput(text, begin) \in Output
  <2>. HIDE DEF text
  <2>. QED
    BY <1>1, <1>2, OutputType DEF UnmarkedOutput, When
<1>4. b.out \o UnmarkedOutput(text, begin) \in Output
  BY <1>3, OutputType DEF BlockState, Output
<1>5. b.handed \o text \in Seq(Chars)
  BY <1>1, OutputType DEF BlockState
<1>. QED
  BY <1>4, <1>5 DEF ProcessUnmarked, BlockState, Output

LEMMA MarkedType ==
  ASSUME TypeOK, NEW b \in BlockState, NEW end \in BOOLEAN,
         NEW from \in 1 .. EndOfLine, NEW to \in 1 .. EndOfLine
  PROVE  ProcessMarked(b, from, to, end) \in BlockState
<1>. DEFINE text == Text(from, to)
<1>1. text \in Seq(Chars) /\ text \in Output
  BY TextType, OutputType
<1>3. MarkedOutput(text, end) \in Output
  <2>. HIDE DEF text
  <2>. QED
    BY <1>1, OutputType DEF MarkedOutput, When
<1>4. b.out \o MarkedOutput(text, end) \in Output
  BY <1>3, OutputType DEF BlockState, Output
<1>5. b.handed \o text \in Seq(Chars)
  BY <1>1, OutputType DEF BlockState
<1>. QED
  BY <1>4, <1>5 DEF ProcessMarked, BlockState, Output

\* The pointers a marker gives lie in the line, and the end of the marker lies
\* behind its begin.
LEMMA MarkerInLine ==
  ASSUME TypeOK, NEW tag, MarkerFound(tag)
  PROVE  /\ NextMarker \in ptr .. EndOfLine
         /\ Behind \in ptr .. EndOfLine
         /\ Behind > NextMarker
<1>1. Line \in Seq(Chars) /\ Len(Line) \in Nat /\ EndOfLine = Len(Line) + 1
  BY LineType DEF EndOfLine
<1>2. ptr \in Nat \ {0} /\ marker \in Seq(Chars)
  BY <1>1 DEF TypeOK, Tags
<1>3. Len(marker) \in Nat /\ Len(marker) > 0
  BY <1>2, EmptySeq, LenProperties DEF MarkerFound, NoTag
<1>4. /\ NextMarker \in Nat
      /\ NextMarker >= ptr
      /\ NextMarker + Len(marker) <= Len(Line) + 1
  BY <1>1, <1>2, StrstrInLine DEF NextMarker, MarkerFound
<1>. QED
  BY <1>1, <1>2, <1>3, <1>4 DEF Behind

LEMMA NormalisedEndTagType ==
  ASSUME TypeOK
  PROVE  NormalisedEndTag \in Tags /\ NoTag \in Tags
BY DEF TypeOK, CommandLine, NormalisedEndTag, NoTag, Tags

LEMMA FromEndType ==
  ASSUME TypeOK, NEW n \in Int
  PROVE  FromEnd(n) \in Int
<1>1. Len(input) \in Nat
  BY LenProperties DEF TypeOK
<1>. QED
  BY <1>1 DEF FromEnd

\* The steps within a line change the pointer, the marker and the block state
\* only, and keep their types.
LEMMA LineStepType ==
  ASSUME TypeOK, UNCHANGED <<input, arg, opt, lineNo>>,
         pc' \in PCs, ptr' \in 1 .. EndOfLine,
         marker' \in Tags,
         blk' \in BlockState, exitCode' \in {0, 1}
  PROVE  TypeOK'
<1>1. EndOfLine' = EndOfLine
  BY DEF EndOfLine, Line
<1>. QED
  BY <1>1 DEF TypeOK

\* The state of the program keeps its type.
LEMMA TypeStep == TypeOK /\ [Next]_vars => TypeOK'
<1>. SUFFICES ASSUME TypeOK, [Next]_vars
              PROVE  TypeOK'
  OBVIOUS
<1>. USE DEF PCs, Exit
<1>p. /\ ptr \in 1 .. EndOfLine
      /\ EndOfLine \in Nat \ {0}
      /\ blk \in BlockState
      /\ opt \in CommandLine
      /\ marker \in Tags /\ opt.begin \in Tags /\ opt.end \in Tags
      /\ exitCode \in {0, 1}
  BY LineType DEF TypeOK, CommandLine
<1>q. 1 \in 1 .. EndOfLine /\ EndOfLine \in 1 .. EndOfLine
  BY <1>p
<1>1. CASE CheckParameters
  <2>1. opt' \in CommandLine
    BY <1>1, <1>p, NormalisedEndTagType DEF CheckParameters, CommandLine
  <2>3. EndOfLine' = EndOfLine
    BY <1>1 DEF CheckParameters, EndOfLine, Line
  <2>. QED
    BY <1>1, <2>1, <2>3 DEF CheckParameters, TypeOK
<1>2. CASE OpenInput
  <2>1. opt' \in CommandLine /\ opt'.begin = opt.begin /\ opt'.end = opt.end
    BY <1>2, <1>p, FromEndType DEF OpenInput, CommandLine
  <2>3. EndOfLine' = EndOfLine
    BY <1>2 DEF OpenInput, EndOfLine, Line
  <2>. QED
    BY <1>2, <1>p, <2>1, <2>3 DEF OpenInput, TypeOK
<1>3. CASE ReadLine
  <2>1. Len(input) \in Nat /\ lineNo' \in 1 .. Len(input) /\ input' = input
    BY <1>3, LenProperties DEF ReadLine, TypeOK
  <2>2. Line' \in Seq(Chars)
    BY <2>1 DEF TypeOK, Line, Lines
  <2>3. 1 \in 1 .. EndOfLine'
    BY <2>2, LenProperties DEF EndOfLine
  <2>4. blk' \in BlockState
    BY <1>3, <1>p, EmptySeq DEF ReadLine, BlockState
  <2>. QED
    BY <1>3, <2>1, <2>3, <2>4 DEF ReadLine, TypeOK
<1>4. CASE ReadError
  BY <1>4, <1>p, LineStepType DEF ReadError
<1>5. CASE EndOfFile
  <2>1. blk' \in BlockState
    BY <1>5, <1>p, <1>q, MarkedType DEF EndOfFile
  <2>. QED
    BY <1>5, <2>1, <1>p, LineStepType DEF EndOfFile
<1>6. CASE SelectedLine
  <2>. DEFINE opened == IF lineNo = opt.from
                          THEN ProcessUnmarked(blk, 1, 1, TRUE) ELSE blk
              marked == ProcessMarked(opened, 1, EndOfLine, FALSE)
  <2>1. opened \in BlockState
    BY <1>p, <1>q, UnmarkedType
  <2>2. marked \in BlockState
    BY <2>1, <1>q, MarkedType
  <2>3. ProcessMarked(marked, EndOfLine, EndOfLine, TRUE) \in BlockState
    BY <2>2, <1>q, MarkedType
  <2>4. blk' \in BlockState
    BY <1>6, <2>2, <2>3 DEF SelectedLine
  <2>. QED
    BY <1>6, <2>4, <1>p, LineStepType DEF SelectedLine
<1>7. CASE PlainLine
  <2>1. blk' \in BlockState
    BY <1>7, <1>p, <1>q, UnmarkedType DEF PlainLine
  <2>. QED
    BY <1>7, <2>1, <1>p, LineStepType DEF PlainLine
<1>8. CASE BeginOfFullLines
  <2>1. Behind \in 1 .. EndOfLine
    BY <1>8, <1>p, MarkerInLine DEF BeginOfFullLines
  <2>2. ProcessUnmarked(blk, 1, 1, TRUE) \in BlockState
    BY <1>p, <1>q, UnmarkedType
  <2>3. blk' \in BlockState
    BY <1>8, <2>1, <2>2, <1>p, UnmarkedType, MarkedType DEF BeginOfFullLines
  <2>. QED
    BY <1>8, <2>1, <2>3, <1>p, LineStepType DEF BeginOfFullLines, Continue
<1>9. CASE BeginOfTagsOnly
  <2>. DEFINE next   == IF opt.include THEN NextMarker ELSE Behind
              opened == ProcessUnmarked(blk, ptr, next, TRUE)
  <2>1. Behind \in 1 .. EndOfLine /\ next \in 1 .. EndOfLine
    BY <1>9, <1>p, MarkerInLine DEF BeginOfTagsOnly
  <2>2. opened \in BlockState
    BY <2>1, <1>p, UnmarkedType
  <2>3. ProcessMarked(opened, next, Behind, TRUE) \in BlockState
    BY <2>1, <2>2, MarkedType
  <2>4. blk' \in BlockState
    BY <1>9, <2>2, <2>3 DEF BeginOfTagsOnly
  <2>. QED
    BY <1>9, <2>1, <2>4, <1>p, LineStepType DEF BeginOfTagsOnly, Continue
<1>10. CASE EndOfFullLines
  <2>1. Behind \in 1 .. EndOfLine
    BY <1>10, <1>p, MarkerInLine DEF EndOfFullLines
  <2>2. ProcessMarked(blk, 1, 1, TRUE) \in BlockState
    BY <1>p, <1>q, MarkedType
  <2>3. blk' \in BlockState
    BY <1>10, <2>1, <2>2, <1>p, UnmarkedType, MarkedType DEF EndOfFullLines
  <2>. QED
    BY <1>10, <2>1, <2>3, <1>p, LineStepType DEF EndOfFullLines, Continue
<1>11. CASE EndOfTagsOnly
  <2>. DEFINE next == IF opt.include THEN Behind ELSE NextMarker
  <2>1. next \in 1 .. EndOfLine
    BY <1>11, <1>p, MarkerInLine DEF EndOfTagsOnly
  <2>2. blk' \in BlockState
    BY <1>11, <2>1, <1>p, MarkedType DEF EndOfTagsOnly
  <2>. QED
    BY <1>11, <2>1, <2>2, <1>p, LineStepType DEF EndOfTagsOnly, Continue
<1>12. CASE RestOfTagLine
  <2>1. ProcessUnmarked(blk, ptr, EndOfLine, TRUE) \in BlockState
    BY <1>p, <1>q, UnmarkedType
  <2>2. ProcessMarked(blk, ptr, EndOfLine, marker = opt.begin) \in BlockState
    BY <1>p, <1>q, MarkedType
  <2>3. ProcessUnmarked(blk, ptr, EndOfLine, marker = opt.end) \in BlockState
    BY <1>p, <1>q, UnmarkedType
  <2>4. ProcessMarked(ProcessUnmarked(blk, ptr, EndOfLine, TRUE),
                      EndOfLine, EndOfLine, TRUE) \in BlockState
    BY <2>1, <1>q, MarkedType
  <2>5. blk' \in BlockState
    BY <1>12, <2>2, <2>3, <2>4 DEF RestOfTagLine, EndLine
  <2>. QED
    BY <1>12, <2>5, <1>p, LineStepType DEF RestOfTagLine, EndLine
<1>13. CASE RestOfLine
  <2>1. blk' \in BlockState
    BY <1>13, <1>p, <1>q, UnmarkedType, MarkedType DEF RestOfLine, EndLine
  <2>. QED
    BY <1>13, <2>1, <1>p, LineStepType DEF RestOfLine, EndLine
<1>14. CASE UNCHANGED vars
  BY <1>14, <1>p, LineStepType DEF vars, TypeOK
<1>. QED
  BY <1>1, <1>2, <1>3, <1>4, <1>5, <1>6, <1>7, <1>8, <1>9, <1>10, <1>11,
     <1>12, <1>13, <1>14 DEF Next, Terminated

LEMMA TypeInit == Init => TypeOK
<1>. SUFFICES ASSUME Init PROVE TypeOK
  OBVIOUS
<1>1. input \in Seq(Lines) /\ arg \in CommandLine
  BY InputsAssumption, CommandLinesAssumption DEF Init
<1>2. Len(input) \in Nat
  BY <1>1, LenProperties
<1>3. EndOfLine = 1
  BY EmptySeq DEF EndOfLine, Line, Init
<1>4. NoTag \in Tags /\ <<>> \in Seq(Chars) /\ <<>> \in Seq(Chars \cup Labels)
  BY DEF NoTag, Tags
<1>5. blk \in BlockState
  BY <1>4 DEF Init, BlockState
<1>. QED
  BY <1>1, <1>2, <1>3, <1>4, <1>5 DEF Init, TypeOK, PCs

\* The state keeps its type for all inputs and all command lines; in
\* particular no pointer leaves the line buffer.
THEOREM TypeCorrect == Spec => []TypeOK
BY TypeInit, TypeStep, PTL DEF Spec

-----------------------------------------------------------------------------
(* The assertions.                                                         *)

\* Handing over unmarked text while no block is open, and marked text while
\* one is, fails no assertion; the flag says whether a block is open then.
LEMMA UnmarkedHandedOver ==
  ASSUME NEW b \in BlockState, Closed(b), NEW begin \in BOOLEAN,
         NEW from \in Nat, NEW to \in Nat, from <= to
  PROVE  IF begin THEN Open(ProcessUnmarked(b, from, to, begin))
                  ELSE Closed(ProcessUnmarked(b, from, to, begin))
BY DEF ProcessUnmarked, BlockState, Open, Closed

LEMMA MarkedHandedOver ==
  ASSUME NEW b \in BlockState, Open(b), NEW end \in BOOLEAN,
         NEW from \in Nat, NEW to \in Nat, from <= to
  PROVE  IF end THEN Closed(ProcessMarked(b, from, to, end))
                ELSE Open(ProcessMarked(b, from, to, end))
BY DEF ProcessMarked, BlockState, Open, Closed

\* The same for a text of the line buffer, with the types.
Openable(b) == b \in BlockState /\ Closed(b)
Closeable(b) == b \in BlockState /\ Open(b)

LEMMA Handing ==
  ASSUME TypeOK, NEW b, NEW from, NEW to, NEW flag,
         from \in 1 .. EndOfLine, to \in 1 .. EndOfLine, from <= to,
         flag \in BOOLEAN
  PROVE  /\ Openable(b) /\ flag => Closeable(ProcessUnmarked(b, from, to, flag))
         /\ Openable(b) /\ ~flag => Openable(ProcessUnmarked(b, from, to, flag))
         /\ Closeable(b) /\ flag => Openable(ProcessMarked(b, from, to, flag))
         /\ Closeable(b) /\ ~flag => Closeable(ProcessMarked(b, from, to, flag))
<1>1. from \in Nat /\ to \in Nat
  OBVIOUS
<1>. QED
  BY <1>1, UnmarkedType, MarkedType, UnmarkedHandedOver, MarkedHandedOver
     DEF Openable, Closeable


\* Block state and marker stay in step.
LEMMA BlockStep == TypeOK /\ BlockInv /\ [Next]_vars => BlockInv'
<1>. SUFFICES ASSUME TypeOK, BlockInv, [Next]_vars
              PROVE  BlockInv'
  OBVIOUS
<1>. USE DEF Exit, At
<1>p. /\ ptr \in 1 .. EndOfLine
      /\ EndOfLine \in Nat \ {0}
      /\ blk \in BlockState
      /\ opt.include \in BOOLEAN /\ opt.full \in BOOLEAN
      /\ opt.from \in Int /\ opt.to \in Int
      /\ lineNo \in Nat
  BY LineType, LenProperties DEF TypeOK, CommandLine
<1>q. /\ 1 \in 1 .. EndOfLine /\ EndOfLine \in 1 .. EndOfLine
      /\ 1 <= EndOfLine /\ ptr <= EndOfLine /\ 1 <= 1
      /\ EndOfLine <= EndOfLine
      /\ TRUE \in BOOLEAN /\ FALSE \in BOOLEAN
  BY <1>p
<1>o. /\ Openable(blk) <=> Closed(blk)
      /\ Closeable(blk) <=> Open(blk)
  BY <1>p DEF Openable, Closeable
<1>r. /\ AssertionsHold <=> ~blk.aborted
      /\ \A b : Openable(b) \/ Closeable(b) => ~b.aborted
  BY DEF AssertionsHold, Openable, Closeable, Open, Closed
<1>1. CASE CheckParameters
  <2>1. /\ blk' = blk /\ lineNo' = lineNo /\ pc' \in {"exit", "open"}
        /\ lineNo = 0 /\ Closed(blk)
    BY <1>1 DEF CheckParameters, BlockInv
  <2>2. pc' = "open" => (opt'.begin = NoTag <=> opt'.end = NoTag)
    <3>. SUFFICES ASSUME pc' = "open"
                  PROVE  opt'.begin = NoTag <=> opt'.end = NoTag
      OBVIOUS
    <3>1. opt = arg /\ opt \in CommandLine
      BY <1>1 DEF CheckParameters, BlockInv, TypeOK
    <3>2. /\ opt'.begin = IF TagsIgnored THEN NoTag ELSE opt.begin
          /\ opt'.end = IF TagsIgnored THEN NoTag ELSE NormalisedEndTag
      BY <1>1, <3>1 DEF CheckParameters, CommandLine
    <3>. QED
      BY <3>1, <3>2 DEF NormalisedEndTag
  <2>. QED
    BY <2>1, <2>2 DEF BlockInv, AssertionsHold, Closed
<1>2. CASE OpenInput
  <2>1. /\ UNCHANGED <<blk, lineNo>> /\ pc' \in {"exit", "read"}
        /\ lineNo = 0 /\ Closed(blk) /\ ~blk.aborted
        /\ opt.begin = NoTag <=> opt.end = NoTag
    BY <1>2 DEF OpenInput, BlockInv, Closed
  <2>2. opt'.begin = opt.begin /\ opt'.end = opt.end
    BY <1>2 DEF OpenInput, TypeOK, CommandLine
  <2>3. pc' = "read" => marker' = opt.begin
    BY <1>2 DEF OpenInput
  <2>4. opt'.from \in Int
    BY <1>2, <1>p, FromEndType DEF OpenInput, TypeOK, CommandLine
  <2>5. ~SelectionOpenAfter(lineNo)'
    BY <2>1, <2>4 DEF SelectionOpenAfter
  <2>. QED
    BY <2>1, <2>2, <2>3, <2>5
       DEF BlockInv, SameTags, AssertionsHold, OpenIff, Closed
<1>3. CASE ReadLine
  <2>1. Open(blk') = Open(blk) /\ Closed(blk') = Closed(blk)
        /\ blk'.aborted = blk.aborted
    BY <1>3, <1>p DEF ReadLine, BlockState, Open, Closed
  <2>2. lineNo' > 0 /\ lineNo' - 1 = lineNo
    BY <1>3, <1>p DEF ReadLine
  <2>3. SelectionOpenAfter(lineNo - 1)' = SelectionOpenAfter(lineNo)
    BY <1>3, <2>2 DEF ReadLine, SelectionOpenAfter
  <2>. QED
    BY <1>3, <2>1, <2>2, <2>3
       DEF ReadLine, BlockInv, SameTags, AssertionsHold, OpenIff
<1>4. CASE ReadError
  BY <1>4 DEF ReadError, BlockInv, AssertionsHold
<1>5. CASE EndOfFile
  <2>1. blk.in <=> ~Closed(blk)
    BY <1>5 DEF Closed, EndOfFile
  <2>2. Open(blk) \/ Closed(blk)
    BY <1>5, <1>p DEF Open, Closed, BlockInv, AssertionsHold, BlockState
  <2>3. Openable(blk')
    BY <1>5, <2>1, <2>2, <1>q, <1>o, Handing DEF EndOfFile
  <2>. QED
    BY <1>5, <2>3, <1>r DEF EndOfFile, BlockInv, AssertionsHold
<1>6. CASE SelectedLine
  <2>. DEFINE opened == IF lineNo = opt.from
                          THEN ProcessUnmarked(blk, 1, 1, TRUE) ELSE blk
              marked == ProcessMarked(opened, 1, EndOfLine, FALSE)
              closed == ProcessMarked(marked, EndOfLine, EndOfLine, TRUE)
  <2>0. /\ opt.begin = NoTag /\ opt.end = NoTag /\ marker = NoTag
        /\ lineNo > 0 /\ pc' = "read" /\ UNCHANGED <<opt, lineNo, marker>>
    BY <1>6 DEF SelectedLine, BlockInv
  <2>1. IF lineNo = opt.from THEN Openable(blk) ELSE Closeable(blk)
    BY <1>6, <1>p, <1>o, <2>0
       DEF SelectedLine, BlockInv, InSelection, SelectionOpenAfter, OpenIff
  <2>2. Closeable(opened)
    BY <2>1, <1>q, Handing
  <2>3. Closeable(marked)
    <3>. HIDE DEF opened
    <3>. QED
      BY <2>2, <1>q, Handing
  <2>4. Openable(closed)
    <3>. HIDE DEF marked
    <3>. QED
      BY <2>3, <1>q, Handing
  <2>5. IF lineNo = opt.to THEN Openable(blk') ELSE Closeable(blk')
    <3>1. blk' = IF lineNo = opt.to THEN closed ELSE marked
      BY <1>6 DEF SelectedLine
    <3>. HIDE DEF closed, marked
    <3>. QED
      BY <3>1, <2>3, <2>4
  <2>6. SelectionOpenAfter(lineNo)' <=> lineNo # opt.to
    BY <1>6, <1>p, <2>0 DEF SelectedLine, InSelection, SelectionOpenAfter
  <2>. QED
    BY <2>0, <2>5, <2>6
       DEF BlockInv, OpenIff, Openable, Closeable, Open, Closed, AssertionsHold
<1>7. CASE PlainLine
  <2>0. /\ opt.begin = NoTag /\ opt.end = NoTag /\ marker = NoTag
        /\ lineNo > 0 /\ pc' = "read" /\ UNCHANGED <<opt, lineNo, marker>>
    BY <1>7 DEF PlainLine, BlockInv
  <2>1. Openable(blk)
    BY <1>7, <1>p, <1>o, <2>0
       DEF PlainLine, BlockInv, InSelection, SelectionOpenAfter, OpenIff
  <2>2. Openable(blk')
    BY <1>7, <1>q, <2>1, Handing DEF PlainLine
  <2>3. ~SelectionOpenAfter(lineNo)'
    BY <1>7, <1>p, <2>0 DEF PlainLine, InSelection, SelectionOpenAfter
  <2>. QED
    BY <2>0, <2>2, <2>3
       DEF BlockInv, OpenIff, Openable, Closed, AssertionsHold
<1>8. CASE BeginOfFullLines
  <2>0. /\ opt.begin # NoTag /\ opt.end # NoTag /\ Openable(blk)
        /\ pc' = "rest" /\ marker' = opt.end /\ lineNo > 0
        /\ UNCHANGED <<opt, lineNo>>
    BY <1>8, <1>o
       DEF BeginOfFullLines, MarkerFound, Continue, BlockInv, SameTags, OpenIff
  <2>1. Behind \in 1 .. EndOfLine /\ ptr <= Behind
    BY <1>8, <1>p, MarkerInLine DEF BeginOfFullLines
  <2>. DEFINE opened == ProcessUnmarked(blk, 1, 1, TRUE)
  <2>2. Closeable(opened)
    BY <2>0, <1>q, Handing
  <2>3. Closeable(ProcessMarked(opened, ptr, Behind, FALSE))
    <3>. HIDE DEF opened
    <3>. QED
      BY <2>1, <2>2, <1>p, <1>q, Handing
  <2>4. Openable(ProcessUnmarked(blk, ptr, Behind, FALSE))
    BY <2>0, <2>1, <1>p, <1>q, Handing
  <2>5. IF opt.include THEN Closeable(blk') ELSE Openable(blk')
    BY <1>8, <2>3, <2>4 DEF BeginOfFullLines
  <2>. QED
    BY <2>0, <2>5
       DEF BlockInv, OpenIff, Openable, Closeable, Open, Closed, AssertionsHold
<1>9. CASE BeginOfTagsOnly
  <2>. DEFINE next   == IF opt.include THEN NextMarker ELSE Behind
              opened == ProcessUnmarked(blk, ptr, next, TRUE)
              closed == ProcessMarked(opened, next, Behind, TRUE)
  <2>0. /\ opt.begin # NoTag /\ opt.end # NoTag /\ Openable(blk)
        /\ pc' = "line" /\ marker' = opt.end /\ lineNo > 0
        /\ UNCHANGED <<opt, lineNo>>
    BY <1>9, <1>o
       DEF BeginOfTagsOnly, MarkerFound, Continue, BlockInv, SameTags, OpenIff
  <2>1. /\ next \in 1 .. EndOfLine /\ Behind \in 1 .. EndOfLine
        /\ ptr <= next /\ next <= Behind
    BY <1>9, <1>p, MarkerInLine DEF BeginOfTagsOnly
  <2>2. blk' = IF SameTags THEN closed ELSE opened
    BY <1>9 DEF BeginOfTagsOnly
  <2>. HIDE DEF next
  <2>3. Closeable(opened)
    BY <2>0, <2>1, <1>p, <1>q, Handing
  <2>. HIDE DEF opened
  <2>4. Openable(closed)
    BY <2>1, <2>3, <1>q, Handing
  <2>. HIDE DEF closed
  <2>. QED
    BY <2>0, <2>2, <2>3, <2>4
       DEF BlockInv, SameTags, OpenIff, Openable, Closeable, Open, Closed,
           AssertionsHold
<1>10. CASE EndOfFullLines
  <2>0. /\ opt.begin # NoTag /\ opt.end # NoTag /\ Closeable(blk)
        /\ pc' = "rest" /\ marker' = opt.begin /\ lineNo > 0
        /\ UNCHANGED <<opt, lineNo>>
    BY <1>10, <1>o
       DEF EndOfFullLines, MarkerFound, Continue, BlockInv, SameTags, OpenIff
  <2>1. Behind \in 1 .. EndOfLine /\ ptr <= Behind
    BY <1>10, <1>p, MarkerInLine DEF EndOfFullLines
  <2>. DEFINE closed == ProcessMarked(blk, 1, 1, TRUE)
  <2>2. Openable(closed)
    BY <2>0, <1>q, Handing
  <2>3. Openable(ProcessUnmarked(closed, ptr, Behind, FALSE))
    <3>. HIDE DEF closed
    <3>. QED
      BY <2>1, <2>2, <1>p, <1>q, Handing
  <2>4. Closeable(ProcessMarked(blk, ptr, Behind, FALSE))
    BY <2>0, <2>1, <1>p, <1>q, Handing
  <2>5. IF opt.include THEN Closeable(blk') ELSE Openable(blk')
    BY <1>10, <2>3, <2>4 DEF EndOfFullLines
  <2>. QED
    BY <2>0, <2>5
       DEF BlockInv, OpenIff, Openable, Closeable, Open, Closed, AssertionsHold
<1>11. CASE EndOfTagsOnly
  <2>. DEFINE next == IF opt.include THEN Behind ELSE NextMarker
  <2>0. /\ opt.begin # NoTag /\ opt.end # NoTag /\ Closeable(blk)
        /\ ~SameTags /\ pc' = "line" /\ marker' = opt.begin /\ lineNo > 0
        /\ UNCHANGED <<opt, lineNo>>
    BY <1>11, <1>o
       DEF EndOfTagsOnly, MarkerFound, Continue, BlockInv, SameTags, OpenIff
  <2>1. next \in 1 .. EndOfLine /\ ptr <= next
    BY <1>11, <1>p, MarkerInLine DEF EndOfTagsOnly
  <2>2. blk' = ProcessMarked(blk, ptr, next, TRUE)
    BY <1>11 DEF EndOfTagsOnly
  <2>. HIDE DEF next
  <2>3. Openable(blk')
    BY <2>0, <2>1, <2>2, <1>p, <1>q, Handing
  <2>. QED
    BY <2>0, <2>3 DEF BlockInv, SameTags, OpenIff, Openable, Closed, AssertionsHold
<1>12. CASE RestOfTagLine
  <2>0. /\ opt.begin # NoTag /\ opt.end # NoTag /\ lineNo > 0
        /\ IF opt.include THEN Closeable(blk) ELSE Openable(blk)
        /\ pc' = "read" /\ marker \in {opt.begin, opt.end}
        /\ UNCHANGED <<opt, lineNo, marker>>
    BY <1>12, <1>o DEF RestOfTagLine, EndLine, BlockInv, OpenIff
  <2>1. CASE opt.include
    <3>. DEFINE flag == marker = opt.begin
    <3>1. blk' = ProcessMarked(blk, ptr, EndOfLine, flag)
      BY <1>12, <2>1 DEF RestOfTagLine, EndLine
    <3>2. flag \in BOOLEAN
      OBVIOUS
    <3>3. flag <=> marker = opt.begin
      OBVIOUS
    <3>. HIDE DEF flag
    <3>4. IF flag THEN Openable(blk') ELSE Closeable(blk')
      BY <2>0, <2>1, <3>1, <3>2, <1>p, <1>q, Handing
    <3>. QED
      BY <2>0, <3>3, <3>4
         DEF BlockInv, SameTags, OpenIff, Openable, Closeable, Open, Closed,
             AssertionsHold
  <2>2. CASE ~opt.include /\ SameTags
    <3>. DEFINE opened == ProcessUnmarked(blk, ptr, EndOfLine, TRUE)
    <3>1. blk' = ProcessMarked(opened, EndOfLine, EndOfLine, TRUE)
      BY <1>12, <2>2 DEF RestOfTagLine, EndLine
    <3>2. Closeable(opened)
      BY <2>0, <2>2, <1>p, <1>q, Handing
    <3>. HIDE DEF opened
    <3>3. Openable(blk')
      BY <3>1, <3>2, <1>q, Handing
    <3>. QED
      BY <2>0, <2>2, <3>3
         DEF BlockInv, SameTags, OpenIff, Openable, Closed, AssertionsHold
  <2>3. CASE ~opt.include /\ ~SameTags
    <3>. DEFINE flag == marker = opt.end
    <3>1. blk' = ProcessUnmarked(blk, ptr, EndOfLine, flag)
      BY <1>12, <2>3 DEF RestOfTagLine, EndLine
    <3>2. flag \in BOOLEAN
      OBVIOUS
    <3>3. flag <=> marker = opt.end
      OBVIOUS
    <3>. HIDE DEF flag
    <3>4. IF flag THEN Closeable(blk') ELSE Openable(blk')
      BY <2>0, <2>3, <3>1, <3>2, <1>p, <1>q, Handing
    <3>. QED
      BY <2>0, <2>3, <3>3, <3>4
         DEF BlockInv, SameTags, OpenIff, Openable, Closeable, Open, Closed,
             AssertionsHold
  <2>. QED
    BY <2>1, <2>2, <2>3, <1>p
<1>13. CASE RestOfLine
  <2>0. /\ opt.begin # NoTag /\ opt.end # NoTag /\ lineNo > 0
        /\ marker \in {opt.begin, opt.end}
        /\ IF marker = opt.begin THEN Openable(blk) ELSE Closeable(blk)
        /\ pc' = "read" /\ UNCHANGED <<opt, lineNo, marker>>
    BY <1>13, <1>o DEF RestOfLine, EndLine, BlockInv, OpenIff, SameTags
  <2>1. IF marker = opt.begin THEN Openable(blk') ELSE Closeable(blk')
    <3>1. CASE marker = opt.begin
      BY <1>13, <2>0, <3>1, <1>p, <1>q, Handing DEF RestOfLine, EndLine
    <3>2. CASE marker # opt.begin
      BY <1>13, <2>0, <3>2, <1>p, <1>q, Handing DEF RestOfLine, EndLine
    <3>. QED
      BY <3>1, <3>2
  <2>. QED
    BY <2>0, <2>1
       DEF BlockInv, SameTags, OpenIff, Openable, Closeable, Open, Closed,
           AssertionsHold
<1>14. CASE UNCHANGED vars
  BY <1>14 DEF vars, BlockInv, SelectionOpenAfter, SameTags, OpenIff, AssertionsHold
<1>. QED
  BY <1>1, <1>2, <1>3, <1>4, <1>5, <1>6, <1>7, <1>8, <1>9, <1>10, <1>11,
     <1>12, <1>13, <1>14 DEF Next, Terminated

LEMMA BlockInit == Init => BlockInv
BY DEF Init, BlockInv, AssertionsHold, Closed

\* The asserts of processUnmarked() and processMarked() hold for all inputs,
\* all tags and all command lines.
THEOREM AssertionsNeverFail == Spec => []AssertionsHold
<1>1. BlockInv => AssertionsHold
  BY DEF BlockInv
<1>. QED
  BY <1>1, BlockInit, BlockStep, TypeInit, TypeStep, PTL DEF Spec


-----------------------------------------------------------------------------
(* Every line is handed over as it is.                                     *)

\* Handing over the text from the pointer on.
LEMMA HandOver ==
  ASSUME TypeOK, NEW b, NEW from, NEW to, NEW flag, b.handed \in Seq(Chars),
         from \in 1 .. EndOfLine, to \in 1 .. EndOfLine, from <= to,
         HandedTo(b, from)
  PROVE  /\ HandedTo(ProcessUnmarked(b, from, to, flag), to)
         /\ HandedTo(ProcessMarked(b, from, to, flag), to)
<1>1. Line \in Seq(Chars) /\ Len(Line) \in Nat /\ EndOfLine = Len(Line) + 1
  BY LineType DEF EndOfLine
<1>2. /\ ProcessUnmarked(b, from, to, flag).handed = b.handed \o Text(from, to)
      /\ ProcessMarked(b, from, to, flag).handed = b.handed \o Text(from, to)
  BY DEF ProcessUnmarked, ProcessMarked
<1>3. /\ from - 1 \in 0 .. Len(Line) /\ to - 1 \in from - 1 .. Len(Line)
      /\ (from - 1) + 1 = from
      /\ 1 \in 1 .. Len(Line) + 1 /\ 1 - 1 = 0
  BY <1>1
<1>4. SubSeq(Line, 1, from - 1) \o SubSeq(Line, (from - 1) + 1, to - 1)
        = SubSeq(Line, 1, to - 1)
  BY <1>1, <1>3, ConcatAdjacentSubSeq
<1>. QED
  BY <1>2, <1>3, <1>4 DEF HandedTo, Text

\* Handing over no text, to open or to close a block.
LEMMA HandOverNothing ==
  ASSUME TypeOK, NEW b, NEW flag, b.handed \in Seq(Chars)
  PROVE  /\ ProcessUnmarked(b, 1, 1, flag).handed = b.handed
         /\ ProcessMarked(b, 1, 1, flag).handed = b.handed
<1>1. Text(1, 1) = <<>>
  BY SubSeqEmpty DEF Text
<1>2. b.handed \o <<>> = b.handed
  BY ConcatEmptySeq
<1>. QED
  BY <1>1, <1>2 DEF ProcessUnmarked, ProcessMarked

\* When the pointer is at the end of the line, the line has been handed over.
LEMMA WholeLine ==
  ASSUME TypeOK, NEW b, HandedTo(b, EndOfLine)
  PROVE  b.handed = Line
<1>1. Line \in Seq(Chars) /\ Len(Line) \in Nat /\ EndOfLine - 1 = Len(Line)
  BY LineType DEF EndOfLine
<1>. QED
  BY <1>1, SubSeqFull DEF HandedTo

\* A step outside a line, one that ends it, and one that moves the pointer.
LEMMA OtherStep ==
  ASSUME pc' \in {"args", "open", "exit"}
  PROVE  LineInv'
BY DEF LineInv, LinesConserved

LEMMA EndOfLineStep ==
  ASSUME TypeOK, UNCHANGED <<input, lineNo>>, pc' = "read",
         HandedTo(blk', EndOfLine)
  PROVE  LineInv'
<1>1. Line' = Line
  BY DEF Line
<1>. QED
  BY <1>1, WholeLine DEF LineInv, LinesConserved

LEMMA PointerStep ==
  ASSUME UNCHANGED <<input, lineNo>>, pc' \in {"line", "rest"},
         opt'.begin # NoTag, HandedTo(blk', ptr')
  PROVE  LineInv'
<1>1. Line' = Line
  BY DEF Line
<1>. QED
  BY <1>1 DEF LineInv, LinesConserved, HandedTo

LEMMA LineStep == TypeOK /\ BlockInv /\ LineInv /\ [Next]_vars => LineInv'
<1>. SUFFICES ASSUME TypeOK, BlockInv, LineInv, [Next]_vars
              PROVE  LineInv'
  OBVIOUS
<1>. USE DEF Exit, At
<1>p. /\ ptr \in 1 .. EndOfLine
      /\ EndOfLine \in Nat \ {0}
      /\ blk \in BlockState
      /\ \A b : b \in BlockState => b.handed \in Seq(Chars)
  BY LineType DEF TypeOK, BlockState
<1>q. /\ 1 \in 1 .. EndOfLine /\ EndOfLine \in 1 .. EndOfLine
      /\ 1 <= EndOfLine /\ ptr <= EndOfLine /\ 1 <= 1
      /\ EndOfLine <= EndOfLine
      /\ TRUE \in BOOLEAN /\ FALSE \in BOOLEAN
  BY <1>p
<1>h. blk.handed \in Seq(Chars)
  BY <1>p
<1>l. pc \in {"line", "rest"} => HandedTo(blk, ptr)
  BY DEF LineInv
<1>t. \A tag : MarkerFound(tag) => pc = "line" /\ opt.begin # NoTag
  BY DEF MarkerFound, BlockInv
<1>n. pc = "line" /\ marker = NoTag => HandedTo(blk, 1)
  BY <1>l DEF LineInv, BlockInv
<1>1. CASE CheckParameters
  <2>1. pc' \in {"exit", "open"}
    BY <1>1 DEF CheckParameters
  <2>. QED
    BY <2>1, OtherStep
<1>2. CASE OpenInput
  <2>1. pc' = "exit" \/ (pc' = "read" /\ lineNo' = 0)
    BY <1>2 DEF OpenInput, BlockInv
  <2>. QED
    BY <2>1 DEF LineInv, LinesConserved
<1>3. CASE ReadLine
  <2>1. pc' = "line" /\ ptr' = 1 /\ blk'.handed = <<>>
    BY <1>3, <1>p DEF ReadLine, BlockState
  <2>2. HandedTo(blk, ptr)'
    BY <2>1, SubSeqEmpty DEF HandedTo
  <2>. QED
    BY <2>1, <2>2 DEF LineInv, LinesConserved
<1>4. CASE ReadError
  BY <1>4, OtherStep DEF ReadError
<1>5. CASE EndOfFile
  BY <1>5, OtherStep DEF EndOfFile
<1>6. CASE SelectedLine
  <2>. DEFINE opened == IF lineNo = opt.from
                          THEN ProcessUnmarked(blk, 1, 1, TRUE) ELSE blk
              marked == ProcessMarked(opened, 1, EndOfLine, FALSE)
              closed == ProcessMarked(marked, EndOfLine, EndOfLine, TRUE)
  <2>1. opened \in BlockState /\ marked \in BlockState
    <3>1. opened \in BlockState
      BY <1>p, <1>q, UnmarkedType
    <3>. HIDE DEF opened
    <3>. QED
      BY <3>1, <1>q, MarkedType
  <2>2. HandedTo(opened, 1)
    BY <1>6, <1>n, <1>h, <1>q, HandOver DEF SelectedLine
  <2>3. HandedTo(marked, EndOfLine)
    <3>. HIDE DEF opened
    <3>. QED
      BY <2>1, <2>2, <1>p, <1>q, HandOver
  <2>4. HandedTo(closed, EndOfLine)
    <3>. HIDE DEF marked
    <3>. QED
      BY <2>1, <2>3, <1>p, <1>q, HandOver
  <2>5. HandedTo(blk', EndOfLine)
    <3>1. blk' = IF lineNo = opt.to THEN closed ELSE marked
      BY <1>6 DEF SelectedLine
    <3>. HIDE DEF closed, marked
    <3>. QED
      BY <3>1, <2>3, <2>4
  <2>. QED
    BY <1>6, <2>5, EndOfLineStep DEF SelectedLine
<1>7. CASE PlainLine
  <2>1. HandedTo(blk', EndOfLine)
    BY <1>7, <1>n, <1>h, <1>q, HandOver DEF PlainLine
  <2>. QED
    BY <1>7, <2>1, EndOfLineStep DEF PlainLine
<1>8. CASE BeginOfFullLines
  <2>0. /\ pc' \in {"line", "rest"} /\ UNCHANGED <<input, lineNo, opt>>
        /\ ptr' = Behind /\ opt'.begin # NoTag
        /\ HandedTo(blk, ptr)
    BY <1>8, <1>l, <1>t DEF BeginOfFullLines, Continue
  <2>1. Behind \in 1 .. EndOfLine /\ ptr <= Behind
    BY <1>8, <1>p, MarkerInLine DEF BeginOfFullLines
  <2>. DEFINE opened == ProcessUnmarked(blk, 1, 1, TRUE)
  <2>2. opened \in BlockState /\ opened.handed = blk.handed
    <3>1. opened \in BlockState
      BY <1>p, <1>q, UnmarkedType
    <3>2. opened.handed = blk.handed
      BY <1>h, HandOverNothing
    <3>. QED
      BY <3>1, <3>2
  <2>3. HandedTo(ProcessMarked(opened, ptr, Behind, FALSE), Behind)
    <3>. HIDE DEF opened
    <3>1. HandedTo(opened, ptr)
      BY <2>0, <2>2 DEF HandedTo
    <3>. QED
      BY <2>1, <2>2, <3>1, <1>p, HandOver
  <2>4. HandedTo(ProcessUnmarked(blk, ptr, Behind, FALSE), Behind)
    BY <2>0, <2>1, <1>p, <1>h, HandOver
  <2>5. HandedTo(blk', ptr')
    BY <1>8, <2>0, <2>3, <2>4 DEF BeginOfFullLines
  <2>. QED
    BY <2>0, <2>5, PointerStep
<1>9. CASE BeginOfTagsOnly
  <2>. DEFINE next   == IF opt.include THEN NextMarker ELSE Behind
              opened == ProcessUnmarked(blk, ptr, next, TRUE)
              closed == ProcessMarked(opened, next, Behind, TRUE)
  <2>0. /\ pc' \in {"line", "rest"} /\ UNCHANGED <<input, lineNo, opt>>
        /\ opt'.begin # NoTag /\ HandedTo(blk, ptr)
    BY <1>9, <1>l, <1>t DEF BeginOfTagsOnly, Continue
  <2>1. /\ next \in 1 .. EndOfLine /\ Behind \in 1 .. EndOfLine
        /\ ptr <= next /\ next <= Behind
    BY <1>9, <1>p, MarkerInLine DEF BeginOfTagsOnly
  <2>2. IF SameTags THEN blk' = closed /\ ptr' = Behind
                    ELSE blk' = opened /\ ptr' = next
    BY <1>9 DEF BeginOfTagsOnly, Continue
  <2>. HIDE DEF next
  <2>3. opened \in BlockState /\ HandedTo(opened, next)
    BY <2>0, <2>1, <1>p, <1>h, UnmarkedType, HandOver
  <2>. HIDE DEF opened
  <2>4. HandedTo(closed, Behind)
    BY <2>1, <2>3, <1>p, HandOver
  <2>. HIDE DEF closed
  <2>5. HandedTo(blk', ptr')
    BY <2>2, <2>3, <2>4
  <2>. QED
    BY <2>0, <2>5, PointerStep
<1>10. CASE EndOfFullLines
  <2>0. /\ pc' \in {"line", "rest"} /\ UNCHANGED <<input, lineNo, opt>>
        /\ ptr' = Behind /\ opt'.begin # NoTag
        /\ HandedTo(blk, ptr)
    BY <1>10, <1>l, <1>t DEF EndOfFullLines, Continue
  <2>1. Behind \in 1 .. EndOfLine /\ ptr <= Behind
    BY <1>10, <1>p, MarkerInLine DEF EndOfFullLines
  <2>. DEFINE closed == ProcessMarked(blk, 1, 1, TRUE)
  <2>2. closed \in BlockState /\ closed.handed = blk.handed
    <3>1. closed \in BlockState
      BY <1>p, <1>q, MarkedType
    <3>2. closed.handed = blk.handed
      BY <1>h, HandOverNothing
    <3>. QED
      BY <3>1, <3>2
  <2>3. HandedTo(ProcessUnmarked(closed, ptr, Behind, FALSE), Behind)
    <3>. HIDE DEF closed
    <3>1. HandedTo(closed, ptr)
      BY <2>0, <2>2 DEF HandedTo
    <3>. QED
      BY <2>1, <2>2, <3>1, <1>p, HandOver
  <2>4. HandedTo(ProcessMarked(blk, ptr, Behind, FALSE), Behind)
    BY <2>0, <2>1, <1>p, <1>h, HandOver
  <2>5. HandedTo(blk', ptr')
    BY <1>10, <2>0, <2>3, <2>4 DEF EndOfFullLines
  <2>. QED
    BY <2>0, <2>5, PointerStep
<1>11. CASE EndOfTagsOnly
  <2>. DEFINE next == IF opt.include THEN Behind ELSE NextMarker
  <2>0. /\ pc' \in {"line", "rest"} /\ UNCHANGED <<input, lineNo, opt>>
        /\ opt'.begin # NoTag /\ HandedTo(blk, ptr)
    BY <1>11, <1>l, <1>t DEF EndOfTagsOnly, Continue
  <2>1. next \in 1 .. EndOfLine /\ ptr <= next
    BY <1>11, <1>p, MarkerInLine DEF EndOfTagsOnly
  <2>2. blk' = ProcessMarked(blk, ptr, next, TRUE) /\ ptr' = next
    BY <1>11 DEF EndOfTagsOnly, Continue
  <2>. HIDE DEF next
  <2>3. HandedTo(blk', ptr')
    BY <2>0, <2>1, <2>2, <1>p, <1>h, HandOver
  <2>. QED
    BY <2>0, <2>3, PointerStep
<1>12. CASE RestOfTagLine
  <2>0. /\ pc' = "read" /\ UNCHANGED <<input, lineNo>> /\ HandedTo(blk, ptr)
    BY <1>12, <1>l DEF RestOfTagLine, EndLine
  <2>1. \A flag : /\ HandedTo(ProcessMarked(blk, ptr, EndOfLine, flag), EndOfLine)
                  /\ HandedTo(ProcessUnmarked(blk, ptr, EndOfLine, flag), EndOfLine)
    BY <2>0, <1>p, <1>h, <1>q, HandOver
  <2>. DEFINE opened == ProcessUnmarked(blk, ptr, EndOfLine, TRUE)
  <2>2. opened \in BlockState
    BY <1>p, <1>q, UnmarkedType
  <2>3. HandedTo(ProcessMarked(opened, EndOfLine, EndOfLine, TRUE), EndOfLine)
    <3>1. HandedTo(opened, EndOfLine)
      BY <2>1
    <3>. HIDE DEF opened
    <3>. QED
      BY <3>1, <2>2, <1>p, <1>q, HandOver
  <2>4. HandedTo(blk', EndOfLine)
    BY <1>12, <2>1, <2>3 DEF RestOfTagLine, EndLine
  <2>. QED
    BY <2>0, <2>4, EndOfLineStep
<1>13. CASE RestOfLine
  <2>0. /\ pc' = "read" /\ UNCHANGED <<input, lineNo>> /\ HandedTo(blk, ptr)
    BY <1>13, <1>l DEF RestOfLine, EndLine
  <2>1. /\ HandedTo(ProcessUnmarked(blk, ptr, EndOfLine, FALSE), EndOfLine)
        /\ HandedTo(ProcessMarked(blk, ptr, EndOfLine, FALSE), EndOfLine)
    BY <2>0, <1>p, <1>h, <1>q, HandOver
  <2>2. HandedTo(blk', EndOfLine)
    BY <1>13, <2>1 DEF RestOfLine, EndLine
  <2>. QED
    BY <2>0, <2>2, EndOfLineStep
<1>14. CASE UNCHANGED vars
  <2>1. Line' = Line
    BY <1>14 DEF vars, Line
  <2>. QED
    BY <1>14, <2>1 DEF vars, LineInv, LinesConserved, HandedTo
<1>. QED
  BY <1>1, <1>2, <1>3, <1>4, <1>5, <1>6, <1>7, <1>8, <1>9, <1>10, <1>11,
     <1>12, <1>13, <1>14 DEF Next, Terminated

LEMMA LineInit == Init => LineInv
BY DEF Init, LineInv, LinesConserved

\* For all inputs, tags and command lines, what is handed over of a line is the
\* line, character by character.
THEOREM NothingLost == Spec => []LinesConserved
<1>1. LineInv => LinesConserved
  BY DEF LineInv
<1>. QED
  BY <1>1, TypeInit, TypeStep, BlockInit, BlockStep, LineInit, LineStep, PTL
     DEF Spec

-----------------------------------------------------------------------------
(* The search ends.                                                        *)

LEMMA VariantStep ==
  TypeOK /\ BlockInv /\ [Next]_vars
    => [pc = "line" /\ pc' = "line" => Variant' > Variant]_vars
<1>. SUFFICES ASSUME TypeOK, BlockInv, Next, pc = "line", pc' = "line"
              PROVE  Variant' > Variant \/ UNCHANGED vars
  OBVIOUS
<1>1. CASE BeginOfTagsOnly
  <2>1. /\ marker = opt.begin /\ marker' = opt.end /\ opt' = opt
        /\ ptr' = IF SameTags \/ ~opt.include THEN Behind ELSE NextMarker
    BY <1>1 DEF BeginOfTagsOnly, MarkerFound, Continue
  <2>2. NextMarker >= ptr /\ Behind > ptr /\ ptr \in Nat /\ NextMarker \in Nat /\ Behind \in Nat
    BY <1>1, LineType, MarkerInLine DEF BeginOfTagsOnly, TypeOK
  <2>3. opt.include \in BOOLEAN
    BY DEF TypeOK, CommandLine
  <2>. QED
    BY <2>1, <2>2, <2>3 DEF Variant, SameTags
<1>2. CASE EndOfTagsOnly
  <2>1. /\ marker = opt.end /\ marker' = opt.begin /\ opt' = opt
        /\ opt.begin # opt.end
        /\ ptr' = IF opt.include THEN Behind ELSE NextMarker
    BY <1>2 DEF EndOfTagsOnly, MarkerFound, Continue, SameTags
  <2>2. NextMarker >= ptr /\ Behind > ptr /\ ptr \in Nat /\ NextMarker \in Nat /\ Behind \in Nat
    BY <1>2, LineType, MarkerInLine DEF EndOfTagsOnly, TypeOK
  <2>3. opt.include \in BOOLEAN
    BY DEF TypeOK, CommandLine
  <2>. QED
    BY <2>1, <2>2, <2>3 DEF Variant
<1>3. CASE BeginOfFullLines \/ EndOfFullLines
  BY <1>3 DEF BeginOfFullLines, EndOfFullLines, Continue
<1>4. CASE SelectedLine \/ PlainLine \/ RestOfLine \/ RestOfTagLine
  BY <1>4 DEF SelectedLine, PlainLine, RestOfLine, RestOfTagLine, EndLine
<1>5. CASE \/ CheckParameters \/ OpenInput \/ ReadLine \/ ReadError
           \/ EndOfFile \/ Terminated
  BY <1>5 DEF CheckParameters, OpenInput, ReadLine, ReadError, EndOfFile, At,
              Terminated
<1>. QED
  BY <1>1, <1>2, <1>3, <1>4, <1>5 DEF Next

\* The search for tags in a line goes forward with every tag it finds, for all
\* lines and tags.
THEOREM ScanProgress == Spec => ScanAdvances
<1>. QED
  BY TypeInit, TypeStep, BlockInit, BlockStep, VariantStep, PTL
     DEF Spec, ScanAdvances

=============================================================================
