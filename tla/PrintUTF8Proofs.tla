--------------------------- MODULE PrintUTF8Proofs ---------------------------
(***************************************************************************)
(* Proofs about print-utf8, for all command lines and inputs: types, the   *)
(* bounds of the buffer of unescape() and of lineArray, that no border is  *)
(* used before it is given, that no line of the input is lost, and that    *)
(* what is printed is as wide as it should be.                             *)
(*                                                                         *)
(* What a fold computes is followed step by step: its states are a path    *)
(* (FoldPath), and a fact that holds along a path holds because there is   *)
(* no first position where it fails (FirstPosition).                       *)
(***************************************************************************)
EXTENDS PrintUTF8, TLAPS, SequenceTheorems, WellFoundedInduction

-----------------------------------------------------------------------------
(* Strings *)

\* A non-empty set of positions has a smallest element.
LEMMA FirstPosition ==
    ASSUME NEW S, S \subseteq Nat, S # {}
    PROVE  \E p \in S : \A q \in S : p <= q
<1>1. PICK p \in S : \A q \in S : <<q, p>> \notin OpToRel(<, Nat)
  BY NatLessThanWellFounded, WFMin
<1>2. \A q \in S : ~(q < p)
  BY <1>1 DEF OpToRel
<1> QED BY <1>2

\* Concatenation is associative; the provers find it in this form.
Associative(C) == \A x, y, z \in Seq(C) : (x \o y) \o z = x \o (y \o z)

LEMMA ConcatAssoc == \A C : Associative(C)
BY ConcatAssociative, ZenonT(40) DEF Associative

\* A set of positions with the first one, and the next of each, has them all.
LEMMA EveryPosition ==
    ASSUME NEW n \in Nat, NEW S, 0 \in S, \A k \in 1 .. n : k - 1 \in S => k \in S
    PROVE  \A k \in 0 .. n : k \in S
<1> DEFINE Bad == {k \in 0 .. n : k \notin S}
<1> SUFFICES ASSUME Bad # {}  PROVE FALSE
  OBVIOUS
<1>1. PICK k \in Bad : \A j \in Bad : k <= j
  <2>1. Bad \subseteq Nat
    OBVIOUS
  <2> HIDE DEF Bad
  <2> QED BY <2>1, FirstPosition
<1>2. k \in 1 .. n /\ k - 1 \in S
  BY <1>1
<1> QED BY <1>1, <1>2

\* The first bytes of a string are a string.
LEMMA Prefix ==
    ASSUME NEW s \in Seq(Bytes), NEW n \in 0 .. Len(s)
    PROVE  SubSeq(s, 1, n) \in Seq(Bytes)
<1>1. \A k \in 1 .. n : s[k] \in Bytes
  BY ElementOfSeq, LenProperties
<1> QED BY <1>1, SubSeqProperties, LenProperties

\* What is left of a string at its first NUL is a string.
LEMMA CStringType ==
    ASSUME NEW s \in Seq(Bytes)
    PROVE  CString(s) \in Seq(Bytes)
<1> DEFINE ends == {k \in DOMAIN s : s[k] = "NUL"}
           First(k) == k + 1 \in ends /\ \A e \in ends : k < e
           first == CHOOSE k \in 0 .. Len(s) : First(k)
<1>1. DOMAIN s = 1 .. Len(s) /\ Len(s) \in Nat
  BY LenProperties
<1>2. CASE ends = {}
  BY <1>2 DEF CString
<1>3. CASE ends # {}
  <2>. ends \subseteq Nat
    BY <1>1
  <2>1. PICK p \in ends : \A e \in ends : p <= e
    <3> HIDE DEF ends
    <3> QED BY <1>3, FirstPosition
  <2>2. p - 1 \in 0 .. Len(s) /\ First(p - 1)
    BY <1>1, <2>1
  <2>3. first \in 0 .. Len(s)
    BY <2>2
  <2>4. SubSeq(s, 1, first) \in Seq(Bytes)
    BY <2>3, Prefix
  <2> QED BY <2>4, <1>3 DEF CString
<1> QED BY <1>2, <1>3

\* A line read is a string.
LEMMA LineType ==
    ASSUME NEW s \in Seq(Bytes)
    PROVE  Line(s) \in Seq(Bytes)
<1> DEFINE byte(k) == IF s[k] \in {"CR", "LF"} THEN "NUL" ELSE s[k]
           cut == [k \in DOMAIN s |-> byte(k)]
<1>1. DOMAIN s = 1 .. Len(s) /\ Len(s) \in Nat
  BY LenProperties
<1>2. \A k \in 1 .. Len(s) : s[k] \in Bytes
  BY ElementOfSeq, <1>1
<1>3. cut \in [1 .. Len(s) -> Bytes]
  <2>1. ASSUME NEW k \in 1 .. Len(s)
        PROVE  byte(k) \in Bytes
    BY <1>2, PrintUTF8Assumption
  <2> HIDE DEF byte
  <2> QED BY <1>1, <2>1
<1>4. cut \in Seq(Bytes)
  <2> HIDE DEF cut
  <2>1. cut \in UNION {[1 .. n -> Bytes] : n \in Nat}
    BY <1>1, <1>3, Zenon
  <2> QED BY <2>1, SeqDef, Zenon
<1> QED BY <1>4, CStringType DEF Line

\* fgets() stops behind an LF, at the end, or when the buffer is full.
LEMMA TakenEnd ==
    ASSUME stdin \in Seq(Bytes), stdin # <<>>
    PROVE  /\ Taken \in 1 .. Len(stdin)
           /\ \A k \in 1 .. Taken - 1 : stdin[k] # "LF"
           /\ \/ stdin[Taken] = "LF"
              \/ stdin[Taken] # "LF" /\ (Taken = Len(stdin) \/ Taken = BufferSize - 1)
<1> DEFINE most == IF Len(stdin) < BufferSize THEN Len(stdin) ELSE BufferSize - 1
           ends == {k \in 1 .. most : stdin[k] = "LF"}
<1>1. Len(stdin) \in Nat /\ Len(stdin) > 0
  BY LenProperties, EmptySeq
<1>2. most \in 1 .. Len(stdin) /\ (most = Len(stdin) \/ most = BufferSize - 1)
  BY <1>1, PrintUTF8Assumption
<1>3. CASE ends = {}
  <2>1. Taken = most
    BY <1>3 DEF Taken
  <2> HIDE DEF most
  <2>2. \A k \in 1 .. most : stdin[k] # "LF"
    BY <1>3
  <2>3. most \in 1 .. most /\ \A k \in 1 .. most - 1 : k \in 1 .. most
    BY <1>1, <1>2
  <2> QED BY <1>2, <2>1, <2>2, <2>3
<1>4. CASE ends # {}
  <2>. ends \subseteq Nat
    BY <1>2
  <2>1. \E p \in ends : \A e \in ends : p <= e
    <3> HIDE DEF ends
    <3> QED BY <1>4, FirstPosition
  <2>2. Taken = CHOOSE k \in ends : \A e \in ends : k <= e
    BY <1>4 DEF Taken
  <2>3. Taken \in ends /\ \A e \in ends : Taken <= e
    <3> HIDE DEF ends
    <3> QED BY <2>1, <2>2
  <2> HIDE DEF most
  <2>4. Taken \in 1 .. most /\ stdin[Taken] = "LF"
    BY <2>3
  <2>5. \A k \in 1 .. Taken - 1 : k \in 1 .. most /\ ~(Taken <= k)
    BY <1>1, <1>2, <2>4
  <2>6. Taken \in 1 .. Len(stdin)
    BY <1>1, <1>2, <2>4
  <2> QED BY <2>3, <2>4, <2>5, <2>6
<1> QED BY <1>3, <1>4

-----------------------------------------------------------------------------
(* The command line *)

Job == [to : {"left", "right", "text"}, from : Seq(Bytes)]

\* What the options and the strings are.
LEMMA CommandType ==
    ASSUME command \in CommandLines
    PROVE  /\ command.options \in Seq([o : STRING, args : Seq(Seq(Bytes)), n : Int])
           /\ command.strings \in Seq(Seq(Bytes))
           /\ Len(command.options) \in Nat
<1>1. command \in [options : Seq([o : STRING, args : Seq(Seq(Bytes)), n : Int]),
                   strings : Seq(Seq(Bytes))]
  BY PrintUTF8Assumption
<1> QED BY <1>1, LenProperties

\* What the next option is.
LEMMA OptionType ==
    ASSUME TypeOK, NEW o, AtOption(o)
    PROVE  /\ option \in 1 .. Len(command.options)
           /\ option + 1 \in 1 .. Len(command.options) + 2
           /\ Arguments \in Seq(Seq(Bytes)) /\ Number \in Int
           /\ pc = "options" /\ jobs = <<>>
<1>1. pc = "options" /\ jobs = <<>> /\ option <= Len(command.options)
      /\ option \in 1 .. Len(command.options) + 2 /\ command \in CommandLines
  BY DEF AtOption, TypeOK
<1>2. option \in 1 .. Len(command.options)
  BY <1>1, CommandType
<1>3. command.options[option] \in [o : STRING, args : Seq(Seq(Bytes)), n : Int]
  BY <1>1, <1>2, CommandType, ElementOfSeq
<1>4. Arguments \in Seq(Seq(Bytes)) /\ Number \in Int
  BY <1>3 DEF Arguments, Number
<1> QED BY <1>1, <1>2, <1>4, CommandType

\* The strings of an option are unescaped to the variables of both borders.
LEMMA StringsType ==
    ASSUME Arguments \in Seq(Seq(Bytes)), NEW o, Len(Arguments) = Expected(o)
    PROVE  /\ Strings(o) \in Seq(Job) /\ Strings(o) # <<>>
           /\ \E k \in DOMAIN Strings(o) : Strings(o)[k].to = "left"
           /\ \E k \in DOMAIN Strings(o) : Strings(o)[k].to = "right"
<1> DEFINE borders == <<[to |-> "left", from |-> Arguments[1]],
                        [to |-> "right", from |-> Arguments[Expected(o)]]>>
           rest == IF o = "s" THEN <<[to |-> "text", from |-> Arguments[2]]>> ELSE <<>>
<1>1. Expected(o) \in 2 .. 3
  BY DEF Expected
<1>2. \A k \in 1 .. Expected(o) : Arguments[k] \in Seq(Bytes)
  BY <1>1, ElementOfSeq
<1>3. borders \in Seq(Job) /\ Len(borders) = 2
  BY <1>1, <1>2 DEF Job
<1>4. rest \in Seq(Job)
  <2>1. CASE o = "s"
    <3>1. [to |-> "text", from |-> Arguments[2]] \in Job
      BY <1>1, <1>2 DEF Job
    <3> QED BY <2>1, <3>1
  <2>2. CASE o # "s"
    BY <2>2
  <2> QED BY <2>1, <2>2
<1>5. borders[1].to = "left" /\ borders[2].to = "right"
  OBVIOUS
<1>6. Strings(o) = borders \o rest
  BY DEF Strings
<1>7. /\ Strings(o) \in Seq(Job) /\ Len(Strings(o)) >= 2 /\ Len(Strings(o)) \in Nat
      /\ Strings(o)[1] = borders[1] /\ Strings(o)[2] = borders[2]
  <2> HIDE DEF borders, rest
  <2>1. Len(rest) \in Nat
    BY <1>4, LenProperties
  <2>2. /\ borders \o rest \in Seq(Job)
        /\ Len(borders \o rest) = 2 + Len(rest)
        /\ \A k \in 1 .. 2 : (borders \o rest)[k] = borders[k]
    <3>1. /\ borders \o rest \in Seq(Job)
          /\ Len(borders \o rest) = Len(borders) + Len(rest)
          /\ \A k \in 1 .. Len(borders) + Len(rest) :
               (borders \o rest)[k] = IF k <= Len(borders) THEN borders[k]
                                      ELSE rest[k - Len(borders)]
      BY <1>3, <1>4, ConcatProperties, Zenon
    <3> QED BY <1>3, <2>1, <3>1
  <2> QED BY <1>6, <2>1, <2>2
<1>8. DOMAIN Strings(o) = 1 .. Len(Strings(o))
  BY <1>7, LenProperties
<1>9. Strings(o) # <<>>
  BY <1>7
<1>10. 1 \in DOMAIN Strings(o) /\ 2 \in DOMAIN Strings(o)
  BY <1>7, <1>8
<1>11. Strings(o)[1].to = "left" /\ Strings(o)[2].to = "right"
  <2> HIDE DEF borders
  <2> QED BY <1>5, <1>7
<1> QED BY <1>7, <1>9, <1>10, <1>11

-----------------------------------------------------------------------------
(* unescape() *)

\* The string that is unescaped.
LEMMA OriginalType ==
    ASSUME TypeOK, pc = "unescape"
    PROVE  /\ Original \in Seq(Bytes) /\ Len(Original) \in Nat
           /\ jobs[1] \in Job /\ Len(jobs) \in Nat /\ Len(jobs) > 0
<1>1. jobs \in Seq(Job) /\ jobs # <<>>
  BY DEF TypeOK, Job
<1>2. Len(jobs) \in Nat /\ Len(jobs) > 0
  BY <1>1, LenProperties, EmptySeq
<1>3. jobs[1] \in Job
  BY <1>1, <1>2, ElementOfSeq
<1>4. Original \in Seq(Bytes)
  BY <1>3 DEF Original, Job
<1> QED BY <1>2, <1>3, <1>4, LenProperties

\* The digits behind the backslash and the letter.
LEMMA DigitsType ==
    ASSUME Original \in Seq(Bytes), i \in Nat, Letter \in DOMAIN DigitsAfter,
           AllDigits, ValidDigits
    PROVE  /\ Letter \in {"u", "U"} =>
                 Wctomb(Digits) \in Seq(Bytes)
                 /\ Len(Wctomb(Digits)) <= DigitsAfter[Letter] + 2
           /\ Letter \notin {"u", "U"} => ByteOf(Digits) \in Bytes
<1> DEFINE n == DigitsAfter[Letter]
<1>1. DOMAIN DigitsAfter = {"x", "0", "u", "U"}
  BY DEF DigitsAfter
<1>2. /\ Letter = "x" => n = 2
      /\ Letter = "0" => n = 3
      /\ Letter = "u" => n = 4
      /\ Letter = "U" => n = 8
  BY <1>1 DEF DigitsAfter
<1>3. n \in Nat /\ i + 2 + n <= Len(Original) /\ Len(Original) \in Nat
  BY <1>1, <1>2, LenProperties DEF AllDigits
<1>4. Digits = SubSeq(Original, i + 3, i + 2 + n)
  BY DEF Digits
<1>5. Len(Digits) = n /\ Digits \in Seq(Bytes)
  <2> HIDE DEF n
  <2>1. \A k \in i + 3 .. i + 2 + n : Original[k] \in Bytes
    BY <1>3, ElementOfSeq
  <2> QED BY <1>3, <1>4, <2>1, SubSeqProperties
<1>6. Digits \in [1 .. n -> IF Letter = "0" THEN OctDigits ELSE HexDigits]
  <2>1. DOMAIN Digits = 1 .. n /\ Digits = [k \in 1 .. n |-> Digits[k]]
    BY <1>5, LenProperties
  <2> QED BY <2>1 DEF ValidDigits
<1>7. CASE Letter \in {"u", "U"}
  <2>1. Digits \in [1 .. 4 -> HexDigits] \cup [1 .. 8 -> HexDigits]
    BY <1>2, <1>6, <1>7
  <2>2. Wctomb(Digits) \in Seq(Bytes) /\ Len(Wctomb(Digits)) <= Len(Digits) + 2
    BY <2>1, ConversionAssumption
  <2> QED BY <2>2, <1>5, <1>7
<1>8. CASE Letter \notin {"u", "U"}
  <2>1. Digits \in [1 .. 2 -> HexDigits] \cup [1 .. 3 -> OctDigits]
    BY <1>1, <1>2, <1>6, <1>8
  <2>2. ByteOf(Digits) \in Bytes
    BY <2>1, ConversionAssumption
  <2> QED BY <2>2, <1>8
<1> QED BY <1>7, <1>8

-----------------------------------------------------------------------------
(* The options *)

\* Where nothing is unescaped, a mode with borders has them.
LEMMA BordersGiven ==
    ASSUME TypeOK, jobs = <<>>,
           mode \in {MultiLineOrSeparator[o] : o \in DOMAIN MultiLineOrSeparator}
    PROVE  left \in Seq(Bytes) /\ right \in Seq(Bytes)
<1>1. DOMAIN jobs = {}
  BY EmptySeq, LenProperties
<1> QED BY <1>1 DEF TypeOK, HasBorders

\* The modes with borders and those without.
LEMMA ModeNames ==
    /\ DOMAIN MultiLineOrSeparator = {"I", "C", "s"}
    /\ {MultiLineOrSeparator[o] : o \in DOMAIN MultiLineOrSeparator}
         = {"MultiLineIndent", "MultiLineCenter", "Separator"}
    /\ DOMAIN ModeOf = {"i", "c", "t", "w", "l", "b", "a"}
    /\ \A o \in DOMAIN ModeOf :
         ModeOf[o] \notin {"MultiLineIndent", "MultiLineCenter", "Separator"}
<1>1. DOMAIN MultiLineOrSeparator = {"I", "C", "s"}
  BY DEF MultiLineOrSeparator
<1>2. {MultiLineOrSeparator[o] : o \in DOMAIN MultiLineOrSeparator}
        = {"MultiLineIndent", "MultiLineCenter", "Separator"}
  BY DEF MultiLineOrSeparator
<1>3. DOMAIN ModeOf = {"i", "c", "t", "w", "l", "b", "a"}
  BY DEF ModeOf
<1>4. \A o \in DOMAIN ModeOf :
        ModeOf[o] \notin {"MultiLineIndent", "MultiLineCenter", "Separator"}
  BY DEF ModeOf
<1> QED BY <1>1, <1>2, <1>3, <1>4

\* What each option does to the types.
LEMMA SetModeType ==
    ASSUME TypeOK, NEW o \in DOMAIN ModeOf, SetMode(o)
    PROVE  TypeOK'
<1>1. AtOption(o)
  BY DEF SetMode
<1>2. option' \in 1 .. Len(command.options) + 2 /\ Number \in Int /\ pc = "options"
  BY <1>1, OptionType DEF SetMode, NextOption
<1>3. mode' \in Modes
      /\ mode' \notin {MultiLineOrSeparator[m] : m \in DOMAIN MultiLineOrSeparator}
  BY ModeNames DEF SetMode, Modes
<1>4. HasBorders'
  BY <1>3, ModeNames DEF HasBorders
<1> QED
  BY <1>2, <1>3, <1>4
  DEF TypeOK, FitsBuffer, Original, SetMode, fixed, strings, reading, printed

LEMMA SetNewlineType ==
    ASSUME TypeOK, SetNewline
    PROVE  TypeOK'
<1>1. AtOption("n")
  BY DEF SetNewline
<1>2. option' \in 1 .. Len(command.options) + 2
  BY <1>1, OptionType DEF SetNewline, NextOption
<1> QED
  BY <1>2 DEF TypeOK, FitsBuffer, Original, HasBorders, SetNewline, fixed, strings,
              reading, printed

LEMMA SetColumnsType ==
    ASSUME TypeOK, SetColumns
    PROVE  TypeOK'
<1>1. AtOption("x")
  BY DEF SetColumns
<1>2. option' \in 1 .. Len(command.options) + 2 /\ Number \in Int
  BY <1>1, OptionType DEF SetColumns, NextOption
<1>3. columns' \in Int
  BY <1>2, PrintUTF8Assumption DEF SetColumns, Width, TypeOK
<1> QED
  BY <1>2, <1>3 DEF TypeOK, FitsBuffer, Original, HasBorders, SetColumns, fixed,
                    strings, reading, printed

\* A list of strings to unescape is begun at its first byte.
LEMMA UnescapeType ==
    ASSUME NEW todo \in Seq(Job), todo # <<>>, Unescape(todo)
    PROVE  /\ jobs' \in Seq(Job) /\ jobs' # <<>>
           /\ i' = 0 /\ unescaped' \in Seq(Bytes) /\ pc' = "unescape"
           /\ FitsBuffer'
<1>1. Len(todo) \in Nat /\ Len(todo) > 0
  BY LenProperties, EmptySeq
<1>2. todo[1] \in Job
  BY <1>1, ElementOfSeq
<1>3. Len(todo[1].from) \in Nat
  BY <1>2, LenProperties DEF Job
<1>4. Len(unescaped') = 0 /\ unescaped' \in Seq(Bytes)
  BY EmptySeq DEF Unescape
<1>5. FitsBuffer'
  BY <1>3, <1>4 DEF FitsBuffer, Original, Unescape
<1> QED BY <1>4, <1>5 DEF Unescape

LEMMA SetBordersType ==
    ASSUME TypeOK, NEW o \in DOMAIN MultiLineOrSeparator, SetBorders(o)
    PROVE  TypeOK'
<1>1. AtOption(o)
  BY DEF SetBorders
<1>2. /\ option' \in 1 .. Len(command.options) + 2 /\ pc = "options"
      /\ Number \in Int /\ Arguments \in Seq(Seq(Bytes))
  BY <1>1, OptionType DEF SetBorders, NextOption
<1>3. Unescape(Strings(o)) /\ Len(Arguments) = Expected(o)
  BY DEF SetBorders
<1>4. /\ Strings(o) \in Seq(Job) /\ Strings(o) # <<>>
      /\ \E k \in DOMAIN Strings(o) : Strings(o)[k].to = "left"
      /\ \E k \in DOMAIN Strings(o) : Strings(o)[k].to = "right"
  BY <1>2, <1>3, StringsType
<1>5. /\ jobs' \in Seq(Job) /\ jobs' # <<>>
      /\ i' = 0 /\ unescaped' \in Seq(Bytes) /\ pc' = "unescape" /\ FitsBuffer'
  BY <1>3, <1>4, UnescapeType
<1>6. HasBorders'
  BY <1>3, <1>4 DEF HasBorders, Unescape
<1>7. mode' \in Modes
  BY DEF SetBorders, Modes
<1>8. indentWidth' \in Int
  BY <1>2 DEF SetBorders, TypeOK
<1> QED
  BY <1>2, <1>5, <1>6, <1>7, <1>8
  DEF TypeOK, Job, SetBorders, fixed, strings, reading, printed

\* An exit changes nothing that has a type but the place and the status.
LEMMA ExitType ==
    ASSUME TypeOK, NEW code \in {0, 1}, Exit(code)
    PROVE  TypeOK'
BY DEF TypeOK, FitsBuffer, HasBorders, Exit, fixed, settings, strings, reading

LEMMA TakeStringType ==
    ASSUME TypeOK, TakeString
    PROVE  TypeOK'
<1> DEFINE todo == <<[to |-> "text", from |-> command.strings[1]]>>
<1>1. command.strings \in Seq(Seq(Bytes)) /\ command.strings # <<>>
      /\ Len(command.options) \in Nat /\ jobs = <<>>
  BY CommandType DEF TakeString, TypeOK
<1>2. command.strings[1] \in Seq(Bytes)
  BY <1>1, LenProperties, EmptySeq, ElementOfSeq
<1>3. todo \in Seq(Job) /\ todo # <<>>
  BY <1>2 DEF Job
<1>4. Unescape(todo)
  BY DEF TakeString
<1>5. /\ jobs' \in Seq(Job) /\ jobs' # <<>>
      /\ i' = 0 /\ unescaped' \in Seq(Bytes) /\ pc' = "unescape" /\ FitsBuffer'
  <2> HIDE DEF todo
  <2> QED BY <1>3, <1>4, UnescapeType
<1>6. option' \in 1 .. Len(command.options) + 2
  BY <1>1 DEF TakeString, NextOption
<1>7. HasBorders'
  <2>1. None \notin Seq(Bytes)
    BY PrintUTF8Assumption
  <2> QED BY <1>1, <2>1, BordersGiven DEF HasBorders, TakeString, settings, strings
<1> QED
  BY <1>5, <1>6, <1>7
  DEF TypeOK, Job, TakeString, fixed, settings, strings, reading, printed

LEMMA EndOptionsType ==
    ASSUME TypeOK, EndOptions
    PROVE  TypeOK'
BY DEF TypeOK, FitsBuffer, HasBorders, EndOptions, Goto, fixed, settings, strings,
       reading, printed

-----------------------------------------------------------------------------
(* The bytes of unescape() *)

\* Bytes that are no more than the ones read keep to the buffer.
LEMMA WriteType ==
    ASSUME TypeOK, pc = "unescape", NEW count \in Nat, i + count <= Len(Original),
           NEW bytes \in Seq(Bytes), Len(bytes) <= count, Write(count, bytes)
    PROVE  TypeOK'
<1>1. i \in Nat /\ unescaped \in Seq(Bytes) /\ Len(unescaped) <= i
  BY DEF TypeOK, FitsBuffer
<1>2. Len(unescaped) \in Nat /\ Len(bytes) \in Nat
  BY <1>1, LenProperties
<1>3. unescaped' \in Seq(Bytes) /\ Len(unescaped') = Len(unescaped) + Len(bytes)
  BY <1>1, ConcatProperties DEF Write
<1>4. i' = i + count /\ jobs' = jobs
  BY DEF Write
<1>5. FitsBuffer'
  BY <1>1, <1>2, <1>3, <1>4 DEF FitsBuffer, Original
<1> QED
  BY <1>1, <1>3, <1>4, <1>5
  DEF TypeOK, HasBorders, Write, fixed, settings, strings, reading, printed

\* Behind a backslash that is not the last byte there is a letter.
LEMMA LetterType ==
    ASSUME TypeOK, AtEscape
    PROVE  /\ pc = "unescape" /\ i + 2 <= Len(Original) /\ Letter \in Bytes
           /\ Original \in Seq(Bytes) /\ Len(Original) \in Nat /\ i \in Nat
<1>1. pc = "unescape" /\ i \in Nat /\ i + 1 < Len(Original)
  BY DEF TypeOK, AtEscape, Unescaping
<1>2. Original \in Seq(Bytes) /\ Len(Original) \in Nat
  BY <1>1, OriginalType
<1>3. Letter \in Bytes
  BY <1>1, <1>2, ElementOfSeq DEF Letter
<1> QED BY <1>1, <1>2, <1>3

\* Each way of writing a byte keeps within the buffer.
LEMMA CopyByteType ==
    ASSUME TypeOK, CopyByte
    PROVE  TypeOK'
<1> DEFINE count == 1
           bytes == <<Original[i + 1]>>
<1>1. pc = "unescape" /\ i < Len(Original) /\ i \in Nat
  BY DEF CopyByte, Unescaping, TypeOK
<1>2. Original \in Seq(Bytes) /\ Len(Original) \in Nat
  BY <1>1, OriginalType
<1>3. Original[i + 1] \in Bytes
  BY <1>1, <1>2, ElementOfSeq
<1>4. bytes \in Seq(Bytes) /\ Len(bytes) <= count
  BY <1>3
<1>5. Write(count, bytes) /\ i + count <= Len(Original)
  BY <1>1, <1>2 DEF CopyByte
<1>6. count \in Nat
  OBVIOUS
<1> QED
  <2> HIDE DEF count, bytes
  <2> QED BY <1>1, <1>4, <1>5, <1>6, WriteType

LEMMA ControlEscapeType ==
    ASSUME TypeOK, ControlEscape
    PROVE  TypeOK'
<1> DEFINE count == 2
           bytes == <<ControlByte(Letter)>>
<1>1. AtEscape /\ Letter \in ControlLetters /\ Write(count, bytes)
  BY DEF ControlEscape
<1>2. ControlByte(Letter) \in Bytes
  BY <1>1, PrintUTF8Assumption DEF ControlLetters, ControlByte
<1>3. bytes \in Seq(Bytes) /\ Len(bytes) <= count
  BY <1>2
<1>4. pc = "unescape" /\ i + count <= Len(Original)
  BY <1>1, LetterType
<1>5. count \in Nat
  OBVIOUS
<1> QED
  <2> HIDE DEF count, bytes
  <2> QED BY <1>1, <1>3, <1>4, <1>5, WriteType

LEMMA NumericEscapeType ==
    ASSUME TypeOK, NumericEscape
    PROVE  TypeOK'
<1> DEFINE count == 2 + DigitsAfter[Letter]
           bytes == IF Letter \in {"u", "U"} THEN Wctomb(Digits) ELSE <<ByteOf(Digits)>>
<1>1. /\ AtEscape /\ Letter \in DOMAIN DigitsAfter /\ AllDigits /\ ValidDigits
      /\ Write(count, bytes)
  BY DEF NumericEscape
<1>2. /\ pc = "unescape" /\ Original \in Seq(Bytes) /\ Len(Original) \in Nat
      /\ i \in Nat
  BY <1>1, LetterType
<1>3. DigitsAfter[Letter] \in Nat
  BY <1>1 DEF DigitsAfter
<1>4. bytes \in Seq(Bytes) /\ Len(bytes) <= count
  <2>1. /\ Letter \in {"u", "U"} =>
              Wctomb(Digits) \in Seq(Bytes)
              /\ Len(Wctomb(Digits)) <= DigitsAfter[Letter] + 2
        /\ Letter \notin {"u", "U"} => ByteOf(Digits) \in Bytes
    BY <1>1, <1>2, DigitsType
  <2>2. CASE Letter \in {"u", "U"}
    BY <2>1, <2>2, <1>3, LenProperties
  <2>3. CASE Letter \notin {"u", "U"}
    <3>1. <<ByteOf(Digits)>> \in Seq(Bytes) /\ Len(<<ByteOf(Digits)>>) = 1
      BY <2>1, <2>3
    <3> QED BY <3>1, <2>3, <1>3
  <2> QED BY <2>2, <2>3
<1>5. count \in Nat /\ i + count <= Len(Original)
  BY <1>1, <1>2, <1>3 DEF AllDigits
<1> QED
  <2> HIDE DEF count, bytes
  <2> QED BY <1>1, <1>2, <1>4, <1>5, WriteType

LEMMA ShortEscapeType ==
    ASSUME TypeOK, ShortEscape
    PROVE  TypeOK'
<1> DEFINE count == 2
           bytes == <<>>
<1>1. AtEscape /\ Write(count, bytes)
  BY DEF ShortEscape
<1>2. bytes \in Seq(Bytes) /\ Len(bytes) <= count
  BY EmptySeq
<1>3. pc = "unescape" /\ i + count <= Len(Original)
  BY <1>1, LetterType
<1>4. count \in Nat
  OBVIOUS
<1> QED
  <2> HIDE DEF count, bytes
  <2> QED BY <1>1, <1>2, <1>3, <1>4, WriteType

LEMMA UnknownEscapeType ==
    ASSUME TypeOK, UnknownEscape
    PROVE  TypeOK'
<1> DEFINE count == 2
           bytes == <<"\\", Letter>>
<1>1. AtEscape /\ Write(count, bytes)
  BY DEF UnknownEscape
<1>2. "\\" \in Bytes /\ Letter \in Bytes
  BY <1>1, LetterType, PrintUTF8Assumption
<1>3. bytes \in Seq(Bytes) /\ Len(bytes) <= count
  BY <1>2
<1>4. pc = "unescape" /\ i + count <= Len(Original)
  BY <1>1, LetterType
<1>5. count \in Nat
  OBVIOUS
<1> QED
  <2> HIDE DEF count, bytes
  <2> QED BY <1>1, <1>3, <1>4, <1>5, WriteType

\* A variable is left alone, or gets the string that ends here.
LEMMA StoreType ==
    ASSUME TypeOK, pc = "unescape", NEW variable, NEW old \in Seq(Bytes) \cup {None}
    PROVE  /\ Store(variable, old) \in Seq(Bytes) \cup {None}
           /\ Store(variable, old) = None => old = None /\ jobs[1].to # variable
<1>1. CString(unescaped) \in Seq(Bytes)
  BY CStringType DEF TypeOK
<1>2. None \notin Seq(Bytes)
  BY PrintUTF8Assumption
<1> QED BY <1>1, <1>2 DEF Store

\* A border that is not given yet is among the strings that are left.
LEMMA StillToUnescape ==
    ASSUME jobs \in Seq(Job), jobs # <<>>, NEW variable, jobs[1].to # variable,
           \E k \in DOMAIN jobs : jobs[k].to = variable
    PROVE  \E k \in DOMAIN Tail(jobs) : Tail(jobs)[k].to = variable
<1>1. PICK k \in DOMAIN jobs : jobs[k].to = variable
  OBVIOUS
<1>2. k \in 2 .. Len(jobs) /\ Len(jobs) \in Nat
  BY <1>1, LenProperties
<1>3. /\ Tail(jobs) \in Seq(Job) /\ Len(Tail(jobs)) = Len(jobs) - 1
      /\ \A n \in 1 .. Len(Tail(jobs)) : Tail(jobs)[n] = jobs[n + 1]
  BY HeadTailProperties
<1>4. k - 1 \in DOMAIN Tail(jobs)
  BY <1>2, <1>3, LenProperties
<1>5. Tail(jobs)[k - 1] = jobs[(k - 1) + 1] /\ (k - 1) + 1 = k
  BY <1>2, <1>3
<1>6. Tail(jobs)[k - 1].to = variable
  BY <1>1, <1>5
<1> QED BY <1>4, <1>6

\* The next string is begun, or the options go on.
LEMMA EndUnescapeType ==
    ASSUME TypeOK, EndUnescape
    PROVE  TypeOK'
<1>1. pc = "unescape" /\ jobs \in Seq(Job) /\ jobs # <<>>
  BY DEF EndUnescape, TypeOK, Job
<1>2. Len(jobs) \in Nat /\ Len(jobs) > 0
  BY <1>1, LenProperties, EmptySeq
<1>3. /\ jobs' = Tail(jobs) /\ jobs' \in Seq(Job) /\ Len(jobs') = Len(jobs) - 1
      /\ Len(jobs') \in Nat
  BY <1>1, HeadTailProperties, LenProperties DEF EndUnescape
<1>4. left' \in Seq(Bytes) \cup {None} /\ (left' = None => left = None /\ jobs[1].to # "left")
  <2>1. left \in Seq(Bytes) \cup {None}
    BY DEF TypeOK
  <2> QED BY <1>1, <2>1, StoreType DEF EndUnescape
<1>5. right' \in Seq(Bytes) \cup {None} /\ (right' = None => right = None /\ jobs[1].to # "right")
  <2>1. right \in Seq(Bytes) \cup {None}
    BY DEF TypeOK
  <2> QED BY <1>1, <2>1, StoreType DEF EndUnescape
<1>6. text' \in Seq(Bytes) \cup {None}
  <2>1. text \in Seq(Bytes) \cup {None}
    BY DEF TypeOK
  <2> QED BY <1>1, <2>1, StoreType DEF EndUnescape
<1>7. HasBorders'
  <2> SUFFICES ASSUME mode \in {MultiLineOrSeparator[o] : o \in DOMAIN MultiLineOrSeparator}
               PROVE  /\ left' = None => \E k \in DOMAIN Tail(jobs) : Tail(jobs)[k].to = "left"
                      /\ right' = None => \E k \in DOMAIN Tail(jobs) : Tail(jobs)[k].to = "right"
    BY <1>3 DEF HasBorders, EndUnescape, settings
  <2>1. /\ left = None => \E k \in DOMAIN jobs : jobs[k].to = "left"
        /\ right = None => \E k \in DOMAIN jobs : jobs[k].to = "right"
    BY DEF TypeOK, HasBorders
  <2> QED BY <1>1, <1>4, <1>5, <2>1, StillToUnescape
<1>8. CASE Len(jobs) > 1
  <2>1. pc' = "unescape" /\ jobs' # <<>>
    <3>1. pc' = "unescape"
      BY <1>8 DEF EndUnescape
    <3>2. Len(jobs') # 0
      BY <1>2, <1>3, <1>8
    <3>3. jobs' # <<>>
      BY <3>2
    <3> QED BY <3>1, <3>3
  <2>2. jobs'[1] \in Job
    BY <1>2, <1>3, <1>8, ElementOfSeq
  <2>3. Len(jobs'[1].from) \in Nat
    BY <2>2, LenProperties DEF Job
  <2>4. i' = 0 /\ unescaped' \in Seq(Bytes) /\ Len(unescaped') = 0
    BY EmptySeq DEF EndUnescape
  <2>5. FitsBuffer'
    BY <2>3, <2>4 DEF FitsBuffer, Original
  <2> QED
    BY <1>3, <1>4, <1>5, <1>6, <1>7, <2>1, <2>4, <2>5
    DEF TypeOK, Job, EndUnescape, fixed, settings, reading, printed
<1>9. CASE ~(Len(jobs) > 1)
  <2>1. pc' = "options" /\ Len(jobs') = 0
    BY <1>2, <1>3, <1>9 DEF EndUnescape
  <2>2. jobs' = <<>>
    BY <1>3, <2>1, EmptySeq
  <2>3. i' = 0 /\ unescaped' \in Seq(Bytes)
    BY EmptySeq DEF EndUnescape
  <2>4. FitsBuffer'
    BY <2>1 DEF FitsBuffer
  <2> QED
    BY <1>3, <1>4, <1>5, <1>6, <1>7, <2>1, <2>2, <2>3, <2>4
    DEF TypeOK, Job, EndUnescape, fixed, settings, reading, printed
<1> QED BY <1>8, <1>9

-----------------------------------------------------------------------------
(* The commands *)

\* Reading begins without a line.
LEMMA StartReadingType ==
    ASSUME TypeOK, StartReading
    PROVE  TypeOK'
<1>1. pc = "command" /\ mode \in {"MultiLineIndent", "MultiLineCenter"}
  BY DEF StartReading, At
<1>2. pc' = "read" /\ UNCHANGED <<fixed, option, settings, strings, jobs, i, unescaped,
                                  reading, status>>
  BY DEF StartReading, printed
<1>3. Len(lines) = 0
  BY <1>1 DEF TypeOK
<1>4. Len(lines) < MaxLines
  BY <1>3, PrintUTF8Assumption
<1> QED
  BY <1>1, <1>2, <1>4
  DEF TypeOK, FitsBuffer, HasBorders, fixed, settings, strings, reading

-----------------------------------------------------------------------------
(* Several lines *)

\* A line is stored while there is room for it, and read no more without.
LEMMA ReadLineType ==
    ASSUME TypeOK, ReadLine
    PROVE  TypeOK'
<1>1. /\ pc = "read" /\ stdin \in Seq(Bytes) /\ stdin # <<>>
      /\ lines \in Seq(Seq(Bytes)) /\ Len(lines) < MaxLines
  BY DEF ReadLine, TypeOK
<1>2. Taken \in 1 .. Len(stdin) /\ Len(stdin) \in Nat /\ Len(lines) \in Nat
  BY <1>1, TakenEnd, LenProperties
<1>3. SubSeq(stdin, 1, Taken) \in Seq(Bytes)
  BY <1>1, <1>2, Prefix
<1>4. stdin' \in Seq(Bytes)
  <2>1. \A k \in Taken + 1 .. Len(stdin) : stdin[k] \in Bytes
    BY <1>1, <1>2, ElementOfSeq
  <2> HIDE DEF Taken
  <2>2. SubSeq(stdin, Taken + 1, Len(stdin)) \in Seq(Bytes)
    BY <1>2, <2>1, SubSeqProperties
  <2> QED BY <2>2 DEF ReadLine
<1>5. lines' \in Seq(Seq(Bytes)) /\ Len(lines') = Len(lines) + 1
  <2>1. Line(SubSeq(stdin, 1, Taken)) \in Seq(Bytes)
    BY <1>3, LineType
  <2> QED BY <1>1, <2>1, AppendProperties DEF ReadLine
<1>6. Len(lines') <= MaxLines
  BY <1>1, <1>2, <1>5, PrintUTF8Assumption
<1>7. /\ pc' \in {"read", "borders"}
      /\ pc' = "read" => Len(lines') < MaxLines
  BY <1>2, <1>5, PrintUTF8Assumption DEF ReadLine
<1> QED
  BY <1>1, <1>4, <1>5, <1>6, <1>7
  DEF TypeOK, FitsBuffer, HasBorders, ReadLine, fixed, settings, strings, printed

\* The other steps with several lines.
LEMMA EndOfInputType ==
    ASSUME TypeOK, EndOfInput
    PROVE  TypeOK'
BY DEF TypeOK, FitsBuffer, HasBorders, EndOfInput, Goto, fixed, settings, strings,
       reading, printed

LEMMA MeasureBordersType ==
    ASSUME TypeOK, MeasureBorders
    PROVE  TypeOK'
BY DEF TypeOK, FitsBuffer, HasBorders, MeasureBorders, Goto, fixed, settings, strings,
       reading, printed

LEMMA PrintLineType ==
    ASSUME TypeOK, PrintLine
    PROVE  TypeOK'
BY DEF TypeOK, FitsBuffer, HasBorders, PrintLine, fixed, settings, strings, reading

-----------------------------------------------------------------------------
(* All actions *)

\* The actions of each part, one after the other.
LEMMA InitType == Init => TypeOK
<1> SUFFICES ASSUME Init
             PROVE  TypeOK
  OBVIOUS
<1>1. option \in 1 .. Len(command.options) + 2
  BY CommandType DEF Init
<1>2. mode \in Modes
  BY DEF Init, Modes, ModeOf
<1>3. HasBorders
  BY ModeNames DEF Init, HasBorders
<1>4. <<>> \in Seq(Bytes) /\ <<>> \in Seq(Seq(Bytes)) /\ <<>> \in Seq(Job)
  BY EmptySeq
<1>5. Len(lines) = 0
  BY DEF Init
<1>6. stdin \in Seq(Bytes) /\ console \in Int /\ MaxLines \in Nat \ {0}
  BY PrintUTF8Assumption DEF Init
<1>7. /\ command \in CommandLines /\ console \in Consoles /\ pc = "options"
      /\ indentWidth = 0 /\ columns = console /\ newline = FALSE /\ status = 0
      /\ left = None /\ right = None /\ text = None
      /\ jobs = <<>> /\ i = 0 /\ unescaped = <<>> /\ lines = <<>>
  BY DEF Init
<1>8. FitsBuffer
  BY <1>7 DEF FitsBuffer
<1>9. /\ jobs \in Seq([to : {"left", "right", "text"}, from : Seq(Bytes)])
      /\ unescaped \in Seq(Bytes) /\ lines \in Seq(Seq(Bytes))
      /\ Len(lines) <= MaxLines
  BY <1>4, <1>5, <1>6, <1>7 DEF Job
<1>10. indentWidth \in Int /\ columns \in Int /\ i \in Nat
  BY <1>6, <1>7
<1>11. newline \in BOOLEAN
  BY <1>7, Zenon
<1>12. /\ left \in Seq(Bytes) \cup {None} /\ right \in Seq(Bytes) \cup {None}
       /\ text \in Seq(Bytes) \cup {None}
  BY <1>7
<1>13. /\ pc = "unescape" => jobs # <<>>
       /\ pc \notin {"unescape", "done"} => jobs = <<>>
       /\ pc = "read" => Len(lines) < MaxLines
       /\ pc \in {"options", "unescape", "command"} => lines = <<>>
       /\ pc \in {"read", "borders", "print"} =>
            mode \in {"MultiLineIndent", "MultiLineCenter"}
  BY <1>7
<1> QED
  BY <1>1, <1>2, <1>3, <1>6, <1>7, <1>8, <1>9, <1>10, <1>11, <1>12, <1>13, Zenon
  DEF TypeOK

LEMMA OptionsType ==
    ASSUME TypeOK, Options
    PROVE  TypeOK'
<1>1. CASE \E o \in DOMAIN ModeOf : SetMode(o)
  BY <1>1, SetModeType
<1>2. CASE \E o \in DOMAIN MultiLineOrSeparator : SetBorders(o)
  BY <1>2, SetBordersType
<1>3. CASE SetNewline \/ SetColumns
  BY <1>3, SetNewlineType, SetColumnsType
<1>4. CASE RefuseOption \/ ShowHelp \/ RefuseString
  BY <1>4, ExitType DEF RefuseOption, ShowHelp, RefuseString
<1>5. CASE TakeString
  BY <1>5, TakeStringType
<1>6. CASE EndOptions
  BY <1>6, EndOptionsType
<1> QED BY <1>1, <1>2, <1>3, <1>4, <1>5, <1>6 DEF Options

LEMMA UnescapesType ==
    ASSUME TypeOK, Unescapes
    PROVE  TypeOK'
<1>1. CASE CopyByte \/ ControlEscape \/ NumericEscape
  BY <1>1, CopyByteType, ControlEscapeType, NumericEscapeType
<1>2. CASE ShortEscape \/ UnknownEscape
  BY <1>2, ShortEscapeType, UnknownEscapeType
<1>3. CASE RefuseDigit
  BY <1>3, ExitType DEF RefuseDigit
<1>4. CASE EndUnescape
  BY <1>4, EndUnescapeType
<1> QED BY <1>1, <1>2, <1>3, <1>4 DEF Unescapes

LEMMA CommandsType ==
    ASSUME TypeOK, Commands
    PROVE  TypeOK'
<1>1. CASE PrintNothing \/ PrintText
  BY <1>1, ExitType DEF PrintNothing, PrintText
<1>2. CASE PrintNumbers \/ PrintTerminalInfo
  BY <1>2, ExitType DEF PrintNumbers, PrintTerminalInfo
<1>3. CASE RefuseText
  BY <1>3, ExitType DEF RefuseText
<1>4. CASE StartReading
  BY <1>4, StartReadingType
<1> QED BY <1>1, <1>2, <1>3, <1>4 DEF Commands

LEMMA MultiLineType ==
    ASSUME TypeOK, MultiLine
    PROVE  TypeOK'
<1>1. CASE ReadLine \/ EndOfInput
  BY <1>1, ReadLineType, EndOfInputType
<1>2. CASE MeasureBorders \/ PrintLine
  BY <1>2, MeasureBordersType, PrintLineType
<1>3. CASE RefuseBorders \/ RefuseLine \/ EndPrinting
  BY <1>3, ExitType DEF RefuseBorders, RefuseLine, EndPrinting
<1> QED BY <1>1, <1>2, <1>3 DEF MultiLine

(***************************************************************************)
(* For any command line, any input and any terminal: unescape() stays      *)
(* within the buffer it has allocated, no more lines are stored than       *)
(* lineArray holds, no mode with borders runs without them, and every      *)
(* variable has its type.                                                  *)
(***************************************************************************)
THEOREM MemoryKept == Spec => []TypeOK
<1>1. Init => TypeOK
  BY InitType
<1>2. TypeOK /\ [Next]_vars => TypeOK'
  <2> SUFFICES ASSUME TypeOK, [Next]_vars
               PROVE  TypeOK'
    OBVIOUS
  <2>1. CASE Next
    BY <2>1, OptionsType, UnescapesType, CommandsType, MultiLineType DEF Next
  <2>2. CASE UNCHANGED vars
    BY <2>2 DEF TypeOK, FitsBuffer, Original, HasBorders, vars, fixed, settings,
                strings, reading, printed
  <2> QED BY <2>1, <2>2
<1> QED BY <1>1, <1>2, PTL DEF Spec

-----------------------------------------------------------------------------
(* Folds.  One is defined by a table of all subsets of the positions. *)

\* A table for a fold over n positions with a function for each step.
IsTable(g, n, base, step) ==
    g = [s \in SUBSET (1 .. n) |->
           IF s = {} THEN base ELSE step[Max(s)][g[s \ {Max(s)}]]]

\* Such a table exists: the tables of the prefixes do, one after the other.
LEMMA FoldTable ==
    ASSUME NEW n \in Nat, NEW S, NEW base \in S, NEW step \in [1 .. n -> [S -> S]]
    PROVE  \E g \in [SUBSET (1 .. n) -> S] : IsTable(g, n, base, step)
<1> USE DEF IsTable
<1> DEFINE Table(m) == \E g \in [SUBSET (1 .. m) -> S] :
             g = [s \in SUBSET (1 .. m) |->
                    IF s = {} THEN base ELSE step[Max(s)][g[s \ {Max(s)}]]]
           Bad == {m \in 0 .. n : ~Table(m)}
<1> SUFFICES ASSUME Bad # {}  PROVE FALSE
  <2> HIDE DEF Table
  <2>1. n \in 0 .. n /\ Table(n)
    OBVIOUS
  <2> QED BY <2>1 DEF Table
<1>1. PICK m \in Bad : \A k \in Bad : m <= k
  <2>1. Bad \subseteq Nat
    <3> HIDE DEF Table
    <3> QED OBVIOUS
  <2> HIDE DEF Bad
  <2> QED BY <2>1, FirstPosition
<1>2. m # 0
  <2>1. Table(0)
    <3> DEFINE g == [s \in SUBSET (1 .. 0) |-> base]
    <3>1. \A s \in SUBSET (1 .. 0) : s = {}
      OBVIOUS
    <3> WITNESS g \in [SUBSET (1 .. 0) -> S]
    <3> QED BY <3>1
  <2> QED BY <2>1
<1>0. m \in 0 .. n /\ ~Table(m)
  <2> HIDE DEF Table
  <2> QED BY <1>1
<1>3. m \in 1 .. n /\ m - 1 \in 0 .. n /\ Table(m - 1)
  <2> HIDE DEF Table
  <2> QED BY <1>0, <1>1, <1>2
<1>4. PICK g \in [SUBSET (1 .. m - 1) -> S] :
             g = [s \in SUBSET (1 .. m - 1) |->
                    IF s = {} THEN base ELSE step[Max(s)][g[s \ {Max(s)}]]]
  BY <1>3
<1> DEFINE h == [s \in SUBSET (1 .. m) |->
                   IF m \in s THEN step[m][g[s \ {m}]] ELSE g[s]]
<1>5. ASSUME NEW s \in SUBSET (1 .. m)
      PROVE  /\ m \in s => s \ {m} \in SUBSET (1 .. m - 1) /\ Max(s) = m
             /\ m \notin s => s \in SUBSET (1 .. m - 1)
  <2>1. \A x \in s : x \in 1 .. m /\ x <= m
    BY <1>3
  <2>2. ASSUME m \in s  PROVE Max(s) = m
    <3>1. \A x \in s : (\A y \in s : x >= y) => x = m
      BY <2>1, <2>2, <1>3
    <3>2. \A y \in s : m >= y
      BY <2>1, <1>3
    <3> QED BY <2>2, <3>1, <3>2 DEF Max
  <2>3. \A x \in 1 .. m : x # m => x \in 1 .. m - 1
    BY <1>3
  <2> QED BY <2>1, <2>2, <2>3
<1>6. h \in [SUBSET (1 .. m) -> S]
  <2> SUFFICES ASSUME NEW s \in SUBSET (1 .. m)
               PROVE  (IF m \in s THEN step[m][g[s \ {m}]] ELSE g[s]) \in S
    OBVIOUS
  <2>1. step[m] \in [S -> S]
    BY <1>3
  <2> QED BY <1>4, <1>5, <2>1
<1>7. ASSUME NEW s \in SUBSET (1 .. m)
      PROVE  h[s] = IF s = {} THEN base ELSE step[Max(s)][h[s \ {Max(s)}]]
  <2>1. CASE m \in s
    <3>1. h[s \ {m}] = g[s \ {m}]
      BY <1>5, <2>1
    <3> QED BY <1>5, <2>1, <3>1
  <2>2. CASE m \notin s
    <3>1. s \in SUBSET (1 .. m - 1) /\ h[s] = g[s]
      BY <1>5, <2>2
    <3>2. CASE s = {}
      BY <1>4, <3>1, <3>2
    <3>3. CASE s # {}
      <4>1. s \ {Max(s)} \in SUBSET (1 .. m - 1) /\ m \notin s \ {Max(s)}
        BY <2>2, <3>1
      <4> QED BY <1>4, <3>1, <3>3, <4>1
    <3> QED BY <3>2, <3>3
  <2> QED BY <2>1, <2>2
<1>8. Table(m)
  <2> HIDE DEF h
  <2> QED BY <1>6, <1>7
<1> QED BY <1>0, <1>8

\* A set of positions has a greatest one.
LEMMA MaxPosition ==
    ASSUME NEW n \in Nat, NEW S \in SUBSET (1 .. n), S # {}
    PROVE  Max(S) \in S /\ \A x \in S : x <= Max(S)
<1> DEFINE T == {n - x : x \in S}
<1>1. PICK p \in T : \A q \in T : p <= q
  <2>1. \A x \in S : x \in 1 .. n /\ n - x \in Nat
    OBVIOUS
  <2>2. T \subseteq Nat /\ T # {}
    BY <2>1
  <2> HIDE DEF T
  <2> QED BY <2>2, FirstPosition
<1>2. PICK m \in S : p = n - m
  OBVIOUS
<1>3. ASSUME NEW x \in S  PROVE x <= m
  <2>1. n - x \in T /\ x \in 1 .. n /\ m \in 1 .. n
    OBVIOUS
  <2>2. p <= n - x
    BY <1>1, <2>1
  <2> QED BY <1>2, <2>1, <2>2
<1>4. m \in S /\ \A x \in S : m >= x
  <2>1. \A x \in S : x \in 1 .. n
    OBVIOUS
  <2> QED BY <1>3, <2>1
<1>5. \A x \in S : x \in 1 .. n
  OBVIOUS
<1> HIDE DEF T
<1> QED BY <1>4, <1>5 DEF Max

\* The positions up to k, without the last one.
LEMMA UpTo ==
    ASSUME NEW k \in Nat \ {0}
    PROVE  1 .. k # {} /\ Max(1 .. k) = k /\ (1 .. k) \ {k} = 1 .. k - 1
<1>1. \A x \in 1 .. k : (\A y \in 1 .. k : x >= y) <=> x = k
  OBVIOUS
<1>2. Max(1 .. k) = k
  BY <1>1 DEF Max
<1> QED BY <1>2

\* The table of a fold, as far as it stays among the states S.
Follows(table, n, S, base, step) ==
    /\ table[{}] = base
    /\ \A z \in SUBSET (1 .. n) :
         z # {} /\ table[z \ {Max(z)}] \in S =>
           table[z] = step[Max(z)][table[z \ {Max(z)}]]

\* The states that a fold goes through.
IsPath(f, n, base, step, end) ==
    /\ f[0] = base /\ f[n] = end
    /\ \A k \in 1 .. n : f[k] = step[k][f[k - 1]]

\* A table of all prefixes is the path of states that a fold goes along.
LEMMA FoldPath ==
    ASSUME NEW n \in Nat, NEW S, NEW base \in S, NEW step \in [1 .. n -> [S -> S]],
           NEW table, Follows(table, n, S, base, step)
    PROVE  \E f \in [0 .. n -> S] : IsPath(f, n, base, step, table[1 .. n])
<1> USE DEF IsPath
<1> DEFINE f == [k \in 0 .. n |-> table[1 .. k]]
           Bad == {k \in 0 .. n : f[k] \notin S}
<1>1. f[0] = base /\ f[n] = table[1 .. n]
  <2>1. 1 .. 0 = {} /\ 0 \in 0 .. n /\ n \in 0 .. n
    OBVIOUS
  <2> QED BY <2>1 DEF Follows
<1>2. ASSUME NEW k \in 1 .. n, f[k - 1] \in S
      PROVE  f[k] = step[k][f[k - 1]] /\ f[k] \in S
  <2>1. /\ 1 .. k \in SUBSET (1 .. n) /\ k - 1 \in 0 .. n /\ k \in 0 .. n
        /\ k \in Nat \ {0}
    OBVIOUS
  <2>2. 1 .. k # {} /\ Max(1 .. k) = k /\ (1 .. k) \ {k} = 1 .. k - 1
    BY <2>1, UpTo
  <2>3. f[k] = table[1 .. k] /\ f[k - 1] = table[1 .. k - 1]
    BY <2>1
  <2> HIDE DEF f
  <2>4. f[k] = step[k][f[k - 1]]
    <3>1. table[(1 .. k) \ {Max(1 .. k)}] = f[k - 1]
      BY <2>2, <2>3
    <3>2. table[1 .. k] = step[Max(1 .. k)][table[(1 .. k) \ {Max(1 .. k)}]]
      BY <1>2, <2>1, <2>2, <3>1 DEF Follows
    <3> QED BY <2>2, <2>3, <3>1, <3>2
  <2> QED BY <1>2, <2>4
<1>3. Bad = {}
  <2> SUFFICES ASSUME Bad # {}  PROVE FALSE
    OBVIOUS
  <2>1. PICK k \in Bad : \A j \in Bad : k <= j
    <3>1. Bad \subseteq Nat
      OBVIOUS
    <3> HIDE DEF Bad
    <3> QED BY <3>1, FirstPosition
  <2> HIDE DEF f
  <2>2. k \in 1 .. n /\ k - 1 \in 0 .. n /\ f[k - 1] \in S
    BY <1>1, <2>1
  <2> QED BY <1>2, <2>1, <2>2
<1>4. f \in [0 .. n -> S]
  BY <1>3
<1>5. \A k \in 1 .. n : f[k - 1] \in S
  <2>1. \A k \in 1 .. n : k - 1 \in 0 .. n
    OBVIOUS
  <2> HIDE DEF f
  <2> QED BY <1>4, <2>1
<1> HIDE DEF f
<1> QED BY <1>1, <1>2, <1>4, <1>5

-----------------------------------------------------------------------------
(* The folds of the model, as paths of states. *)

ScanStates(C) == [ansi : BOOLEAN, kept : Seq(C)]
ScanStart == [ansi |-> FALSE, kept |-> <<>>]
ScanStep(state, b) ==
    IF state.ansi THEN [state EXCEPT !.ansi = b \notin Letters]
    ELSE IF b = "ESC" THEN [state EXCEPT !.ansi = TRUE]
    ELSE [state EXCEPT !.kept = Append(@, b)]

\* Scan() goes through a string byte by byte.
LEMMA ScanSteps ==
    ASSUME NEW C, NEW s \in Seq(C)
    PROVE  \E f \in [0 .. Len(s) -> ScanStates(C)] :
             /\ f[0] = ScanStart /\ Scan(s) = f[Len(s)]
             /\ \A k \in 1 .. Len(s) : f[k] = ScanStep(f[k - 1], s[k])
<1> DEFINE n == Len(s)
           S == ScanStates(C)
           Table(g) == g = [z \in SUBSET (1 .. n) |->
                              IF z = {} THEN ScanStart
                              ELSE ScanStep(g[z \ {Max(z)}], s[Max(z)])]
           table == CHOOSE g : Table(g)
           step == [k \in 1 .. n |-> [state \in S |-> ScanStep(state, s[k])]]
<1>1. n \in Nat /\ DOMAIN s = 1 .. n /\ \A k \in 1 .. n : s[k] \in C
  BY LenProperties, ElementOfSeq
<1>2. ScanStart \in S
  BY DEF ScanStart, ScanStates
<1>3. ASSUME NEW state \in S, NEW b \in C  PROVE ScanStep(state, b) \in S
  <2>1. Append(state.kept, b) \in Seq(C)
    BY <1>3, AppendProperties DEF ScanStates
  <2> QED BY <1>3, <2>1 DEF ScanStep, ScanStates
<1>4. step \in [1 .. n -> [S -> S]]
  BY <1>1, <1>3
<1>5. ASSUME NEW g, NEW z \in SUBSET (1 .. n), z # {}, g[z \ {Max(z)}] \in S
      PROVE  step[Max(z)][g[z \ {Max(z)}]] = ScanStep(g[z \ {Max(z)}], s[Max(z)])
  <2>1. Max(z) \in 1 .. n
    BY <1>1, <1>5, MaxPosition
  <2> QED BY <1>5, <2>1
<1>6. \E g : Table(g)
  <2>1. PICK g \in [SUBSET (1 .. n) -> S] : IsTable(g, n, ScanStart, step)
    <3>1. n \in Nat
      BY <1>1
    <3> HIDE DEF step, S, n
    <3> QED BY <3>1, <1>2, <1>4, FoldTable
  <2> HIDE DEF step
  <2>2. ASSUME NEW z \in SUBSET (1 .. n)
        PROVE  g[z] = IF z = {} THEN ScanStart
                      ELSE ScanStep(g[z \ {Max(z)}], s[Max(z)])
    <3>1. z \ {Max(z)} \in SUBSET (1 .. n)
      OBVIOUS
    <3>2. g[z \ {Max(z)}] \in S
      BY <3>1, <2>1
    <3> QED BY <2>1, <3>2, <1>5 DEF IsTable
  <2>3. g = [z \in SUBSET (1 .. n) |-> g[z]]
    OBVIOUS
  <2>4. Table(g)
    <3> HIDE DEF n, S
    <3> QED BY <2>2, <2>3
  <2> HIDE DEF Table
  <2> QED BY <2>4
<1>7. Table(table)
  <2> HIDE DEF Table
  <2> QED BY <1>6
<1>8. table[{}] = ScanStart
  <2> HIDE DEF table
  <2> QED BY <1>7
<1>9. Follows(table, n, S, ScanStart, step)
  <2> HIDE DEF table, step
  <2> QED BY <1>5, <1>7, <1>8 DEF Follows
<1>10. Scan(s) = table[1 .. n]
  BY <1>1 DEF Scan, ScanStart, ScanStep, FoldLeft, MapThenFoldSet
<1>11. PICK f \in [0 .. n -> S] : IsPath(f, n, ScanStart, step, table[1 .. n])
  <2>1. n \in Nat
    BY <1>1
  <2> HIDE DEF table, step, S, n
  <2> QED BY <2>1, <1>2, <1>4, <1>9, FoldPath
<1>12. \A k \in 1 .. n : f[k] = ScanStep(f[k - 1], s[k])
  <2>1. \A k \in 1 .. n : k - 1 \in 0 .. n
    BY <1>1
  <2> HIDE DEF table
  <2> QED BY <1>11, <2>1 DEF IsPath
<1> HIDE DEF table
<1> QED BY <1>10, <1>11, <1>12 DEF IsPath

WidthStart == 0
WidthStep(n, b) == n + Columns(b)

\* wcswidth() adds up the columns of the characters.
LEMMA WidthSteps ==
    ASSUME NEW C, NEW s \in Seq(C),
           \A k \in DOMAIN s : s[k] \notin {"CTRL", "LF", "CR", "ESC"}
    PROVE  \E f \in [0 .. Len(s) -> Nat] :
             /\ f[0] = WidthStart /\ Wcswidth(s) = f[Len(s)]
             /\ \A k \in 1 .. Len(s) : f[k] = WidthStep(f[k - 1], s[k])
<1> DEFINE n == Len(s)
           S == Nat
           Table(g) == g = [z \in SUBSET (1 .. n) |->
                              IF z = {} THEN WidthStart
                              ELSE WidthStep(g[z \ {Max(z)}], s[Max(z)])]
           table == CHOOSE g : Table(g)
           step == [k \in 1 .. n |-> [state \in S |-> WidthStep(state, s[k])]]
<1>1. n \in Nat /\ DOMAIN s = 1 .. n /\ \A k \in 1 .. n : s[k] \in C
  BY LenProperties, ElementOfSeq
<1>2. WidthStart \in S
  BY DEF WidthStart
<1>3. ASSUME NEW state \in S, NEW b \in C  PROVE WidthStep(state, b) \in S
  BY DEF WidthStep, Columns
<1>4. step \in [1 .. n -> [S -> S]]
  BY <1>1, <1>3
<1>5. ASSUME NEW g, NEW z \in SUBSET (1 .. n), z # {}, g[z \ {Max(z)}] \in S
      PROVE  step[Max(z)][g[z \ {Max(z)}]] = WidthStep(g[z \ {Max(z)}], s[Max(z)])
  <2>1. Max(z) \in 1 .. n
    BY <1>1, <1>5, MaxPosition
  <2> QED BY <1>5, <2>1
<1>6. \E g : Table(g)
  <2>1. PICK g \in [SUBSET (1 .. n) -> S] : IsTable(g, n, WidthStart, step)
    <3>1. n \in Nat
      BY <1>1
    <3> HIDE DEF step, S, n
    <3> QED BY <3>1, <1>2, <1>4, FoldTable
  <2> HIDE DEF step
  <2>2. ASSUME NEW z \in SUBSET (1 .. n)
        PROVE  g[z] = IF z = {} THEN WidthStart
                      ELSE WidthStep(g[z \ {Max(z)}], s[Max(z)])
    <3>1. z \ {Max(z)} \in SUBSET (1 .. n)
      OBVIOUS
    <3>2. g[z \ {Max(z)}] \in S
      BY <3>1, <2>1
    <3> QED BY <2>1, <3>2, <1>5 DEF IsTable
  <2>3. g = [z \in SUBSET (1 .. n) |-> g[z]]
    OBVIOUS
  <2>4. Table(g)
    <3> HIDE DEF n, S
    <3> QED BY <2>2, <2>3
  <2> HIDE DEF Table
  <2> QED BY <2>4
<1>7. Table(table)
  <2> HIDE DEF Table
  <2> QED BY <1>6
<1>8. table[{}] = WidthStart
  <2> HIDE DEF table
  <2> QED BY <1>7
<1>9. Follows(table, n, S, WidthStart, step)
  <2> HIDE DEF table, step
  <2> QED BY <1>5, <1>7, <1>8 DEF Follows
<1>10. Wcswidth(s) = table[1 .. n]
  BY <1>1 DEF Wcswidth, WidthStart, WidthStep, FoldLeft, MapThenFoldSet
<1>11. PICK f \in [0 .. n -> S] : IsPath(f, n, WidthStart, step, table[1 .. n])
  <2>1. n \in Nat
    BY <1>1
  <2> HIDE DEF table, step, S, n
  <2> QED BY <2>1, <1>2, <1>4, <1>9, FoldPath
<1>12. \A k \in 1 .. n : f[k] = WidthStep(f[k - 1], s[k])
  <2>1. \A k \in 1 .. n : k - 1 \in 0 .. n
    BY <1>1
  <2> HIDE DEF table
  <2> QED BY <1>11, <2>1 DEF IsPath
<1> HIDE DEF table
<1> QED BY <1>10, <1>11, <1>12 DEF IsPath

SplitStates(C) == Seq(Seq(C)) \ {<<>>}
SplitStart == <<<<>>>>
SplitStep(done, b) ==
    IF b = "LF" THEN Append(done, <<>>)
    ELSE [done EXCEPT ![Len(done)] = Append(@, b)]
Split(s) ==
    FoldLeft(LAMBDA done, b :
               IF b = "LF" THEN Append(done, <<>>)
               ELSE [done EXCEPT ![Len(done)] = Append(@, b)],
             <<<<>>>>, s)

\* The input is split into lines byte by byte.
LEMMA SplitSteps ==
    ASSUME NEW C, NEW s \in Seq(C)
    PROVE  \E f \in [0 .. Len(s) -> SplitStates(C)] :
             /\ f[0] = SplitStart /\ Split(s) = f[Len(s)]
             /\ \A k \in 1 .. Len(s) : f[k] = SplitStep(f[k - 1], s[k])
<1> DEFINE n == Len(s)
           S == SplitStates(C)
           Table(g) == g = [z \in SUBSET (1 .. n) |->
                              IF z = {} THEN SplitStart
                              ELSE SplitStep(g[z \ {Max(z)}], s[Max(z)])]
           table == CHOOSE g : Table(g)
           step == [k \in 1 .. n |-> [state \in S |-> SplitStep(state, s[k])]]
<1>1. n \in Nat /\ DOMAIN s = 1 .. n /\ \A k \in 1 .. n : s[k] \in C
  BY LenProperties, ElementOfSeq
<1>2. SplitStart \in S
  BY DEF SplitStart, SplitStates
<1>3. ASSUME NEW state \in S, NEW b \in C  PROVE SplitStep(state, b) \in S
  <2>1. state \in Seq(Seq(C)) /\ state # <<>> /\ Len(state) \in 1 .. Len(state)
    BY DEF SplitStates
  <2>2. Append(state, <<>>) \in S
    BY SMTT(30), <2>1, AppendProperties DEF SplitStates
  <2>3. Append(state[Len(state)], b) \in Seq(C)
    BY <2>1, ElementOfSeq, AppendProperties
  <2>4. [state EXCEPT ![Len(state)] = Append(@, b)] \in S
    BY <2>1, <2>3, ExceptSeq DEF SplitStates
  <2> QED BY <2>2, <2>4 DEF SplitStep
<1>4. step \in [1 .. n -> [S -> S]]
  BY <1>1, <1>3
<1>5. ASSUME NEW g, NEW z \in SUBSET (1 .. n), z # {}, g[z \ {Max(z)}] \in S
      PROVE  step[Max(z)][g[z \ {Max(z)}]] = SplitStep(g[z \ {Max(z)}], s[Max(z)])
  <2>1. Max(z) \in 1 .. n
    BY <1>1, <1>5, MaxPosition
  <2> QED BY <1>5, <2>1
<1>6. \E g : Table(g)
  <2>1. PICK g \in [SUBSET (1 .. n) -> S] : IsTable(g, n, SplitStart, step)
    <3>1. n \in Nat
      BY <1>1
    <3> HIDE DEF step, S, n
    <3> QED BY <3>1, <1>2, <1>4, FoldTable
  <2> HIDE DEF step
  <2>2. ASSUME NEW z \in SUBSET (1 .. n)
        PROVE  g[z] = IF z = {} THEN SplitStart
                      ELSE SplitStep(g[z \ {Max(z)}], s[Max(z)])
    <3>1. z \ {Max(z)} \in SUBSET (1 .. n)
      OBVIOUS
    <3>2. g[z \ {Max(z)}] \in S
      BY <3>1, <2>1
    <3> QED BY <2>1, <3>2, <1>5 DEF IsTable
  <2>3. g = [z \in SUBSET (1 .. n) |-> g[z]]
    OBVIOUS
  <2>4. Table(g)
    <3> HIDE DEF n, S
    <3> QED BY <2>2, <2>3
  <2> HIDE DEF Table
  <2> QED BY <2>4
<1>7. Table(table)
  <2> HIDE DEF Table
  <2> QED BY <1>6
<1>8. table[{}] = SplitStart
  <2> HIDE DEF table
  <2> QED BY <1>7
<1>9. Follows(table, n, S, SplitStart, step)
  <2> HIDE DEF table, step
  <2> QED BY <1>5, <1>7, <1>8 DEF Follows
<1>10. Split(s) = table[1 .. n]
  BY <1>1 DEF Split, SplitStart, SplitStep, FoldLeft, MapThenFoldSet
<1>11. PICK f \in [0 .. n -> S] : IsPath(f, n, SplitStart, step, table[1 .. n])
  <2>1. n \in Nat
    BY <1>1
  <2> HIDE DEF table, step, S, n
  <2> QED BY <2>1, <1>2, <1>4, <1>9, FoldPath
<1>12. \A k \in 1 .. n : f[k] = SplitStep(f[k - 1], s[k])
  <2>1. \A k \in 1 .. n : k - 1 \in 0 .. n
    BY <1>1
  <2> HIDE DEF table
  <2> QED BY <1>11, <2>1 DEF IsPath
<1> HIDE DEF table
<1> QED BY <1>10, <1>11, <1>12 DEF IsPath

-----------------------------------------------------------------------------
(* The lines of the input, byte by byte. *)

\* What Split() has made of each prefix of the input.
IsSplit(f) ==
    /\ f \in [0 .. Len(input) -> SplitStates(Bytes)]
    /\ f[0] = SplitStart /\ Split(input) = f[Len(input)]
    /\ \A k \in 1 .. Len(input) : f[k] = SplitStep(f[k - 1], input[k])

Splits == CHOOSE f : IsSplit(f)

Ending(split) == split[Len(split)]
Complete(split) ==
    IF Ending(split) = <<>> THEN SubSeq(split, 1, Len(split) - 1) ELSE split

\* The prefixes of an input have been split.
LEMMA SplitsExist == input \in Seq(Bytes) => IsSplit(Splits)
<1> SUFFICES ASSUME input \in Seq(Bytes)  PROVE IsSplit(Splits)
  OBVIOUS
<1>1. PICK f \in [0 .. Len(input) -> SplitStates(Bytes)] :
        /\ f[0] = SplitStart /\ Split(input) = f[Len(input)]
        /\ \A k \in 1 .. Len(input) : f[k] = SplitStep(f[k - 1], input[k])
  BY SplitSteps
<1>2. IsSplit(f)
  BY <1>1 DEF IsSplit
<1> QED BY <1>2 DEF Splits

\* The lines of the input are the complete ones of all of it.
LEMMA InputLinesSplit == InputLines = Complete(Split(input))
BY DEF InputLines, Split, Complete, Ending, FoldLeft, MapThenFoldSet

\* One byte more.
LEMMA SplitOne ==
    ASSUME NEW split \in SplitStates(Bytes), NEW b \in Bytes
    PROVE  /\ Len(split) \in Nat \ {0}
           /\ \A k \in 1 .. Len(split) : split[k] \in Seq(Bytes)
           /\ b = "LF" =>
                /\ Len(SplitStep(split, b)) = Len(split) + 1
                /\ SplitStep(split, b)[Len(split) + 1] = <<>>
                /\ \A k \in 1 .. Len(split) : SplitStep(split, b)[k] = split[k]
           /\ b # "LF" =>
                /\ Len(SplitStep(split, b)) = Len(split)
                /\ SplitStep(split, b)[Len(split)] = Append(split[Len(split)], b)
                /\ \A k \in 1 .. Len(split) - 1 : SplitStep(split, b)[k] = split[k]
<1> DEFINE n == Len(split)
<1>1. split \in Seq(Seq(Bytes)) /\ split # <<>> /\ n \in Nat \ {0} /\ DOMAIN split = 1 .. n
  BY LenProperties, EmptySeq DEF SplitStates
<1>2. \A k \in 1 .. n : split[k] \in Seq(Bytes)
  BY <1>1, ElementOfSeq
<1>3. ASSUME b = "LF"
      PROVE  /\ Len(SplitStep(split, b)) = n + 1
             /\ SplitStep(split, b)[n + 1] = <<>>
             /\ \A k \in 1 .. n : SplitStep(split, b)[k] = split[k]
  <2>1. SplitStep(split, b) = Append(split, <<>>)
    BY <1>3 DEF SplitStep
  <2>2. <<>> \in Seq(Bytes)
    OBVIOUS
  <2> QED BY <1>1, <2>1, <2>2, AppendProperties
<1>4. ASSUME b # "LF"
      PROVE  /\ Len(SplitStep(split, b)) = n
             /\ SplitStep(split, b)[n] = Append(split[n], b)
             /\ \A k \in 1 .. n - 1 : SplitStep(split, b)[k] = split[k]
  <2>1. SplitStep(split, b) = [split EXCEPT ![n] = Append(split[n], b)]
    BY <1>4 DEF SplitStep
  <2>2. Append(split[n], b) \in Seq(Bytes)
    BY <1>1, <1>2, AppendProperties
  <2>3. Len(SplitStep(split, b)) = n
    BY <1>1, <2>1, <2>2, ExceptSeq
  <2>4. n \in DOMAIN split /\ \A k \in 1 .. n - 1 : k \in DOMAIN split /\ k # n
    <3>1. n \in Nat \ {0} /\ DOMAIN split = 1 .. n
      BY <1>1
    <3> HIDE DEF n
    <3> QED BY <3>1
  <2> QED BY <2>1, <2>3, <2>4
<1> HIDE DEF n
<1> QED BY <1>1, <1>2, <1>3, <1>4 DEF n

\* Lines that have been completed stay as they are, and the last one grows.
LEMMA SplitsGrow ==
    ASSUME input \in Seq(Bytes), NEW p \in 0 .. Len(input), NEW q \in p .. Len(input)
    PROVE  /\ Len(Splits[p]) <= Len(Splits[q])
           /\ \A k \in 1 .. Len(Splits[p]) - 1 : Splits[q][k] = Splits[p][k]
           /\ Len(Ending(Splits[p])) <= Len(Splits[q][Len(Splits[p])])
<1> DEFINE Grown(j) ==
             /\ Len(Splits[p]) <= Len(Splits[j])
             /\ \A k \in 1 .. Len(Splits[p]) - 1 : Splits[j][k] = Splits[p][k]
             /\ Len(Ending(Splits[p])) <= Len(Splits[j][Len(Splits[p])])
           Bad == {j \in p .. Len(input) : ~Grown(j)}
<1>1. Len(input) \in Nat /\ \A k \in 1 .. Len(input) : input[k] \in Bytes
  BY LenProperties, ElementOfSeq
<1>2. IsSplit(Splits)
  BY SplitsExist
<1>3. Grown(p)
  <2>1. Splits[p] \in SplitStates(Bytes)
    BY <1>2 DEF IsSplit
  <2>2. Len(Splits[p]) \in Nat \ {0} /\ Ending(Splits[p]) \in Seq(Bytes)
    BY <2>1, LenProperties, EmptySeq, ElementOfSeq DEF Ending, SplitStates
  <2>3. Len(Ending(Splits[p])) \in Nat
    BY <2>2, LenProperties
  <2> QED BY <2>2, <2>3 DEF Ending
<1>4. ASSUME NEW j \in p + 1 .. Len(input), Grown(j - 1)  PROVE Grown(j)
  <2>1. /\ j - 1 \in 0 .. Len(input) /\ j \in 1 .. Len(input)
        /\ Splits[j - 1] \in SplitStates(Bytes) /\ Splits[p] \in SplitStates(Bytes)
        /\ Splits[j] = SplitStep(Splits[j - 1], input[j]) /\ input[j] \in Bytes
    BY <1>1, <1>2 DEF IsSplit
  <2> DEFINE m == Len(Splits[p])
             n == Len(Splits[j - 1])
             next == Splits[j]
             last == Splits[j - 1]
  <2>2. m \in Nat \ {0} /\ n \in Nat \ {0} /\ m <= n
    BY <1>4, <2>1, LenProperties, EmptySeq DEF SplitStates
  <2>3. /\ input[j] = "LF" => Len(next) = n + 1
                              /\ \A k \in 1 .. n : next[k] = last[k]
        /\ input[j] # "LF" => Len(next) = n /\ next[n] = Append(last[n], input[j])
                              /\ \A k \in 1 .. n - 1 : next[k] = last[k]
        /\ \A k \in 1 .. n : last[k] \in Seq(Bytes)
    BY SMTT(30), <2>1, SplitOne
  <2>4. Len(Ending(Splits[p])) \in Nat /\ Len(Ending(Splits[p])) <= Len(last[m])
    <3>1. Ending(Splits[p]) \in Seq(Bytes)
      BY <2>1, <2>2, ElementOfSeq DEF Ending, SplitStates
    <3> QED BY <1>4, <3>1, LenProperties
  <2>5. Len(last[m]) \in Nat /\ Len(last[n]) \in Nat
        /\ Len(Append(last[n], input[j])) = Len(last[n]) + 1
    <3>1. last[m] \in Seq(Bytes) /\ last[n] \in Seq(Bytes)
      BY <2>2, <2>3
    <3> QED BY <2>1, <3>1, LenProperties, AppendProperties
  <2> HIDE DEF m, n, next, last
  <2>6. m <= Len(next)
    BY <2>2, <2>3
  <2>7. \A k \in 1 .. m - 1 : next[k] = Splits[p][k]
    <3>1. \A k \in 1 .. m - 1 : k \in 1 .. n /\ k \in 1 .. n - 1
      BY <2>2
    <3>2. \A k \in 1 .. m - 1 : last[k] = Splits[p][k]
      BY <1>4, Zenon DEF m, last
    <3> QED BY <2>3, <3>1, <3>2
  <2>8. Len(Ending(Splits[p])) <= Len(next[m])
    <3>1. CASE m = n
      BY <2>2, <2>3, <2>4, <2>5, <3>1
    <3>2. CASE m < n
      BY <2>2, <2>3, <2>4, <3>2
    <3> QED BY <2>2, <3>1, <3>2
  <2> QED BY <2>6, <2>7, <2>8 DEF m, n, next, last
<1> HIDE DEF Grown
<1>5. Bad = {}
  <2> SUFFICES ASSUME Bad # {}  PROVE FALSE
    OBVIOUS
  <2>1. PICK j \in Bad : \A k \in Bad : j <= k
    <3>1. Bad \subseteq Nat
      BY <1>1
    <3> HIDE DEF Bad
    <3> QED BY <3>1, FirstPosition
  <2>2. j \in p + 1 .. Len(input) /\ j - 1 \in p .. Len(input) /\ Grown(j - 1)
    BY <1>1, <1>3, <2>1
  <2> QED BY <1>4, <2>1, <2>2
<1>6. Grown(q)
  BY <1>5
<1> QED BY <1>6 DEF Grown

\* Bytes without an LF make the last line longer, and nothing else.
LEMMA SplitsWithinLine ==
    ASSUME input \in Seq(Bytes), NEW p \in 0 .. Len(input), NEW q \in p .. Len(input),
           Ending(Splits[p]) = <<>>, \A k \in p + 1 .. q : input[k] # "LF"
    PROVE  Len(Splits[q]) = Len(Splits[p]) /\ Ending(Splits[q]) = SubSeq(input, p + 1, q)
<1> DEFINE Within(j) ==
             /\ Len(Splits[j]) = Len(Splits[p])
             /\ Ending(Splits[j]) = SubSeq(input, p + 1, j)
           Bad == {j \in p .. q : ~Within(j)}
<1>1. /\ Len(input) \in Nat /\ \A k \in 1 .. Len(input) : input[k] \in Bytes
      /\ DOMAIN input = 1 .. Len(input)
  BY LenProperties, ElementOfSeq
<1>2. IsSplit(Splits)
  BY SplitsExist
<1>3. Within(p)
  BY <1>1, SubSeqEmpty
<1>4. ASSUME NEW j \in p + 1 .. q, Within(j - 1)  PROVE Within(j)
  <2>1. /\ j - 1 \in 0 .. Len(input) /\ j \in 1 .. Len(input)
        /\ Splits[j - 1] \in SplitStates(Bytes)
        /\ Splits[j] = SplitStep(Splits[j - 1], input[j]) /\ input[j] \in Bytes
        /\ input[j] # "LF"
    BY <1>1, <1>2 DEF IsSplit
  <2>2. /\ Len(Splits[j]) = Len(Splits[j - 1])
        /\ Ending(Splits[j]) = Append(Ending(Splits[j - 1]), input[j])
    <3>1. /\ Len(Splits[j]) = Len(Splits[j - 1])
          /\ Splits[j][Len(Splits[j - 1])] =
               Append(Splits[j - 1][Len(Splits[j - 1])], input[j])
      BY SMTT(30), <2>1, SplitOne
    <3> QED BY <3>1 DEF Ending
  <2>3. SubSeq(input, p + 1, j) = Append(SubSeq(input, p + 1, j - 1), input[j])
    <3>1. p + 1 \in 1 .. j /\ j \in 1 .. Len(input)
      BY <2>1, <1>1
    <3> QED BY <1>1, <2>1, <3>1, SubSeqRecursiveSecond
  <2> QED BY <1>4, <2>2, <2>3
<1> HIDE DEF Within
<1>5. Bad = {}
  <2> SUFFICES ASSUME Bad # {}  PROVE FALSE
    OBVIOUS
  <2>1. PICK j \in Bad : \A k \in Bad : j <= k
    <3>1. Bad \subseteq Nat
      BY <1>1
    <3> HIDE DEF Bad
    <3> QED BY <3>1, FirstPosition
  <2>2. j \in p + 1 .. q /\ j - 1 \in p .. q /\ Within(j - 1)
    BY <1>1, <1>3, <2>1
  <2> QED BY <1>4, <2>1, <2>2
<1>6. Within(q)
  BY <1>5
<1> QED BY <1>6 DEF Within

\* A string ends before its first NUL.
LEMMA CStringEnd ==
    ASSUME NEW s \in Seq(Bytes), NEW e \in 1 .. Len(s), s[e] = "NUL",
           \A k \in 1 .. e - 1 : s[k] # "NUL"
    PROVE  CString(s) = SubSeq(s, 1, e - 1)
<1> DEFINE ends == {k \in DOMAIN s : s[k] = "NUL"}
           First(k) == k + 1 \in ends /\ \A x \in ends : k < x
           first == CHOOSE k \in 0 .. Len(s) : First(k)
<1>1. DOMAIN s = 1 .. Len(s) /\ Len(s) \in Nat
  BY LenProperties
<1>2. e \in ends /\ \A x \in ends : e <= x /\ x \in Nat
  BY <1>1
<1>3. ends # {}
  BY <1>2
<1>4. e - 1 \in 0 .. Len(s) /\ First(e - 1)
  BY <1>1, <1>2
<1>5. \A k \in 0 .. Len(s) : First(k) => k = e - 1
  <2> TAKE k \in 0 .. Len(s)
  <2> SUFFICES ASSUME First(k)  PROVE k = e - 1
    OBVIOUS
  <2>1. k + 1 \in ends /\ k < e /\ e <= k + 1
    BY <1>2
  <2> QED BY <1>1, <2>1
<1> HIDE DEF ends, First
<1>6. first = e - 1
  BY <1>4, <1>5
<1> QED BY <1>3, <1>6 DEF CString, ends, First

\* A line that is not broken is stored without its LF and CR.
LEMMA LineOfWhole ==
    ASSUME NEW raw \in Seq(Bytes), Whole(raw), \A k \in DOMAIN raw : raw[k] # "LF",
           NEW bytes \in {raw, Append(raw, "LF")}
    PROVE  Line(bytes) = WithoutCR(raw)
<1> DEFINE n == Len(raw)
           m == Len(bytes)
           byte(k) == IF bytes[k] \in {"CR", "LF"} THEN "NUL" ELSE bytes[k]
           s == [k \in DOMAIN bytes |-> byte(k)]
<1>a. "NUL" \in Bytes /\ "LF" \in Bytes
  BY PrintUTF8Assumption
<1>b. n \in Nat /\ DOMAIN raw = 1 .. n
  BY LenProperties
<1>c. \A k \in 1 .. n : raw[k] \in Bytes
  BY ElementOfSeq
<1>d. bytes \in Seq(Bytes)
  BY <1>a, AppendProperties
<1>e. m \in Nat /\ DOMAIN bytes = 1 .. m
  BY <1>d, LenProperties
<1>f. \/ m = n /\ bytes = raw
      \/ m = n + 1 /\ bytes[n + 1] = "LF"
  BY <1>a, AppendProperties
<1>g. \A k \in 1 .. n : bytes[k] = raw[k]
  BY <1>a, AppendProperties
<1>3. s \in Seq(Bytes) /\ Len(s) = m
  <2>1. \A k \in 1 .. m : bytes[k] \in Bytes
    BY <1>d, ElementOfSeq
  <2>2. \A k \in 1 .. m : byte(k) \in Bytes
    BY <1>a, <2>1
  <2>3. s = [k \in 1 .. m |-> byte(k)]
    BY <1>e
  <2> HIDE DEF byte, m, s
  <2>4. s \in [1 .. m -> Bytes]
    BY <2>2, <2>3
  <2>5. s \in UNION {[1 .. k -> Bytes] : k \in Nat}
    BY <1>e, <2>4, Zenon
  <2>6. s \in Seq(Bytes)
    BY <2>5, SeqDef, Zenon
  <2> QED BY <1>e, <2>4, <2>6, LenProperties
<1>4. Line(bytes) = CString(s)
  BY DEF Line
<1>5. \A k \in 1 .. n : raw[k] # "NUL" /\ raw[k] # "LF" /\ (raw[k] = "CR" => k = n)
  BY <1>b DEF Whole
<1>6. \A k \in 1 .. n : k \in 1 .. m
  <2> HIDE DEF n, m
  <2> QED BY <1>b, <1>f
<1>7. \A k \in 1 .. n : s[k] = IF raw[k] = "CR" THEN "NUL" ELSE raw[k]
  <2> TAKE k \in 1 .. n
  <2>1. s[k] = byte(k)
    BY <1>e, <1>6
  <2> QED BY <1>5, <1>g, <2>1
<1>14. m = n + 1 => s[n + 1] = "NUL"
  <2> SUFFICES ASSUME m = n + 1  PROVE s[n + 1] = "NUL"
    OBVIOUS
  <2>1. n + 1 \in DOMAIN bytes
    <3> HIDE DEF n, m
    <3> QED BY <1>b, <1>e
  <2>2. s[n + 1] = byte(n + 1)
    BY <2>1
  <2>3. bytes[n + 1] = "LF"
    <3> HIDE DEF n, m
    <3> QED BY <1>b, <1>f
  <2> QED BY <2>2, <2>3
<1> HIDE DEF s
<1>15. ASSUME NEW e \in 0 .. n, \A k \in 1 .. e : raw[k] # "CR"
      PROVE  SubSeq(s, 1, e) = SubSeq(raw, 1, e)
  <2>0. \A k \in 1 .. e : k \in 1 .. n
    <3> HIDE DEF n
    <3> QED BY <1>b
  <2>1. \A k \in 1 .. e : s[k] = raw[k]
    BY <1>7, <1>15, <2>0
  <2>2. /\ SubSeq(s, 1, e) = [k \in 1 .. e |-> s[k]]
        /\ SubSeq(raw, 1, e) = [k \in 1 .. e |-> raw[k]]
    <3>1. e \in Int
      BY <1>b
    <3> HIDE DEF n
    <3> QED BY <3>1
  <2> QED BY <2>1, <2>2
<1>8. CASE raw # <<>> /\ raw[n] = "CR"
  <2>0. n # 0
    BY <1>8, EmptySeq
  <2>1. n \in 1 .. n /\ n - 1 \in 0 .. n
    BY <2>0, <1>b
  <2>2. s[n] = "NUL" /\ n \in 1 .. Len(s)
    BY <1>3, <1>6, <1>7, <1>8, <2>1
  <2>a. \A k \in 1 .. n - 1 : k \in 1 .. n /\ k # n
    <3> HIDE DEF n
    <3> QED BY <1>b
  <2>3. \A k \in 1 .. n - 1 : raw[k] # "CR" /\ s[k] # "NUL"
    BY <1>5, <1>7, <2>a
  <2>4. CString(s) = SubSeq(s, 1, n - 1)
    BY <1>3, <2>2, <2>3, CStringEnd
  <2>5. SubSeq(s, 1, n - 1) = SubSeq(raw, 1, n - 1)
    BY <1>15, <2>1, <2>3
  <2> QED BY <1>4, <1>8, <2>4, <2>5 DEF WithoutCR
<1>9. CASE ~(raw # <<>> /\ raw[n] = "CR")
  <2>1. \A k \in 1 .. n : raw[k] # "CR"
    <3>1. raw = <<>> => n = 0
      BY EmptySeq
    <3>2. raw = <<>> => 1 .. n = {}
      BY <3>1
    <3> QED BY <1>5, <1>9, <3>2
  <2>2. \A k \in 1 .. n : s[k] = raw[k] /\ s[k] # "NUL"
    BY <1>5, <1>7, <2>1
  <2>3. SubSeq(s, 1, n) = raw
    <3>1. n \in 0 .. n
      BY <1>b
    <3> QED BY <1>15, <2>1, <3>1, SubSeqFull
  <2>4. WithoutCR(raw) = raw
    BY <1>9 DEF WithoutCR
  <2>5. CASE m = n
    <3>1. SubSeq(s, 1, n) = s
      BY <1>3, <2>5, SubSeqFull
    <3>2. DOMAIN s = 1 .. n
      BY <1>3, <2>5, LenProperties
    <3>3. CString(s) = s
      BY <2>2, <3>2 DEF CString
    <3> QED BY <1>4, <2>3, <2>4, <3>1, <3>3
  <2>6. CASE m = n + 1
    <3>1. n + 1 \in 1 .. Len(s) /\ s[n + 1] = "NUL" /\ (n + 1) - 1 = n
      BY <1>b, <1>3, <1>14, <2>6
    <3>2. CString(s) = SubSeq(s, 1, n)
      <4>1. \A k \in 1 .. (n + 1) - 1 : s[k] # "NUL"
        BY <2>2, <3>1
      <4>2. CString(s) = SubSeq(s, 1, (n + 1) - 1)
        BY <1>3, <3>1, <4>1, CStringEnd
      <4> QED BY <3>1, <4>2
    <3> QED BY <1>4, <2>3, <2>4, <3>2
  <2> QED BY <1>f, <2>5, <2>6
<1> QED BY <1>8, <1>9

-----------------------------------------------------------------------------
(* Reading the lines. *)

\* The number of bytes that have been read.
BytesRead == Len(input) - Len(stdin)

\* What is left to read is the end of the input.
InputInv ==
    /\ input \in Seq(Bytes) /\ stdin \in Seq(Bytes) /\ Len(stdin) <= Len(input)
    /\ \A k \in 1 .. Len(stdin) : stdin[k] = input[BytesRead + k]

AllWhole == \A k \in DOMAIN InputLines : Whole(InputLines[k])

\* The lines stored are those of the bytes read, and no line is half read.
LinesInv ==
    AllWhole =>
      /\ stdin # <<>> => Ending(Splits[BytesRead]) = <<>>
      /\ Len(lines) = Len(Complete(Splits[BytesRead]))
      /\ \A k \in 1 .. Len(lines) :
           lines[k] = WithoutCR(Complete(Splits[BytesRead])[k])

\* The lines that are complete before an open one.
LEMMA CompleteLines ==
    ASSUME NEW split \in SplitStates(Bytes)
    PROVE  /\ Len(split) \in Nat \ {0} /\ \A k \in 1 .. Len(split) : split[k] \in Seq(Bytes)
           /\ Ending(split) = <<>> =>
                /\ Len(Complete(split)) = Len(split) - 1
                /\ \A k \in 1 .. Len(split) - 1 : Complete(split)[k] = split[k]
           /\ Ending(split) # <<>> => Complete(split) = split
           /\ Complete(split) \in Seq(Seq(Bytes))
<1> DEFINE n == Len(split)
<1>1. split \in Seq(Seq(Bytes)) /\ split # <<>>
  BY DEF SplitStates
<1>2. n \in Nat \ {0} /\ DOMAIN split = 1 .. n
  BY <1>1, LenProperties, EmptySeq
<1>3. \A k \in 1 .. n : split[k] \in Seq(Bytes)
  BY <1>1, ElementOfSeq
<1> HIDE DEF n
<1>4. \A k \in 1 .. n - 1 : split[k] \in Seq(Bytes)
  BY <1>2, <1>3
<1>5. n - 1 \in Nat /\ 1 \in Int /\ n - 1 \in Int
  BY <1>2
<1>6. /\ SubSeq(split, 1, n - 1) \in Seq(Seq(Bytes))
      /\ Len(SubSeq(split, 1, n - 1)) = n - 1
      /\ \A k \in 1 .. n - 1 : SubSeq(split, 1, n - 1)[k] = split[k]
  <2>1. /\ SubSeq(split, 1, n - 1) \in Seq(Seq(Bytes))
        /\ Len(SubSeq(split, 1, n - 1)) = IF 1 <= n - 1 THEN n - 1 - 1 + 1 ELSE 0
        /\ \A k \in 1 .. n - 1 - 1 + 1 : SubSeq(split, 1, n - 1)[k] = split[1 + k - 1]
    BY <1>4, <1>5, SubSeqProperties
  <2>2. /\ (IF 1 <= n - 1 THEN n - 1 - 1 + 1 ELSE 0) = n - 1 /\ n - 1 - 1 + 1 = n - 1
        /\ \A k \in 1 .. n - 1 : 1 + k - 1 = k
    BY <1>2
  <2> QED BY <2>1, <2>2
<1> QED BY <1>1, <1>2, <1>3, <1>6 DEF Complete, n

\* A line of a prefix is a line of the input, as soon as it has a byte or its LF.
LEMMA LineOfInput ==
    ASSUME input \in Seq(Bytes), NEW p \in 0 .. Len(input),
           NEW k \in 1 .. Len(Splits[p]), k < Len(Splits[p]) \/ Splits[p][k] # <<>>
    PROVE  /\ k \in DOMAIN InputLines
           /\ k < Len(Splits[p]) => InputLines[k] = Splits[p][k]
           /\ Len(Splits[p][k]) <= Len(InputLines[k])
<1> DEFINE N == Len(input)
           last == Splits[N]
           m == Len(Splits[p])
<1>1. N \in Nat /\ N \in p .. N /\ p \in 0 .. N
  BY LenProperties
<1>2. IsSplit(Splits)
  BY SplitsExist
<1>3. Splits[p] \in SplitStates(Bytes) /\ last \in SplitStates(Bytes)
  BY SMTT(30), <1>1, <1>2 DEF IsSplit
<1>4. InputLines = Complete(last)
  BY <1>2, InputLinesSplit DEF IsSplit
<1>5. /\ m <= Len(last)
      /\ \A j \in 1 .. m - 1 : last[j] = Splits[p][j]
      /\ Len(Splits[p][m]) <= Len(last[m])
  BY <1>1, SplitsGrow DEF Ending
<1>6. /\ m \in Nat \ {0} /\ Len(last) \in Nat \ {0}
      /\ \A j \in 1 .. m : Splits[p][j] \in Seq(Bytes)
      /\ \A j \in 1 .. Len(last) : last[j] \in Seq(Bytes)
  BY <1>3, CompleteLines
<1>7. /\ k <= Len(last) /\ k \in 1 .. m /\ k \in 1 .. Len(last)
      /\ (k < m => k \in 1 .. m - 1)
  BY <1>5, <1>6
<1>8. Len(Splits[p][k]) \in Nat /\ Len(last[k]) \in Nat
  BY <1>6, <1>7, LenProperties
<1>9. Len(Splits[p][k]) <= Len(last[k]) /\ (k < m => last[k] = Splits[p][k])
  <2>1. CASE k < m
    <3>1. last[k] = Splits[p][k]
      BY <1>5, <1>7, <2>1
    <3> QED BY <1>8, <3>1
  <2>2. CASE k = m
    BY <1>5, <2>2
  <2> QED BY <1>6, <1>7, <2>1, <2>2
<1>10. k < Len(last) \/ Ending(last) # <<>>
  <2> SUFFICES ASSUME k = Len(last)  PROVE Ending(last) # <<>>
    BY <1>6, <1>7
  <2>1. k = m
    BY <1>5, <1>6, <1>7
  <2>2. Splits[p][k] \in Seq(Bytes) /\ Splits[p][k] # <<>>
    BY <1>6, <1>7, <2>1
  <2>3. Len(Splits[p][k]) # 0
    BY <2>2, EmptySeq
  <2>4. Len(last[k]) # 0
    BY <1>8, <1>9, <2>3
  <2>5. last[k] # <<>>
    BY <2>4
  <2> QED BY <2>5 DEF Ending
<1>11. k \in 1 .. Len(InputLines) /\ InputLines[k] = last[k]
  <2>1. CASE Ending(last) = <<>>
    <3>1. /\ Len(Complete(last)) = Len(last) - 1
          /\ \A j \in 1 .. Len(last) - 1 : Complete(last)[j] = last[j]
      BY <1>3, <2>1, CompleteLines
    <3>2. k \in 1 .. Len(last) - 1
      BY <1>6, <1>7, <1>10, <2>1
    <3> QED BY <1>4, <3>1, <3>2
  <2>2. CASE Ending(last) # <<>>
    BY <1>3, <1>4, <1>7, <2>2, CompleteLines
  <2> QED BY <2>1, <2>2
<1>12. DOMAIN InputLines = 1 .. Len(InputLines)
  BY <1>3, <1>4, CompleteLines, LenProperties
<1> QED BY <1>9, <1>11, <1>12

\* The next bytes of the input are the next bytes of stdin.
LEMMA NextBytes ==
    ASSUME InputInv, NEW t \in 1 .. Len(stdin)
    PROVE  /\ BytesRead \in 0 .. Len(input) /\ BytesRead + t \in 1 .. Len(input)
           /\ Len(input) \in Nat /\ Len(stdin) = Len(input) - BytesRead
           /\ SubSeq(stdin, 1, t) = SubSeq(input, BytesRead + 1, BytesRead + t)
           /\ SubSeq(stdin, 1, t) \in Seq(Bytes) /\ Len(SubSeq(stdin, 1, t)) = t
           /\ \A k \in 1 .. t : stdin[k] = input[BytesRead + k]
<1> DEFINE p == BytesRead
<1>1. /\ Len(input) \in Nat /\ Len(stdin) \in Nat /\ Len(stdin) <= Len(input)
      /\ p = Len(input) - Len(stdin)
  BY LenProperties DEF InputInv, BytesRead
<1>2. /\ p \in 0 .. Len(input) /\ p + t \in 1 .. Len(input) /\ p \in Nat /\ t \in Nat
      /\ Len(stdin) = Len(input) - p /\ t \in 0 .. Len(stdin)
  BY <1>1
<1>3. \A k \in 1 .. t : stdin[k] = input[p + k]
  <2>1. \A k \in 1 .. t : k \in 1 .. Len(stdin)
    BY <1>1
  <2> QED BY <2>1 DEF InputInv
<1> HIDE DEF p
<1>4. /\ SubSeq(stdin, 1, t) = [k \in 1 .. t |-> stdin[k]]
      /\ SubSeq(input, p + 1, p + t) = [k \in 1 .. t |-> input[p + k]]
  <2>1. /\ SubSeq(stdin, 1, t) = [k \in 1 .. t - 1 + 1 |-> stdin[1 + k - 1]]
        /\ SubSeq(input, p + 1, p + t)
             = [k \in 1 .. (p + t) - (p + 1) + 1 |-> input[(p + 1) + k - 1]]
    BY <1>2
  <2>2. /\ t - 1 + 1 = t /\ (p + t) - (p + 1) + 1 = t
        /\ \A k \in 1 .. t : 1 + k - 1 = k /\ (p + 1) + k - 1 = p + k
    BY <1>2
  <2> QED BY <2>1, <2>2
<1>5. SubSeq(stdin, 1, t) = SubSeq(input, p + 1, p + t)
  BY <1>3, <1>4
<1>6. SubSeq(stdin, 1, t) \in Seq(Bytes) /\ Len(SubSeq(stdin, 1, t)) = t
  <2>1. stdin \in Seq(Bytes)
    BY DEF InputInv
  <2>2. \A k \in 1 .. t : stdin[k] \in Bytes
    BY <1>1, <1>2, <2>1, ElementOfSeq
  <2> QED BY <1>2, <2>2, SubSeqProperties
<1> QED BY <1>1, <1>2, <1>3, <1>5, <1>6 DEF p

\* What has been completed stays, one line more is, and it is the one stored.
OneMore(p, q) ==
    /\ Len(Complete(Splits[q])) = Len(Complete(Splits[p])) + 1
    /\ \A k \in 1 .. Len(Complete(Splits[p])) :
         Complete(Splits[q])[k] = Complete(Splits[p])[k]
    /\ Line(SubSeq(stdin, 1, Taken))
         = WithoutCR(Complete(Splits[q])[Len(Complete(Splits[p])) + 1])
    /\ q < Len(input) => Ending(Splits[q]) = <<>>

\* A line that ends with an LF is read with it.
LEMMA LineWithEnd ==
    ASSUME InputInv, AllWhole, stdin # <<>>, Ending(Splits[BytesRead]) = <<>>,
           Taken \in 1 .. Len(stdin), stdin[Taken] = "LF",
           \A k \in 1 .. Taken - 1 : stdin[k] # "LF"
    PROVE  OneMore(BytesRead, BytesRead + Taken)
<1> DEFINE p == BytesRead
           t == Taken
           q == p + t
           N == Len(input)
           m == Len(Splits[p])
           raw == SubSeq(input, p + 1, q - 1)
<1>1. /\ p \in 0 .. N /\ q \in 1 .. N /\ N \in Nat
      /\ SubSeq(stdin, 1, t) = SubSeq(input, p + 1, q)
      /\ \A k \in 1 .. t : stdin[k] = input[p + k]
      /\ input \in Seq(Bytes)
  BY NextBytes DEF InputInv
<1>2. /\ t \in Nat \ {0} /\ q - 1 \in p .. N /\ q - 1 \in 0 .. N /\ q \in p .. N /\ q \in 0 .. N
      /\ p \in Nat /\ p + 1 \in 1 .. N /\ q \in p + 1 .. N /\ q = p + t
  <2>1. t \in Nat \ {0}
    BY LenProperties DEF InputInv
  <2> HIDE DEF p, t, N
  <2> QED BY <1>1, <2>1
<1>a. \A k \in p + 1 .. q - 1 : input[k] # "LF"
  <2> SUFFICES ASSUME NEW k \in p + 1 .. q - 1  PROVE input[k] # "LF"
    OBVIOUS
  <2>1. k - p \in 1 .. t - 1 /\ k - p \in 1 .. t /\ p + (k - p) = k
    <3> HIDE DEF p, t
    <3> QED BY <1>2
  <2>2. stdin[k - p] # "LF" /\ stdin[k - p] = input[p + (k - p)]
    BY <1>1, <2>1
  <2> QED BY <2>1, <2>2
<1>b. input[q] = "LF"
  <2>1. t \in 1 .. t
    <3> HIDE DEF t
    <3> QED BY <1>2
  <2> QED BY <1>1, <2>1
<1>3. IsSplit(Splits)
  BY <1>1, SplitsExist
<1>4. /\ Splits[p] \in SplitStates(Bytes) /\ Splits[q - 1] \in SplitStates(Bytes)
      /\ Splits[q] \in SplitStates(Bytes)
      /\ Splits[q] = SplitStep(Splits[q - 1], "LF")
  <2> HIDE DEF p, q, N, t
  <2> QED BY <1>1, <1>2, <1>3, <1>b DEF IsSplit, N
<1>5. Len(Splits[q - 1]) = m /\ Ending(Splits[q - 1]) = raw
  BY <1>1, <1>2, <1>a, SplitsWithinLine
<1> HIDE DEF p, q, N, t
<1>6. m \in Nat \ {0} /\ Len(Complete(Splits[p])) = m - 1
      /\ \A k \in 1 .. m - 1 : Complete(Splits[p])[k] = Splits[p][k]
  BY <1>4, CompleteLines DEF p
<1>7. /\ Len(Splits[q]) = m + 1 /\ Splits[q][m + 1] = <<>>
      /\ \A k \in 1 .. m : Splits[q][k] = Splits[q - 1][k]
  <2>1. "LF" \in Bytes
    BY PrintUTF8Assumption
  <2> QED BY SMTT(30), <1>4, <1>5, <2>1, SplitOne
<1>8. Ending(Splits[q]) = <<>>
  BY <1>7 DEF Ending
<1>9. Len(Complete(Splits[q])) = m /\ \A k \in 1 .. m : Complete(Splits[q])[k] = Splits[q][k]
  <2>1. /\ Len(Complete(Splits[q])) = Len(Splits[q]) - 1
        /\ \A k \in 1 .. Len(Splits[q]) - 1 : Complete(Splits[q])[k] = Splits[q][k]
    BY <1>4, <1>8, CompleteLines
  <2> QED BY <1>6, <1>7, <2>1
<1>10. \A k \in 1 .. m - 1 : Splits[q][k] = Splits[p][k]
  BY <1>1, <1>2, SplitsGrow DEF N
<1>11. \A k \in 1 .. m - 1 : Complete(Splits[q])[k] = Complete(Splits[p])[k]
  <2>1. \A k \in 1 .. m - 1 : k \in 1 .. m
    BY <1>6
  <2> QED BY <1>6, <1>9, <1>10, <2>1
<1>12. Complete(Splits[q])[m] = raw /\ Splits[q][m] = raw
  <2>1. m \in 1 .. m
    BY <1>6
  <2> QED BY <1>5, <1>7, <1>9, <2>1 DEF Ending
<1>13. Whole(raw) /\ raw \in Seq(Bytes)
  <2>1. m \in 1 .. Len(Splits[q]) /\ m < Len(Splits[q])
    BY <1>6, <1>7
  <2>2. m \in DOMAIN InputLines /\ InputLines[m] = Splits[q][m]
    BY <1>1, <1>2, <2>1, LineOfInput DEF N
  <2>3. raw \in Seq(Bytes)
    BY <1>4, <1>12, <2>1, SplitOne, CompleteLines
  <2> QED BY <1>12, <2>2, <2>3 DEF AllWhole
<1>14. SubSeq(stdin, 1, t) = Append(raw, "LF")
  <2>1. SubSeq(input, p + 1, q) = raw \o <<input[q]>>
    BY <1>1, <1>2, SubSeqRecursiveSecond DEF N
  <2>2. "LF" \in Bytes
    BY PrintUTF8Assumption
  <2>3. Append(raw, "LF") = raw \o <<"LF">>
    BY <1>13, <2>2, AppendIsConcat
  <2> QED BY <1>1, <1>b, <2>1, <2>3
<1>15. \A k \in DOMAIN raw : raw[k] # "LF"
  <2>1. p + 1 \in Int /\ q - 1 \in Int /\ (q - 1) - (p + 1) + 1 = t - 1
    BY <1>2
  <2>2. raw = [k \in 1 .. (q - 1) - (p + 1) + 1 |-> input[(p + 1) + k - 1]]
    BY <2>1
  <2> SUFFICES ASSUME NEW k \in DOMAIN raw  PROVE raw[k] # "LF"
    OBVIOUS
  <2>3. k \in 1 .. t - 1
    BY <2>1, <2>2
  <2>4. (p + 1) + k - 1 \in p + 1 .. q - 1
    BY <1>2, <2>3
  <2>5. raw[k] = input[(p + 1) + k - 1]
    BY <2>2
  <2> QED BY <1>a, <2>4, <2>5
<1>16. Line(SubSeq(stdin, 1, t)) = WithoutCR(raw)
  <2>1. SubSeq(stdin, 1, t) \in {raw, Append(raw, "LF")}
    BY <1>14
  <2> HIDE DEF raw
  <2> QED BY <1>13, <1>15, <2>1, LineOfWhole
<1> HIDE DEF raw, m
<1>17. (m - 1) + 1 = m
  BY <1>6
<1>18. OneMore(p, q)
  BY <1>6, <1>8, <1>9, <1>11, <1>12, <1>16, <1>17 DEF OneMore, t
<1> QED BY <1>18 DEF p, q, t

\* A line without an LF is the last one: no line fills the buffer.
LEMMA LineWithoutEnd ==
    ASSUME InputInv, AllWhole, stdin # <<>>, Ending(Splits[BytesRead]) = <<>>,
           Taken \in 1 .. Len(stdin), \A k \in 1 .. Taken : stdin[k] # "LF",
           Taken = Len(stdin) \/ Taken = BufferSize - 1
    PROVE  OneMore(BytesRead, BytesRead + Taken)
<1> DEFINE p == BytesRead
           t == Taken
           q == p + t
           N == Len(input)
           m == Len(Splits[p])
           raw == SubSeq(input, p + 1, q)
<1>1. /\ p \in 0 .. N /\ q \in 1 .. N /\ N \in Nat /\ Len(stdin) = N - p
      /\ SubSeq(stdin, 1, t) = SubSeq(input, p + 1, q)
      /\ SubSeq(stdin, 1, t) \in Seq(Bytes) /\ Len(SubSeq(stdin, 1, t)) = t
      /\ \A k \in 1 .. t : stdin[k] = input[p + k]
      /\ input \in Seq(Bytes)
  BY NextBytes DEF InputInv
<1>2. /\ t \in Nat \ {0} /\ q \in p .. N /\ q \in 0 .. N
      /\ p \in Nat /\ p + 1 \in 1 .. N /\ q \in p + 1 .. N /\ q = p + t
  <2>1. t \in Nat \ {0}
    BY LenProperties DEF InputInv
  <2> HIDE DEF p, t, N
  <2> QED BY <1>1, <2>1
<1>a. \A k \in p + 1 .. q : input[k] # "LF"
  <2> SUFFICES ASSUME NEW k \in p + 1 .. q  PROVE input[k] # "LF"
    OBVIOUS
  <2>1. k - p \in 1 .. t /\ p + (k - p) = k
    <3> HIDE DEF p, t
    <3> QED BY <1>2
  <2>2. stdin[k - p] # "LF" /\ stdin[k - p] = input[p + (k - p)]
    BY <1>1, <2>1
  <2> QED BY <2>1, <2>2
<1>3. IsSplit(Splits)
  BY <1>1, SplitsExist
<1>4. Splits[p] \in SplitStates(Bytes) /\ Splits[q] \in SplitStates(Bytes)
  <2> HIDE DEF p, q, N, t
  <2> QED BY <1>1, <1>2, <1>3 DEF IsSplit, N
<1>5. Len(Splits[q]) = m /\ Ending(Splits[q]) = raw
  BY <1>1, <1>2, <1>a, SplitsWithinLine
<1> HIDE DEF p, q, N, t
<1>6. m \in Nat \ {0} /\ Len(Complete(Splits[p])) = m - 1
      /\ \A k \in 1 .. m - 1 : Complete(Splits[p])[k] = Splits[p][k]
  BY <1>4, CompleteLines DEF p
<1>7. raw \in Seq(Bytes) /\ Len(raw) = t /\ raw # <<>>
  <2>1. raw \in Seq(Bytes) /\ Len(raw) = t
    BY <1>1
  <2> HIDE DEF raw
  <2>2. Len(raw) # 0
    BY <1>2, <2>1
  <2>3. raw # <<>>
    BY <2>1, <2>2, EmptySeq
  <2> QED BY <2>1, <2>3
<1>8. Ending(Splits[q]) # <<>> /\ Complete(Splits[q]) = Splits[q]
  BY <1>4, <1>5, <1>7, CompleteLines
<1>9. Splits[q][m] = raw
  BY <1>5 DEF Ending
<1>10. \A k \in 1 .. m - 1 : Splits[q][k] = Splits[p][k]
  BY <1>1, <1>2, SplitsGrow DEF N
<1>11. m \in DOMAIN InputLines /\ Len(raw) <= Len(InputLines[m])
  <2>1. m \in 1 .. Len(Splits[q]) /\ Splits[q][m] # <<>>
    BY <1>5, <1>6, <1>7, <1>9
  <2> QED BY <1>1, <1>2, <1>9, <2>1, LineOfInput DEF N
<1>12. q = N
  <2>1. Len(InputLines[m]) <= BufferSize - 2
    BY <1>11 DEF AllWhole, Whole
  <2>2. InputLines[m] \in Seq(Bytes)
    <3>a. N \in 0 .. N
      BY <1>1
    <3>b. Splits[N] \in SplitStates(Bytes)
      BY <1>3, <3>a DEF IsSplit, N
    <3>1. Splits[N] \in SplitStates(Bytes) /\ InputLines = Complete(Splits[N])
      BY <1>3, <3>b, InputLinesSplit DEF IsSplit, N
    <3>2. InputLines \in Seq(Seq(Bytes))
      BY <3>1, CompleteLines
    <3>3. m \in 1 .. Len(InputLines)
      BY <3>2, <1>11, LenProperties
    <3> QED BY <3>2, <3>3, ElementOfSeq
  <2>3. Len(InputLines[m]) \in Nat
    BY <2>2, LenProperties
  <2>4. t # BufferSize - 1
    BY <1>2, <1>7, <1>11, <2>1, <2>3, PrintUTF8Assumption
  <2>5. t = Len(stdin)
    BY <2>4 DEF t
  <2> QED BY <1>1, <1>2, <2>5
<1>13. Whole(raw)
  <2>1. InputLines = Splits[q]
    BY <1>3, <1>8, <1>12, InputLinesSplit DEF IsSplit, N
  <2> QED BY <1>9, <1>11, <2>1 DEF AllWhole
<1>15. \A k \in DOMAIN raw : raw[k] # "LF"
  <2>1. p + 1 \in Int /\ q \in Int /\ q - (p + 1) + 1 = t
    BY <1>2
  <2>2. raw = [k \in 1 .. q - (p + 1) + 1 |-> input[(p + 1) + k - 1]]
    BY <2>1
  <2> SUFFICES ASSUME NEW k \in DOMAIN raw  PROVE raw[k] # "LF"
    OBVIOUS
  <2>3. k \in 1 .. t
    BY <2>1, <2>2
  <2>4. (p + 1) + k - 1 \in p + 1 .. q
    BY <1>2, <2>3
  <2>5. raw[k] = input[(p + 1) + k - 1]
    BY <2>2
  <2> QED BY <1>a, <2>4, <2>5
<1>16. Line(SubSeq(stdin, 1, t)) = WithoutCR(raw)
  <2>1. SubSeq(stdin, 1, t) \in {raw, Append(raw, "LF")}
    BY <1>1
  <2> HIDE DEF raw
  <2> QED BY <1>7, <1>13, <1>15, <2>1, LineOfWhole
<1> HIDE DEF raw, m
<1>17. (m - 1) + 1 = m /\ ~(q < N)
  BY <1>6, <1>12, <1>1
<1>18. OneMore(p, q)
  BY <1>5, <1>6, <1>8, <1>9, <1>10, <1>16, <1>17 DEF OneMore, t, N, m
<1> QED BY <1>18 DEF p, q, t

\* Each call of fgets() completes a line.
LEMMA LineRead ==
    ASSUME InputInv, AllWhole, stdin # <<>>, Ending(Splits[BytesRead]) = <<>>
    PROVE  OneMore(BytesRead, BytesRead + Taken)
<1>1. stdin \in Seq(Bytes)
  BY DEF InputInv
<1>2. /\ Taken \in 1 .. Len(stdin)
      /\ \A k \in 1 .. Taken - 1 : stdin[k] # "LF"
      /\ \/ stdin[Taken] = "LF"
         \/ stdin[Taken] # "LF" /\ (Taken = Len(stdin) \/ Taken = BufferSize - 1)
  BY <1>1, TakenEnd
<1>3. CASE stdin[Taken] = "LF"
  BY <1>2, <1>3, LineWithEnd
<1>4. CASE stdin[Taken] # "LF" /\ (Taken = Len(stdin) \/ Taken = BufferSize - 1)
  <2>1. \A k \in 1 .. Taken : k \in 1 .. Taken - 1 \/ k = Taken
    BY <1>2, LenProperties, <1>1
  <2>2. \A k \in 1 .. Taken : stdin[k] # "LF"
    BY <1>2, <1>4, <2>1
  <2> QED BY <1>2, <1>4, <2>2, LineWithoutEnd
<1> QED BY <1>2, <1>3, <1>4

\* What has been read is taken from what is left.
LEMMA ReadLineInput ==
    ASSUME InputInv, ReadLine
    PROVE  InputInv' /\ BytesRead' = BytesRead + Taken /\ Taken \in 1 .. Len(stdin)
           /\ Len(stdin') = Len(stdin) - Taken
<1>1. stdin \in Seq(Bytes) /\ stdin # <<>> /\ input \in Seq(Bytes) /\ input' = input
      /\ stdin' = SubSeq(stdin, Taken + 1, Len(stdin))
  BY DEF InputInv, ReadLine, fixed
<1>2. Taken \in 1 .. Len(stdin)
  BY <1>1, TakenEnd
<1> DEFINE t == Taken
           n == Len(stdin)
           N == Len(input)
<1>3. n \in Nat /\ N \in Nat /\ n <= N /\ t \in 1 .. n /\ BytesRead = N - n
  BY <1>1, <1>2, LenProperties DEF InputInv, BytesRead
<1> HIDE DEF t
<1>4. /\ stdin' \in Seq(Bytes) /\ Len(stdin') = n - t
      /\ \A k \in 1 .. n - t : stdin'[k] = stdin[t + k]
  <2>1. \A k \in t + 1 .. n : stdin[k] \in Bytes
    <3>1. \A k \in t + 1 .. n : k \in 1 .. n
      BY <1>3
    <3> QED BY <1>1, <3>1, ElementOfSeq
  <2> HIDE DEF n
  <2>2. /\ SubSeq(stdin, t + 1, n) \in Seq(Bytes)
        /\ Len(SubSeq(stdin, t + 1, n)) = IF t + 1 <= n THEN n - (t + 1) + 1 ELSE 0
        /\ \A k \in 1 .. n - (t + 1) + 1 : SubSeq(stdin, t + 1, n)[k] = stdin[(t + 1) + k - 1]
    BY <1>3, <2>1, SubSeqProperties
  <2>3. /\ (IF t + 1 <= n THEN n - (t + 1) + 1 ELSE 0) = n - t /\ n - (t + 1) + 1 = n - t
        /\ \A k \in 1 .. n - t : (t + 1) + k - 1 = t + k
    BY <1>3
  <2> QED BY <1>1, <2>2, <2>3 DEF t, n
<1>5. BytesRead' = N - (n - t)
  BY <1>1, <1>4 DEF BytesRead
<1>6. BytesRead' = BytesRead + t
  <2> HIDE DEF n, N
  <2> QED BY <1>3, <1>5
<1>7. \A k \in 1 .. n - t : stdin[t + k] = input[BytesRead + (t + k)]
  <2>1. \A k \in 1 .. n - t : t + k \in 1 .. n
    BY <1>3
  <2> QED BY <2>1 DEF InputInv
<1>8. \A k \in 1 .. n - t : BytesRead + (t + k) = (BytesRead + t) + k
  BY <1>3
<1>9. \A k \in 1 .. Len(stdin') : stdin'[k] = input'[BytesRead' + k]
  BY <1>1, <1>4, <1>6, <1>7, <1>8
<1>10. Len(stdin') <= Len(input')
  BY <1>1, <1>3, <1>4
<1>11. InputInv'
  BY <1>1, <1>4, <1>9, <1>10 DEF InputInv
<1> QED BY <1>2, <1>4, <1>6, <1>11 DEF t

\* Nothing that the input alone determines changes.
LEMMA SameInput ==
    ASSUME input' = input
    PROVE  Splits' = Splits /\ InputLines' = InputLines /\ AllWhole' = AllWhole
<1>1. Splits' = Splits
  BY DEF Splits, IsSplit
<1>2. InputLines' = InputLines
  <2>1. InputLines' = Complete(Split(input'))
    BY DEF InputLines, Split, Complete, Ending, FoldLeft, MapThenFoldSet
  <2> QED BY <2>1, InputLinesSplit
<1>3. AllWhole' = AllWhole
  BY <1>2 DEF AllWhole
<1> QED BY <1>1, <1>2, <1>3

\* The line completed is the one stored.
LEMMA ReadLineLines ==
    ASSUME InputInv, LinesInv, lines \in Seq(Seq(Bytes)), ReadLine
    PROVE  LinesInv'
<1>1. /\ input' = input /\ stdin # <<>> /\ stdin \in Seq(Bytes)
      /\ lines' = Append(lines, Line(SubSeq(stdin, 1, Taken)))
  BY DEF ReadLine, InputInv, fixed
<1>2. /\ InputInv' /\ BytesRead' = BytesRead + Taken /\ Taken \in 1 .. Len(stdin)
      /\ Len(stdin') = Len(stdin) - Taken
  BY ReadLineInput
<1>3. Splits' = Splits /\ AllWhole' = AllWhole
  BY <1>1, SameInput
<1> SUFFICES ASSUME AllWhole
             PROVE  /\ stdin' # <<>> => Ending(Splits[BytesRead']) = <<>>
                    /\ Len(lines') = Len(Complete(Splits[BytesRead']))
                    /\ \A k \in 1 .. Len(lines') :
                         lines'[k] = WithoutCR(Complete(Splits[BytesRead'])[k])
  BY <1>3 DEF LinesInv
<1>4. OneMore(BytesRead, BytesRead')
  BY <1>1, <1>2, LineRead DEF LinesInv
<1>5. SubSeq(stdin, 1, Taken) \in Seq(Bytes)
  BY <1>2, NextBytes
<1>6. /\ Len(lines') = Len(lines) + 1 /\ lines'[Len(lines) + 1] = Line(SubSeq(stdin, 1, Taken))
      /\ \A k \in 1 .. Len(lines) : lines'[k] = lines[k]
      /\ Len(lines) \in Nat
  <2>1. Line(SubSeq(stdin, 1, Taken)) \in Seq(Bytes)
    BY <1>5, LineType
  <2> QED BY <1>1, <2>1, AppendProperties, LenProperties
<1>7. stdin' # <<>> => BytesRead' < Len(input)
  <2>1. stdin' # <<>> => Len(stdin') # 0
    BY <1>2, EmptySeq DEF InputInv
  <2>2. Len(stdin') \in Nat /\ Len(input) \in Nat /\ BytesRead' = Len(input) - Len(stdin')
    BY <1>1, <1>2, LenProperties DEF InputInv, BytesRead
  <2> QED BY <2>1, <2>2
<1>8. /\ Len(lines) = Len(Complete(Splits[BytesRead]))
      /\ \A k \in 1 .. Len(lines) : lines[k] = WithoutCR(Complete(Splits[BytesRead])[k])
  BY DEF LinesInv
<1>9. \A k \in 1 .. Len(lines') : k \in 1 .. Len(lines) \/ k = Len(lines) + 1
  BY <1>6
<1> QED BY <1>4, <1>6, <1>7, <1>8, <1>9 DEF OneMore

-----------------------------------------------------------------------------
(* Printing a line between the borders. *)

Blank == " "
Printable == Bytes \cup {Blank}

\* So many spaces, and none for a negative number.
LEMMA SpacesAre ==
    ASSUME NEW n \in Int
    PROVE  /\ Spaces(n) \in Seq(Printable)
           /\ n >= 0 => Len(Spaces(n)) = n
           /\ n <= 0 => Spaces(n) = <<>>
<1>1. Spaces(n) = [k \in 1 .. n |-> Blank]
  BY Zenon DEF Spaces, Blank
<1>2. Blank \in Printable
  BY Zenon DEF Printable
<1>3. CASE n >= 0
  <2>1. n \in Nat
    BY <1>3
  <2>2. Spaces(n) \in [1 .. n -> Printable]
    BY <1>1, <1>2
  <2>3. Spaces(n) \in UNION {[1 .. k -> Printable] : k \in Nat}
    BY <2>1, <2>2, Zenon
  <2>4. Spaces(n) \in Seq(Printable)
    BY <2>3, SeqDef, Zenon
  <2>5. Len(Spaces(n)) = n
    BY <2>1, <2>2, <2>4, LenProperties
  <2>6. n = 0 => Spaces(n) = <<>>
    BY <2>4, <2>5, EmptySeq
  <2> QED BY <1>3, <2>1, <2>4, <2>5, <2>6
<1>4. CASE n < 0
  <2>1. 1 .. n = {}
    BY <1>4
  <2>2. 1 .. n = 1 .. 0
    BY <2>1
  <2>3. Spaces(n) = [k \in 1 .. 0 |-> Blank]
    BY <1>1, <2>2
  <2>4. Spaces(n) = <<>>
    BY <2>3
  <2>5. Spaces(n) \in Seq(Printable)
    BY <2>4, EmptySeq
  <2> QED BY <1>4, <2>4, <2>5
<1> QED BY <1>3, <1>4

\* The number of columns of a string is a number.
LEMMA StringWidthType ==
    ASSUME NEW s \in Seq(Bytes)
    PROVE  StringWidth(s) \in Nat
<1> DEFINE plain == WithoutANSI(s)
<1>1. plain \in Seq(Bytes)
  <2>1. PICK f \in [0 .. Len(s) -> ScanStates(Bytes)] : Scan(s) = f[Len(s)]
    BY ScanSteps
  <2>2. Len(s) \in 0 .. Len(s)
    BY LenProperties
  <2>3. Scan(s) \in ScanStates(Bytes)
    BY <2>1, <2>2
  <2> QED BY <2>3 DEF ScanStates, WithoutANSI
<1> HIDE DEF plain
<1>2. CASE \E k \in DOMAIN plain : plain[k] \in {"CTRL", "LF", "CR", "ESC"}
  <2>1. Wcswidth(plain) = -1
    BY <1>2 DEF Wcswidth
  <2> QED BY <2>1 DEF StringWidth, plain
<1>3. CASE \A k \in DOMAIN plain : plain[k] \notin {"CTRL", "LF", "CR", "ESC"}
  <2>1. PICK f \in [0 .. Len(plain) -> Nat] : Wcswidth(plain) = f[Len(plain)]
    BY <1>1, <1>3, WidthSteps
  <2>2. Len(plain) \in 0 .. Len(plain)
    BY <1>1, LenProperties
  <2>3. Wcswidth(plain) \in Nat
    BY <2>1, <2>2
  <2> QED BY <2>3 DEF StringWidth, plain
<1> QED BY <1>2, <1>3

\* A line between the borders, with nothing but spaces.
Framed(printedLine, line) ==
    \E a, b \in 0 .. Len(printedLine) :
      printedLine = left \o Spaces(a) \o line \o Spaces(b) \o right

\* A line between spaces, between the borders.
LEMMA FramedLine ==
    ASSUME left \in Seq(Printable), right \in Seq(Printable), NEW line \in Seq(Printable),
           NEW a \in Nat, NEW b \in Nat
    PROVE  LET printedLine == left \o (Spaces(a) \o line \o Spaces(b)) \o right
           IN  printedLine \in Seq(Printable) /\ Framed(printedLine, line)
<1> DEFINE C == Printable
           A == Spaces(a)
           B == Spaces(b)
           whole == left \o (A \o line \o B) \o right
<1>1. A \in Seq(C) /\ B \in Seq(C) /\ Len(A) = a /\ Len(B) = b
  BY SpacesAre
<1> HIDE DEF C, A, B
<1>a. left \in Seq(C) /\ right \in Seq(C) /\ line \in Seq(C)
  BY DEF C
<1>2. A \o line \in Seq(C) /\ Len(A \o line) = a + Len(line)
  BY <1>1, <1>a, ConcatProperties
<1>3. A \o line \o B \in Seq(C) /\ Len(A \o line \o B) = a + Len(line) + b
  <2> DEFINE s == A \o line
  <2> HIDE DEF s
  <2>1. s \o B \in Seq(C) /\ Len(s \o B) = Len(s) + Len(B)
    BY <1>1, <1>2, ConcatProperties DEF s
  <2> QED BY <1>1, <1>2, <2>1 DEF s
<1>4. left \o A \in Seq(C) /\ left \o A \o line \in Seq(C)
  BY <1>1, <1>a, ConcatProperties
<1>b. Associative(C)
  BY ConcatAssoc, Zenon
<1>5. left \o (A \o line \o B) = (left \o (A \o line)) \o B
  BY <1>1, <1>2, <1>a, <1>b, ZenonT(40) DEF Associative
<1>6. left \o (A \o line) = (left \o A) \o line
  BY <1>1, <1>a, <1>b, ZenonT(40) DEF Associative
<1>7. left \o (A \o line \o B) \in Seq(C)
      /\ Len(left \o (A \o line \o B)) = Len(left) + (a + Len(line) + b)
  BY <1>3, <1>a, ConcatProperties
<1>8. whole \in Seq(C) /\ Len(whole) = Len(left) + (a + Len(line) + b) + Len(right)
  BY <1>7, <1>a, ConcatProperties
<1>9. whole = left \o A \o line \o B \o right
  BY <1>5, <1>6
<1> HIDE DEF whole
<1>10. a \in 0 .. Len(whole) /\ b \in 0 .. Len(whole)
  <2>1. Len(left) \in Nat /\ Len(line) \in Nat /\ Len(right) \in Nat
    BY <1>a, LenProperties
  <2> QED BY <1>8, <2>1
<1>11. Framed(whole, line)
  BY <1>9, <1>10 DEF Framed, A, B
<1> QED BY <1>8, <1>11 DEF whole, A, B, C

\* What PrintLine prints of a line.
Between(line) ==
    IF mode = "MultiLineCenter" THEN Centered(line, Room, TRUE)
    ELSE IF indentWidth = 0 THEN line
    ELSE Indented(line, indentWidth)

\* Every mode puts nothing but spaces around a line.
LEMMA BetweenBorders ==
    ASSUME left \in Seq(Bytes), right \in Seq(Bytes), NEW line \in Seq(Bytes),
           columns \in Int, indentWidth \in Int
    PROVE  LET printedLine == left \o Between(line) \o right
           IN  printedLine \in Seq(Printable) /\ Framed(printedLine, line)
<1>1. /\ left \in Seq(Printable) /\ right \in Seq(Printable) /\ line \in Seq(Printable)
  <2>1. Bytes \subseteq Printable
    BY Zenon DEF Printable
  <2> QED BY <2>1, SeqMonotonic
<1>2. StringWidth(left) \in Nat /\ StringWidth(right) \in Nat /\ StringWidth(line) \in Nat
  BY StringWidthType
<1>3. Room \in Int
  BY <1>2 DEF Room
<1>4. \E a, b \in Nat : Between(line) = Spaces(a) \o line \o Spaces(b)
  <2>0. Spaces(0) = <<>> /\ Spaces(0) \in Seq(Printable)
    BY SpacesAre
  <2>1. \A n \in Int : Spaces(n) \in Seq(Printable) /\ (n < 0 => Spaces(n) = Spaces(0))
    BY <2>0, SpacesAre
  <2>2. CASE mode = "MultiLineCenter"
    <3> DEFINE spacing == Room - StringWidth(line)
               indentation == IF spacing >= 0 THEN spacing \div 2 ELSE 0
               rest == spacing - indentation
    <3>1. spacing \in Int
      BY <1>2, <1>3
    <3>2. Between(line) = Spaces(indentation) \o line \o Spaces(rest)
      BY <2>2, Zenon DEF Between, Centered
    <3> HIDE DEF spacing
    <3>3. indentation \in Nat /\ rest \in Int
      BY <3>1
    <3> HIDE DEF indentation, rest
    <3>4. CASE rest >= 0
      <4>1. rest \in Nat
        BY <3>3, <3>4
      <4> QED BY <3>2, <3>3, <4>1, Zenon
    <3>5. CASE ~(rest >= 0)
      <4>1. Spaces(rest) = Spaces(0)
        BY <2>1, <3>3, <3>5
      <4>2. 0 \in Nat
        OBVIOUS
      <4>3. Between(line) = Spaces(indentation) \o line \o Spaces(0)
        BY <3>2, <4>1, Zenon
      <4> QED BY <3>3, <4>2, <4>3, Zenon
    <3> QED BY <3>4, <3>5
  <2>3. CASE mode # "MultiLineCenter" /\ indentWidth = 0
    <3>1. Between(line) = line
      BY <2>3 DEF Between
    <3>2. Spaces(0) \o line = line /\ line \o Spaces(0) = line
      BY <1>1, <2>0, ConcatEmptySeq
    <3> QED BY <3>1, <3>2
  <2>4. CASE mode # "MultiLineCenter" /\ indentWidth > 0
    <3> DEFINE n == indentWidth - StringWidth(line)
    <3>1. Between(line) = Spaces(n) \o line
      BY <2>4 DEF Between, Indented
    <3>2. n \in Int
      BY <1>2
    <3> HIDE DEF n
    <3>3. Spaces(n) \o line \in Seq(Printable)
      BY <1>1, <2>1, <3>2, ConcatProperties
    <3>4. Spaces(n) \o line = Spaces(n) \o line \o Spaces(0)
      BY <2>0, <3>3, ConcatEmptySeq
    <3>5. \E a \in Nat : Spaces(n) = Spaces(a)
      <4>1. CASE n >= 0
        BY <3>2, <4>1
      <4>2. CASE n < 0
        BY <2>1, <3>2, <4>2
      <4> QED BY <3>2, <4>1, <4>2
    <3> QED BY <3>1, <3>4, <3>5
  <2>5. CASE mode # "MultiLineCenter" /\ indentWidth < 0
    <3> DEFINE n == -indentWidth - StringWidth(line)
    <3>1. Between(line) = line \o Spaces(n)
      BY <2>5 DEF Between, Indented
    <3>2. n \in Int
      BY <1>2
    <3> HIDE DEF n
    <3>3. Spaces(0) \o line = line
      BY <1>1, <2>0, ConcatEmptySeq
    <3>4. \E b \in Nat : Spaces(n) = Spaces(b)
      <4>1. CASE n >= 0
        BY <3>2, <4>1
      <4>2. CASE n < 0
        BY <2>1, <3>2, <4>2
      <4> QED BY <3>2, <4>1, <4>2
    <3> QED BY <3>1, <3>3, <3>4
  <2>6. indentWidth = 0 \/ indentWidth > 0 \/ indentWidth < 0
    OBVIOUS
  <2> QED BY <2>2, <2>3, <2>4, <2>5, <2>6, Zenon
<1>5. PICK a \in Nat, b \in Nat : Between(line) = Spaces(a) \o line \o Spaces(b)
  BY <1>4
<1> QED BY <1>1, <1>5, FramedLine

-----------------------------------------------------------------------------
(* Widths of plain strings. *)

\* The bytes of two strings, one behind the other.
LEMMA ConcatElements ==
    ASSUME NEW C, NEW s \in Seq(C), NEW t \in Seq(C)
    PROVE  /\ s \o t \in Seq(C) /\ Len(s \o t) = Len(s) + Len(t)
           /\ Len(s) \in Nat /\ Len(t) \in Nat
           /\ \A k \in 1 .. Len(s) : s[k] \in C /\ (s \o t)[k] = s[k]
           /\ \A k \in 1 .. Len(t) : t[k] \in C /\ (s \o t)[Len(s) + k] = t[k]
<1> DEFINE m == Len(s)
           n == Len(t)
           whole == s \o t
<1>1. m \in Nat /\ n \in Nat /\ whole \in Seq(C) /\ Len(whole) = m + n
  BY LenProperties, ConcatProperties
<1>2. \A k \in 1 .. m + n : whole[k] = IF k <= m THEN s[k] ELSE t[k - m]
  BY ConcatProperties
<1>3. (\A k \in 1 .. m : s[k] \in C) /\ \A k \in 1 .. n : t[k] \in C
  BY ElementOfSeq
<1> HIDE DEF whole, m, n
<1>4. \A k \in 1 .. m : whole[k] = s[k]
  BY <1>1, <1>2
<1>5. ASSUME NEW k \in 1 .. n  PROVE whole[m + k] = t[k]
  <2>1. m + k \in 1 .. m + n /\ ~(m + k <= m) /\ (m + k) - m = k
    BY <1>1
  <2> QED BY <1>2, <2>1
<1> QED BY <1>1, <1>3, <1>4, <1>5 DEF whole, m, n

\* What a byte does to the state of Scan().
LEMMA ScanStepIs ==
    ASSUME NEW C, NEW state \in ScanStates(C), NEW b
    PROVE  /\ ScanStep(state, b).ansi = IF state.ansi THEN b \notin Letters ELSE b = "ESC"
           /\ ScanStep(state, b).kept = IF state.ansi \/ b = "ESC" THEN state.kept
                                        ELSE Append(state.kept, b)
BY DEF ScanStep, ScanStates

AppendsBehind(C) ==
    \A p, q \in Seq(C), c \in C : Append(p \o q, c) = p \o Append(q, c)

LEMMA AppendToConcat == ASSUME NEW C  PROVE AppendsBehind(C)
<1> SUFFICES ASSUME NEW p \in Seq(C), NEW q \in Seq(C), NEW c \in C
             PROVE  Append(p \o q, c) = p \o Append(q, c)
  BY DEF AppendsBehind
<1> DEFINE u == <<c>>
<1>1. Append(q, c) = q \o u /\ Append(p \o q, c) = (p \o q) \o u
  BY ConcatProperties, AppendIsConcat
<1>2. u \in Seq(C)
  OBVIOUS
<1> HIDE DEF u
<1>3. Associative(C)
  BY ConcatAssoc, Zenon
<1>4. (p \o q) \o u = p \o (q \o u)
  BY <1>2, <1>3, ZenonT(40) DEF Associative
<1> QED BY <1>1, <1>4, Zenon

\* Behind a string that leaves no sequence open another one is read as it is alone.
LEMMA ScanConcat ==
    ASSUME NEW C, NEW s \in Seq(C), NEW t \in Seq(C), ~Scan(s).ansi
    PROVE  /\ Scan(s).kept \in Seq(C) /\ Scan(t).kept \in Seq(C)
           /\ Scan(s \o t).ansi = Scan(t).ansi
           /\ Scan(s \o t).kept = Scan(s).kept \o Scan(t).kept
<1>0. AppendsBehind(C)
  BY AppendToConcat
<1> DEFINE m == Len(s)
           n == Len(t)
           whole == s \o t
<1>1. /\ whole \in Seq(C) /\ Len(whole) = m + n /\ m \in Nat /\ n \in Nat
      /\ \A k \in 1 .. m : s[k] \in C /\ whole[k] = s[k]
      /\ \A k \in 1 .. n : t[k] \in C /\ whole[m + k] = t[k]
  BY ConcatElements
<1> HIDE DEF whole
<1>2. PICK f \in [0 .. m -> ScanStates(C)] :
             /\ f[0] = ScanStart /\ Scan(s) = f[m]
             /\ \A k \in 1 .. m : f[k] = ScanStep(f[k - 1], s[k])
  BY ScanSteps
<1>3. PICK g \in [0 .. n -> ScanStates(C)] :
             /\ g[0] = ScanStart /\ Scan(t) = g[n]
             /\ \A k \in 1 .. n : g[k] = ScanStep(g[k - 1], t[k])
  BY ScanSteps
<1>4. PICK h \in [0 .. m + n -> ScanStates(C)] :
             /\ h[0] = ScanStart /\ Scan(whole) = h[m + n]
             /\ \A k \in 1 .. m + n : h[k] = ScanStep(h[k - 1], whole[k])
  <2> HIDE DEF m, n
  <2>1. PICK h \in [0 .. Len(whole) -> ScanStates(C)] :
             /\ h[0] = ScanStart /\ Scan(whole) = h[Len(whole)]
             /\ \A k \in 1 .. Len(whole) : h[k] = ScanStep(h[k - 1], whole[k])
    BY ZenonT(60), <1>1, ScanSteps
  <2> QED BY <1>1, <2>1
<1> HIDE DEF m, n
<1>5. \A k \in 0 .. m : f[k] \in ScanStates(C)
  BY <1>2
<1>6. \A k \in 0 .. n : g[k] \in ScanStates(C)
  BY <1>3
<1>7. h[m] = f[m]
  <2> DEFINE S == {k \in 0 .. m : h[k] = f[k]}
  <2>1. 0 \in S
    BY <1>1, <1>2, <1>4
  <2>2. ASSUME NEW k \in 1 .. m, k - 1 \in S  PROVE k \in S
    <3>1. k \in 0 .. m /\ k \in 1 .. m + n
      BY <1>1
    <3>2. h[k - 1] = f[k - 1] /\ whole[k] = s[k]
      BY <1>1, <2>2
    <3>3. h[k] = ScanStep(h[k - 1], whole[k]) /\ f[k] = ScanStep(f[k - 1], s[k])
      BY <1>2, <1>4, <3>1
    <3> QED BY <3>1, <3>2, <3>3
  <2>3. m \in S
    <3> HIDE DEF S
    <3>1. \A k \in 0 .. m : k \in S
      BY <1>1, <2>1, <2>2, EveryPosition
    <3> QED BY <1>1, <3>1
  <2> QED BY <2>3
<1>8. f[m].ansi = FALSE /\ f[m].kept \in Seq(C)
  <2>1. m \in 0 .. m
    BY <1>1
  <2> QED BY <1>2, <1>5, <2>1 DEF ScanStates
<1> DEFINE Ok(k) == h[m + k].ansi = g[k].ansi /\ h[m + k].kept = f[m].kept \o g[k].kept
<1>9. Ok(0)
  <2>1. h[m + 0] = f[m] /\ g[0].ansi = FALSE /\ g[0].kept = <<>>
    BY <1>1, <1>3, <1>7 DEF ScanStart
  <2>2. f[m].kept \o <<>> = f[m].kept
    BY <1>8, ConcatEmptySeq
  <2> QED BY <1>8, <2>1, <2>2
<1>10. ASSUME NEW k \in 1 .. n, Ok(k - 1)  PROVE Ok(k)
  <2> DEFINE x == g[k - 1]
             y == h[m + (k - 1)]
             b == t[k]
  <2>1. /\ m + k \in 1 .. m + n /\ (m + k) - 1 = m + (k - 1)
        /\ k - 1 \in 0 .. n /\ m + (k - 1) \in 0 .. m + n
    BY <1>1
  <2>2. h[m + k] = ScanStep(y, b) /\ g[k] = ScanStep(x, b)
    BY <1>1, <1>3, <1>4, <2>1
  <2>3. x \in ScanStates(C) /\ y \in ScanStates(C) /\ b \in C
    BY <1>1, <1>3, <1>4, <2>1
  <2>4. y.ansi = x.ansi /\ y.kept = f[m].kept \o x.kept
    BY <1>10
  <2> HIDE DEF x, y, b, Ok
  <2>5. x.kept \in Seq(C) /\ y.kept \in Seq(C)
    BY <2>3 DEF ScanStates
  <2>6. Append(y.kept, b) = f[m].kept \o Append(x.kept, b)
    <3> DEFINE base == f[m].kept
               kept == x.kept
    <3>1. base \in Seq(C) /\ kept \in Seq(C)
      BY <1>8, <2>5
    <3> HIDE DEF base, kept
    <3>2. Append(base \o kept, b) = base \o Append(kept, b)
      BY <1>0, <2>3, <3>1, Zenon DEF AppendsBehind
    <3> QED BY <2>4, <3>2, Zenon DEF base, kept
  <2>7. /\ ScanStep(x, b).ansi = IF x.ansi THEN b \notin Letters ELSE b = "ESC"
        /\ ScanStep(x, b).kept = IF x.ansi \/ b = "ESC" THEN x.kept ELSE Append(x.kept, b)
    BY <2>3, ScanStepIs
  <2>8. /\ ScanStep(y, b).ansi = IF y.ansi THEN b \notin Letters ELSE b = "ESC"
        /\ ScanStep(y, b).kept = IF y.ansi \/ b = "ESC" THEN y.kept ELSE Append(y.kept, b)
    BY <2>3, ScanStepIs
  <2> QED BY <2>2, <2>4, <2>6, <2>7, <2>8 DEF Ok
<1>11. Ok(n)
  <2> DEFINE S == {k \in 0 .. n : Ok(k)}
  <2> HIDE DEF Ok
  <2>1. 0 \in S
    BY <1>1, <1>9
  <2>2. ASSUME NEW k \in 1 .. n, k - 1 \in S  PROVE k \in S
    BY <1>10, <2>2
  <2>3. n \in S
    <3> HIDE DEF S
    <3>1. \A k \in 0 .. n : k \in S
      BY <1>1, <2>1, <2>2, EveryPosition
    <3> QED BY <1>1, <3>1
  <2> QED BY <2>3
<1>12. n \in 0 .. n
  BY <1>1
<1>13. g[n].kept \in Seq(C)
  BY <1>6, <1>12 DEF ScanStates
<1> QED BY <1>2, <1>3, <1>4, <1>8, <1>11, <1>13 DEF whole

\* A string without ESC is kept as it is.
LEMMA ScanPlain ==
    ASSUME NEW C, NEW s \in Seq(C), \A k \in 1 .. Len(s) : s[k] # "ESC"
    PROVE  ~Scan(s).ansi /\ Scan(s).kept = s
<1> DEFINE n == Len(s)
<1>1. n \in Nat /\ \A k \in 1 .. n : s[k] \in C
  BY LenProperties, ElementOfSeq
<1>2. PICK f \in [0 .. n -> ScanStates(C)] :
             /\ f[0] = ScanStart /\ Scan(s) = f[n]
             /\ \A k \in 1 .. n : f[k] = ScanStep(f[k - 1], s[k])
  BY ScanSteps
<1> DEFINE Ok(k) == /\ f[k].ansi = FALSE /\ Len(f[k].kept) = k
                    /\ \A j \in 1 .. k : f[k].kept[j] = s[j]
<1>3. Ok(0)
  <2>1. f[0].ansi = FALSE /\ f[0].kept = <<>>
    BY <1>2 DEF ScanStart
  <2>2. Len(f[0].kept) = 0
    BY <2>1
  <2>3. 1 .. 0 = {}
    OBVIOUS
  <2> QED BY <2>1, <2>2, <2>3
<1>4. ASSUME NEW k \in 1 .. n, Ok(k - 1)  PROVE Ok(k)
  <2> DEFINE x == f[k - 1]
             b == s[k]
  <2>1. x \in ScanStates(C) /\ b \in C /\ b # "ESC" /\ f[k] = ScanStep(x, b)
    <3>1. k - 1 \in 0 .. n
      BY <1>1
    <3> QED BY <1>1, <1>2, <3>1
  <2>2. x.ansi = FALSE /\ Len(x.kept) = k - 1 /\ \A j \in 1 .. k - 1 : x.kept[j] = s[j]
    BY <1>4
  <2> HIDE DEF x, b, n
  <2>3. x.kept \in Seq(C)
    BY <2>1 DEF ScanStates
  <2>4. f[k].ansi = FALSE /\ f[k].kept = Append(x.kept, b)
    <3>1. /\ ScanStep(x, b).ansi = IF x.ansi THEN b \notin Letters ELSE b = "ESC"
          /\ ScanStep(x, b).kept = IF x.ansi \/ b = "ESC" THEN x.kept
                                   ELSE Append(x.kept, b)
      BY <2>1, ScanStepIs
    <3> QED BY <2>1, <2>2, <3>1
  <2> DEFINE y == f[k].kept
  <2> HIDE DEF y
  <2>5. /\ Len(y) = Len(x.kept) + 1 /\ \A j \in 1 .. Len(x.kept) : y[j] = x.kept[j]
        /\ y[Len(x.kept) + 1] = b
    BY <2>1, <2>3, <2>4, AppendProperties DEF y
  <2>6. Len(y) = k
    BY <1>1, <2>2, <2>5
  <2>7. ASSUME NEW j \in 1 .. k  PROVE y[j] = s[j]
    <3>1. CASE j = k
      <4>1. Len(x.kept) + 1 = k
        BY <1>1, <2>2
      <4> QED BY <2>5, <3>1, <4>1 DEF b
    <3>2. CASE j # k
      <4>1. j \in 1 .. k - 1
        BY <1>1, <3>2
      <4> QED BY <2>2, <2>5, <4>1
    <3> QED BY <3>1, <3>2
  <2> QED BY <2>4, <2>6, <2>7 DEF y
<1>5. Ok(n)
  <2> DEFINE S == {k \in 0 .. n : Ok(k)}
  <2> HIDE DEF Ok, n
  <2>1. 0 \in S
    BY <1>1, <1>3
  <2>2. ASSUME NEW k \in 1 .. n, k - 1 \in S  PROVE k \in S
    BY <1>4, <2>2
  <2>3. n \in S
    <3> HIDE DEF S
    <3>1. \A k \in 0 .. n : k \in S
      BY <1>1, <2>1, <2>2, EveryPosition
    <3> QED BY <1>1, <3>1
  <2> QED BY <2>3
<1>6. f[n].kept \in Seq(C)
  <2>1. n \in 0 .. n
    BY <1>1
  <2> QED BY <1>2, <2>1 DEF ScanStates
<1>7. f[n].kept = s
  BY <1>5, <1>6, SeqEqual
<1> QED BY <1>2, <1>5, <1>7

Unprintable == {"CTRL", "LF", "CR", "ESC"}

\* wcswidth() knows the width of the strings without control characters.
LEMMA WidthKnown ==
    ASSUME NEW C, NEW s \in Seq(C)
    PROVE  /\ Wcswidth(s) \in Int
           /\ Wcswidth(s) >= 0 <=> \A k \in 1 .. Len(s) : s[k] \notin Unprintable
<1>1. DOMAIN s = 1 .. Len(s) /\ Len(s) \in Nat
  BY LenProperties
<1>2. CASE \E k \in DOMAIN s : s[k] \in Unprintable
  <2>1. Wcswidth(s) = -1
    BY <1>2 DEF Wcswidth, Unprintable
  <2> QED BY <1>1, <1>2, <2>1
<1>3. CASE \A k \in DOMAIN s : s[k] \notin Unprintable
  <2>1. PICK f \in [0 .. Len(s) -> Nat] : Wcswidth(s) = f[Len(s)]
    BY <1>3, WidthSteps DEF Unprintable
  <2>2. Len(s) \in 0 .. Len(s)
    BY <1>1
  <2>3. Wcswidth(s) \in Nat
    BY <2>1, <2>2
  <2> QED BY <1>1, <1>3, <2>3
<1> QED BY <1>2, <1>3

\* Two strings, one behind the other, are as wide as both.
LEMMA WidthConcat ==
    ASSUME NEW C, NEW s \in Seq(C), NEW t \in Seq(C), Wcswidth(s) >= 0, Wcswidth(t) >= 0
    PROVE  Wcswidth(s \o t) = Wcswidth(s) + Wcswidth(t)
<1> DEFINE m == Len(s)
           n == Len(t)
           whole == s \o t
<1>1. /\ whole \in Seq(C) /\ Len(whole) = m + n /\ m \in Nat /\ n \in Nat
      /\ \A k \in 1 .. m : whole[k] = s[k]
      /\ \A k \in 1 .. n : whole[m + k] = t[k]
  BY ConcatElements
<1> HIDE DEF whole
<1>2. /\ \A k \in 1 .. m : s[k] \notin Unprintable
      /\ \A k \in 1 .. n : t[k] \notin Unprintable
  BY WidthKnown
<1>3. \A k \in 1 .. m + n : whole[k] \notin Unprintable
  <2> SUFFICES ASSUME NEW k \in 1 .. m + n  PROVE whole[k] \notin Unprintable
    OBVIOUS
  <2> HIDE DEF m, n
  <2>1. CASE k <= m
    BY <1>1, <1>2, <2>1
  <2>2. CASE ~(k <= m)
    <3>1. k - m \in 1 .. n /\ m + (k - m) = k
      BY <1>1, <2>2
    <3> QED BY <1>1, <1>2, <3>1
  <2> QED BY <2>1, <2>2
<1>4. DOMAIN s = 1 .. m /\ DOMAIN t = 1 .. n /\ DOMAIN whole = 1 .. m + n
  BY <1>1, LenProperties
<1>5. PICK f \in [0 .. m -> Nat] :
             /\ f[0] = WidthStart /\ Wcswidth(s) = f[m]
             /\ \A k \in 1 .. m : f[k] = WidthStep(f[k - 1], s[k])
  BY <1>2, <1>4, WidthSteps DEF Unprintable
<1>6. PICK g \in [0 .. n -> Nat] :
             /\ g[0] = WidthStart /\ Wcswidth(t) = g[n]
             /\ \A k \in 1 .. n : g[k] = WidthStep(g[k - 1], t[k])
  BY <1>2, <1>4, WidthSteps DEF Unprintable
<1>7. PICK h \in [0 .. m + n -> Nat] :
             /\ h[0] = WidthStart /\ Wcswidth(whole) = h[m + n]
             /\ \A k \in 1 .. m + n : h[k] = WidthStep(h[k - 1], whole[k])
  <2>1. \A k \in DOMAIN whole : whole[k] \notin {"CTRL", "LF", "CR", "ESC"}
    BY <1>3, <1>4 DEF Unprintable
  <2> HIDE DEF m, n
  <2>2. PICK h \in [0 .. Len(whole) -> Nat] :
             /\ h[0] = WidthStart /\ Wcswidth(whole) = h[Len(whole)]
             /\ \A k \in 1 .. Len(whole) : h[k] = WidthStep(h[k - 1], whole[k])
    BY <1>1, <2>1, WidthSteps
  <2> QED BY <1>1, <2>2
<1> HIDE DEF m, n
<1>8. h[m] = f[m]
  <2> DEFINE S == {k \in 0 .. m : h[k] = f[k]}
  <2>1. 0 \in S
    BY <1>1, <1>5, <1>7
  <2>2. ASSUME NEW k \in 1 .. m, k - 1 \in S  PROVE k \in S
    <3>1. k \in 0 .. m /\ k \in 1 .. m + n /\ h[k - 1] = f[k - 1] /\ whole[k] = s[k]
      BY <1>1, <2>2
    <3> QED BY <1>5, <1>7, <3>1
  <2>3. m \in S
    <3> HIDE DEF S
    <3>1. \A k \in 0 .. m : k \in S
      BY <1>1, <2>1, <2>2, EveryPosition
    <3> QED BY <1>1, <3>1
  <2> QED BY <2>3
<1>9. f[m] \in Nat
  <2>1. m \in 0 .. m
    BY <1>1
  <2> QED BY <1>5, <2>1
<1>10. \A b : Columns(b) \in Nat
  BY DEF Columns
<1> DEFINE S == {k \in 0 .. n : h[m + k] = f[m] + g[k]}
<1>11. 0 \in S
  <2>1. h[m + 0] = f[m] /\ g[0] = 0
    BY <1>1, <1>6, <1>8 DEF WidthStart
  <2> QED BY <1>1, <1>9, <2>1
<1>12. ASSUME NEW k \in 1 .. n, k - 1 \in S  PROVE k \in S
  <2>1. /\ m + k \in 1 .. m + n /\ (m + k) - 1 = m + (k - 1)
        /\ k - 1 \in 0 .. n /\ k \in 0 .. n
    BY <1>1
  <2>2. /\ h[m + k] = h[m + (k - 1)] + Columns(t[k])
        /\ g[k] = g[k - 1] + Columns(t[k])
    BY <1>1, <1>6, <1>7, <2>1 DEF WidthStep
  <2>3. h[m + (k - 1)] = f[m] + g[k - 1]
    BY <1>12
  <2>4. g[k - 1] \in Nat /\ Columns(t[k]) \in Nat
    BY <1>6, <1>10, <2>1
  <2>5. h[m + k] = f[m] + g[k]
    BY <1>9, <2>2, <2>3, <2>4
  <2> QED BY <2>1, <2>5
<1>13. n \in S
  <2> HIDE DEF S
  <2>1. \A k \in 0 .. n : k \in S
    BY <1>1, <1>11, <1>12, EveryPosition
  <2> QED BY <1>1, <2>1
<1> QED BY <1>5, <1>6, <1>7, <1>13 DEF whole

\* Characters stay whole when strings are put together.
LEMMA DecodableConcat ==
    ASSUME NEW C, NEW s \in Seq(C), NEW t \in Seq(C), Decodable(s), Decodable(t)
    PROVE  Decodable(s \o t)
<1> DEFINE m == Len(s)
           n == Len(t)
           whole == s \o t
           Heads == {"L", "K"}
<1>1. /\ whole \in Seq(C) /\ Len(whole) = m + n /\ m \in Nat /\ n \in Nat
      /\ \A k \in 1 .. m : whole[k] = s[k]
      /\ \A k \in 1 .. n : whole[m + k] = t[k]
  BY ConcatElements
<1>2. DOMAIN s = 1 .. m /\ DOMAIN t = 1 .. n
  BY LenProperties
<1>3. DOMAIN whole = 1 .. m + n
  BY <1>1, LenProperties
<1>4. /\ \A k \in 1 .. m : s[k] \in Heads => k < m /\ s[k + 1] = "T"
      /\ \A k \in 1 .. m : s[k] = "T" => k > 1 /\ s[k - 1] \in Heads
      /\ \A k \in 1 .. n : t[k] \in Heads => k < n /\ t[k + 1] = "T"
      /\ \A k \in 1 .. n : t[k] = "T" => k > 1 /\ t[k - 1] \in Heads
  BY <1>2, Zenon DEF Decodable
<1> HIDE DEF whole, m, n, Heads
<1>5. ASSUME NEW k \in 1 .. m + n
      PROVE  /\ whole[k] \in Heads => k < m + n /\ whole[k + 1] = "T"
             /\ whole[k] = "T" => k > 1 /\ whole[k - 1] \in Heads
  <2>1. CASE k <= m
    <3>1. k \in 1 .. m /\ whole[k] = s[k]
      BY <1>1, <2>1
    <3>2. k < m => k + 1 \in 1 .. m /\ whole[k + 1] = s[k + 1] /\ k < m + n
      BY <1>1, <2>1
    <3>3. k > 1 => k - 1 \in 1 .. m /\ whole[k - 1] = s[k - 1]
      BY <1>1, <2>1
    <3> QED BY <1>4, <3>1, <3>2, <3>3
  <2>2. CASE ~(k <= m)
    <3> DEFINE j == k - m
    <3>1. j \in 1 .. n /\ whole[k] = t[j]
      <4>1. j \in 1 .. n /\ m + j = k
        BY <1>1, <2>2
      <4> QED BY <1>1, <4>1
    <3>2. j < n => whole[k + 1] = t[j + 1] /\ k < m + n
      <4>1. j < n => j + 1 \in 1 .. n /\ m + (j + 1) = k + 1 /\ k < m + n
        BY <1>1, <2>2
      <4> QED BY <1>1, <4>1
    <3>3. j > 1 => whole[k - 1] = t[j - 1] /\ k > 1
      <4>1. j > 1 => j - 1 \in 1 .. n /\ m + (j - 1) = k - 1 /\ k > 1
        BY <1>1, <2>2
      <4> QED BY <1>1, <4>1
    <3> HIDE DEF j
    <3> QED BY <1>4, <3>1, <3>2, <3>3
  <2> QED BY <2>1, <2>2
<1>6. \A k \in DOMAIN whole :
        /\ whole[k] \in Heads => k < Len(whole) /\ whole[k + 1] = "T"
        /\ whole[k] = "T" => k > 1 /\ whole[k - 1] \in Heads
  BY <1>1, <1>3, <1>5, Zenon
<1> QED BY <1>6, Zenon DEF Decodable, whole, Heads

\* The width of a plain string is that of what is kept of it.
LEMMA PlainWidth ==
    ASSUME NEW C, NEW s \in Seq(C), Plain(s)
    PROVE  /\ Scan(s).kept \in Seq(C) /\ ~Scan(s).ansi /\ Decodable(Scan(s).kept)
           /\ StringWidth(s) = Wcswidth(Scan(s).kept) /\ StringWidth(s) \in Nat
<1>1. PICK f \in [0 .. Len(s) -> ScanStates(C)] : Scan(s) = f[Len(s)]
  BY ScanSteps
<1>2. Len(s) \in 0 .. Len(s)
  BY LenProperties
<1>3. Scan(s).kept \in Seq(C)
  BY <1>1, <1>2 DEF ScanStates
<1>4. Wcswidth(Scan(s).kept) \in Int
  BY <1>3, WidthKnown
<1>5. Wcswidth(Scan(s).kept) >= 0 /\ ~Scan(s).ansi /\ Decodable(Scan(s).kept)
  BY DEF Plain, WithoutANSI, Converts
<1> QED BY <1>3, <1>4, <1>5 DEF StringWidth, WithoutANSI

\* Plain strings, one behind the other, are plain and as wide as both.
LEMMA PlainConcat ==
    ASSUME NEW C, NEW s \in Seq(C), NEW t \in Seq(C), Plain(s), Plain(t)
    PROVE  Plain(s \o t) /\ StringWidth(s \o t) = StringWidth(s) + StringWidth(t)
<1> DEFINE p == Scan(s).kept
           q == Scan(t).kept
<1>1. /\ p \in Seq(C) /\ ~Scan(s).ansi /\ Decodable(p)
      /\ StringWidth(s) = Wcswidth(p) /\ Wcswidth(p) \in Nat
  BY PlainWidth
<1>2. /\ q \in Seq(C) /\ ~Scan(t).ansi /\ Decodable(q)
      /\ StringWidth(t) = Wcswidth(q) /\ Wcswidth(q) \in Nat
  BY PlainWidth
<1>3. Scan(s \o t).ansi = Scan(t).ansi /\ Scan(s \o t).kept = p \o q
  BY ZenonT(60), <1>1, ScanConcat
<1> HIDE DEF p, q
<1>4. Decodable(p \o q)
  BY <1>1, <1>2, DecodableConcat
<1>5. Wcswidth(p \o q) = Wcswidth(p) + Wcswidth(q)
  <2>1. Wcswidth(p) >= 0 /\ Wcswidth(q) >= 0
    BY <1>1, <1>2
  <2> QED BY <1>1, <1>2, <2>1, WidthConcat
<1>6. Wcswidth(p \o q) >= 0
  BY <1>1, <1>2, <1>5
<1>7. Plain(s \o t)
  BY <1>2, <1>3, <1>4, <1>6 DEF Plain, Converts, WithoutANSI
<1>8. StringWidth(s \o t) = Wcswidth(p \o q)
  BY <1>3, <1>6 DEF StringWidth, WithoutANSI
<1> QED BY <1>1, <1>2, <1>5, <1>7, <1>8

\* Spaces are plain, and as many columns as they are.
LEMMA PlainSpaces ==
    ASSUME NEW n \in Int
    PROVE  Plain(Spaces(n)) /\ StringWidth(Spaces(n)) = IF n >= 0 THEN n ELSE 0
<1> DEFINE m == IF n >= 0 THEN n ELSE 0
           s == Spaces(n)
<1>1. m \in Nat /\ s \in Seq(Printable) /\ Len(s) = m
  <2>1. n < 0 => s = <<>>
    BY SpacesAre
  <2>2. Len(<<>>) = 0
    BY EmptySeq
  <2> QED BY <2>1, <2>2, SpacesAre
<1>2. \A k \in 1 .. m : s[k] = Blank
  <2>1. Spaces(n) = [k \in 1 .. n |-> Blank]
    BY Zenon DEF Spaces, Blank
  <2>2. \A k \in 1 .. m : k \in 1 .. n
    OBVIOUS
  <2> QED BY <2>1, <2>2
<1> HIDE DEF m, s
<1>3. Blank \notin {"ESC", "CTRL", "LF", "CR", "L", "K", "T"}
  BY DEF Blank
<1>4. DOMAIN s = 1 .. m
  BY <1>1, LenProperties
<1>5. ~Scan(s).ansi /\ Scan(s).kept = s
  <2>1. \A k \in 1 .. Len(s) : s[k] # "ESC"
    BY <1>1, <1>2, <1>3
  <2> QED BY <1>1, <2>1, ScanPlain
<1>6. Wcswidth(s) = m
  <2>1. \A k \in DOMAIN s : s[k] \notin {"CTRL", "LF", "CR", "ESC"}
    BY <1>2, <1>3, <1>4
  <2>2. PICK f \in [0 .. Len(s) -> Nat] :
             /\ f[0] = WidthStart /\ Wcswidth(s) = f[Len(s)]
             /\ \A k \in 1 .. Len(s) : f[k] = WidthStep(f[k - 1], s[k])
    BY <1>1, <2>1, WidthSteps
  <2>3. Columns(Blank) = 1
    BY <1>3 DEF Columns
  <2> DEFINE S == {k \in 0 .. m : f[k] = k}
  <2>4. 0 \in S
    BY <1>1, <2>2 DEF WidthStart
  <2>5. ASSUME NEW k \in 1 .. m, k - 1 \in S  PROVE k \in S
    <3>1. f[k] = f[k - 1] + Columns(s[k]) /\ s[k] = Blank
      BY <1>1, <1>2, <2>2 DEF WidthStep
    <3> HIDE DEF Blank
    <3> QED BY <1>1, <2>3, <2>5, <3>1
  <2>6. m \in S
    <3> HIDE DEF S
    <3>1. \A k \in 0 .. m : k \in S
      BY <1>1, <2>4, <2>5, EveryPosition
    <3> QED BY <1>1, <3>1
  <2> QED BY <1>1, <2>2, <2>6
<1>7. Decodable(s)
  <2>1. \A k \in DOMAIN s : s[k] \notin {"L", "K"} /\ s[k] # "T"
    BY <1>2, <1>3, <1>4
  <2> QED BY <2>1, Zenon DEF Decodable
<1>8. m >= 0
  BY <1>1
<1> QED BY <1>5, <1>6, <1>7, <1>8 DEF Plain, Converts, WithoutANSI, StringWidth, s, m

NotNegative(n) == IF n >= 0 THEN n ELSE 0

\* A string between spaces.
LEMMA PlainBetween ==
    ASSUME NEW s \in Seq(Printable), Plain(s), NEW a \in Int, NEW b \in Int
    PROVE  LET whole == Spaces(a) \o s \o Spaces(b)
           IN  /\ whole \in Seq(Printable) /\ Plain(whole)
               /\ StringWidth(whole) = NotNegative(a) + StringWidth(s) + NotNegative(b)
               /\ Len(whole) = NotNegative(a) + Len(s) + NotNegative(b)
<1> DEFINE A == NotNegative(a)
           B == NotNegative(b)
           u == Spaces(a)
           v == Spaces(b)
           x == u \o s
<1>1. \A n \in Int : Len(Spaces(n)) = NotNegative(n)
  <2> SUFFICES ASSUME NEW n \in Int  PROVE Len(Spaces(n)) = NotNegative(n)
    OBVIOUS
  <2>1. n < 0 => Spaces(n) = <<>>
    BY SpacesAre
  <2>2. Len(<<>>) = 0
    BY EmptySeq
  <2> QED BY <2>1, <2>2, SpacesAre DEF NotNegative
<1>2. /\ u \in Seq(Printable) /\ Plain(u) /\ StringWidth(u) = A /\ Len(u) = A
      /\ v \in Seq(Printable) /\ Plain(v) /\ StringWidth(v) = B /\ Len(v) = B
  BY <1>1, SpacesAre, PlainSpaces DEF NotNegative
<1>3. A \in Nat /\ B \in Nat /\ Len(s) \in Nat
  BY LenProperties DEF NotNegative
<1> HIDE DEF A, B, u, v
<1>4. x \in Seq(Printable) /\ Len(x) = A + Len(s)
  BY <1>2, ConcatProperties
<1>5. Plain(x) /\ StringWidth(x) = A + StringWidth(s)
  BY <1>2, PlainConcat
<1> HIDE DEF x
<1>6. x \o v \in Seq(Printable) /\ Len(x \o v) = A + Len(s) + B
  <2>1. x \o v \in Seq(Printable) /\ Len(x \o v) = Len(x) + Len(v)
    BY <1>2, <1>4, ConcatProperties
  <2> QED BY <1>2, <1>3, <1>4, <2>1
<1>7. Plain(x \o v) /\ StringWidth(x \o v) = A + StringWidth(s) + B
  BY <1>2, <1>4, <1>5, PlainConcat
<1> QED BY <1>6, <1>7 DEF x, u, v, A, B

\* indent() makes a string as wide as told, or leaves it as it is.
LEMMA IndentedWidth ==
    ASSUME NEW s \in Seq(Printable), Plain(s), NEW total \in Int
    PROVE  /\ Indented(s, total) \in Seq(Printable) /\ Plain(Indented(s, total))
           /\ StringWidth(Indented(s, total)) = Larger(Abs(total), StringWidth(s))
<1> DEFINE w == StringWidth(s)
<1>0. w \in Nat
  BY PlainWidth
<1>1. Spaces(0) = <<>>
  BY SpacesAre
<1>2. \A x \in Seq(Printable) : x \o <<>> = x /\ <<>> \o x = x
  BY ConcatEmptySeq
<1>3. \A n \in Int : Spaces(n) \in Seq(Printable)
  BY SpacesAre
<1> HIDE DEF w
<1>4. CASE total > 0
  <2> DEFINE n == total - w
  <2>1. n \in Int
    BY <1>0
  <2>2. Indented(s, total) = Spaces(n) \o s
    BY <1>4 DEF Indented, w
  <2>3. Spaces(n) \o s = Spaces(n) \o s \o Spaces(0)
    <3> HIDE DEF n
    <3>1. Spaces(n) \o s \in Seq(Printable)
      BY <1>3, <2>1, ConcatProperties
    <3> QED BY <1>1, <1>2, <3>1
  <2>4. /\ Indented(s, total) \in Seq(Printable) /\ Plain(Indented(s, total))
        /\ StringWidth(Indented(s, total)) = NotNegative(n) + w + NotNegative(0)
    <3> HIDE DEF n
    <3> DEFINE whole == Spaces(n) \o s \o Spaces(0)
    <3>1. /\ whole \in Seq(Printable) /\ Plain(whole)
          /\ StringWidth(whole) = NotNegative(n) + StringWidth(s) + NotNegative(0)
      BY <2>1, PlainBetween
    <3> QED BY <2>2, <2>3, <3>1, Zenon DEF w
  <2>5. NotNegative(n) + w + NotNegative(0) = Larger(Abs(total), w)
    BY <1>0, <1>4 DEF Larger, Abs, NotNegative
  <2> QED BY <2>4, <2>5 DEF w
<1>5. CASE ~(total > 0)
  <2> DEFINE n == -total - w
  <2>1. n \in Int
    BY <1>0
  <2>2. Indented(s, total) = s \o Spaces(n)
    BY <1>5 DEF Indented, w
  <2>3. s \o Spaces(n) = Spaces(0) \o s \o Spaces(n)
    <3> HIDE DEF n
    <3> QED BY <1>1, <1>2
  <2>4. /\ Indented(s, total) \in Seq(Printable) /\ Plain(Indented(s, total))
        /\ StringWidth(Indented(s, total)) = NotNegative(0) + w + NotNegative(n)
    <3> HIDE DEF n
    <3> QED BY <2>1, <2>2, <2>3, PlainBetween DEF w
  <2>5. NotNegative(0) + w + NotNegative(n) = Larger(Abs(total), w)
    BY <1>0, <1>5 DEF Larger, Abs, NotNegative
  <2> QED BY <2>4, <2>5 DEF w
<1> QED BY <1>4, <1>5

\* indent() puts its spaces in front for a positive number, else behind.
LEMMA IndentedSide ==
    ASSUME NEW s \in Seq(Printable), Plain(s), indentWidth \in Int
    PROVE  Justified(Indented(s, indentWidth), s)
<1> DEFINE total == indentWidth
           n == IF total > 0 THEN total - StringWidth(s) ELSE -total - StringWidth(s)
           v == Spaces(n)
<1>1. v \in Seq(Printable)
  <2>1. StringWidth(s) \in Nat
    BY PlainWidth
  <2> HIDE DEF v
  <2>2. n \in Int
    BY <2>1
  <2> HIDE DEF n
  <2> QED BY <2>2, SpacesAre DEF v
<1>2. Indented(s, total) = IF total > 0 THEN v \o s ELSE s \o v
  BY DEF Indented
<1> HIDE DEF n, v
<1>3. CASE total > 0
  <2>1. /\ v \o s \in Seq(Printable) /\ Len(v \o s) = Len(v) + Len(s)
        /\ Len(v) \in Nat /\ Len(s) \in Nat
        /\ \A k \in 1 .. Len(s) : (v \o s)[Len(v) + k] = s[k]
    BY <1>1, ConcatElements
  <2>2. SubSeq(v \o s, Len(v) + 1, Len(v) + Len(s)) = s
    BY <2>1
  <2> QED BY <1>2, <1>3, <2>1, <2>2 DEF Justified
<1>4. CASE ~(total > 0)
  <2>1. /\ s \o v \in Seq(Printable) /\ Len(s) \in Nat
        /\ Len(s \o v) = Len(s) + Len(v) /\ Len(v) \in Nat
        /\ \A k \in 1 .. Len(s) : (s \o v)[k] = s[k]
    BY <1>1, ConcatElements
  <2>2. SubSeq(s \o v, 1, Len(s)) = s
    BY <2>1
  <2> QED BY <1>2, <1>4, <2>2 DEF Justified
<1> QED BY <1>3, <1>4

\* A string in the middle of a width that has room for it.
LEMMA CenteredWidth ==
    ASSUME NEW s \in Seq(Printable), Plain(s), NEW width \in Int
    PROVE  /\ Centered(s, width, TRUE) \in Seq(Printable)
           /\ Plain(Centered(s, width, TRUE))
           /\ StringWidth(Centered(s, width, TRUE)) = Larger(width, StringWidth(s))
           /\ LET half == Centered(s, width, FALSE)
              IN  StringWidth(s) <= width =>
                    width - (StringWidth(half) + (Len(half) - Len(s))) \in {0, 1}
<1> DEFINE w == StringWidth(s)
           spacing == width - w
           indentation == IF spacing >= 0 THEN spacing \div 2 ELSE 0
           rest == spacing - indentation
<1>1. w \in Nat /\ spacing \in Int /\ Len(s) \in Nat
  <2>1. w \in Nat
    BY PlainWidth
  <2>2. Len(s) \in Nat
    BY LenProperties
  <2> QED BY <2>1, <2>2
<1>2. /\ Centered(s, width, TRUE) = Spaces(indentation) \o s \o Spaces(rest)
      /\ Centered(s, width, FALSE) = Spaces(indentation) \o s \o <<>>
  BY Zenon DEF Centered
<1>3. Spaces(0) = <<>>
  BY SpacesAre
<1> HIDE DEF w, spacing
<1>4. /\ indentation \in Nat /\ rest \in Int
      /\ spacing >= 0 => rest \in Nat /\ indentation + rest = spacing
                         /\ spacing - (indentation + indentation) \in {0, 1}
      /\ spacing < 0 => indentation = 0 /\ rest < 0
  BY <1>1
<1> HIDE DEF indentation, rest
<1>5. /\ Centered(s, width, TRUE) \in Seq(Printable)
      /\ Plain(Centered(s, width, TRUE))
      /\ StringWidth(Centered(s, width, TRUE))
           = NotNegative(indentation) + w + NotNegative(rest)
  <2>1. indentation \in Int /\ rest \in Int
    BY <1>4
  <2> DEFINE whole == Spaces(indentation) \o s \o Spaces(rest)
  <2>2. /\ whole \in Seq(Printable) /\ Plain(whole)
        /\ StringWidth(whole) = NotNegative(indentation) + StringWidth(s) + NotNegative(rest)
    BY <2>1, PlainBetween
  <2> QED BY <1>2, <2>2, Zenon DEF w
<1>6. NotNegative(indentation) + w + NotNegative(rest) = Larger(width, w)
  BY <1>1, <1>4 DEF Larger, spacing, NotNegative
<1> DEFINE half == Centered(s, width, FALSE)
<1>7. /\ StringWidth(half) = NotNegative(indentation) + w + NotNegative(0)
      /\ Len(half) = NotNegative(indentation) + Len(s) + NotNegative(0)
  <2>1. half = Spaces(indentation) \o s \o Spaces(0)
    BY <1>2, <1>3
  <2>2. indentation \in Int
    BY <1>4
  <2> HIDE DEF half
  <2> QED BY <2>1, <2>2, PlainBetween DEF w
<1> HIDE DEF half
<1>8. w <= width => width - (StringWidth(half) + (Len(half) - Len(s))) \in {0, 1}
  <2>1. StringWidth(half) = indentation + w /\ Len(half) = indentation + Len(s)
    BY <1>1, <1>4, <1>7 DEF NotNegative
  <2>2. width - (StringWidth(half) + (Len(half) - Len(s)))
          = spacing - (indentation + indentation)
    BY <1>1, <1>4, <2>1 DEF spacing
  <2>3. w <= width => spacing >= 0
    BY <1>1 DEF spacing
  <2> QED BY <1>4, <2>2, <2>3
<1> QED BY <1>5, <1>6, <1>8 DEF w, half

\* So many times the same string.
LEMMA PlainTimes ==
    ASSUME NEW C, NEW u \in Seq(C), Plain(u), NEW n \in Nat,
           Plain(<<>>), StringWidth(<<>>) = 0
    PROVE  /\ Times(u, n) \in Seq(C) /\ Plain(Times(u, n))
           /\ StringWidth(Times(u, n)) = n * StringWidth(u)
<1> DEFINE w == StringWidth(u)
           all == [k \in 1 .. n |-> u]
           Makes(g) == g = [j \in 1 .. n |-> IF j = 1 THEN all[j] ELSE g[j - 1] \o all[j]]
           made == CHOOSE g : Makes(g)
<1>1. w \in Nat
  BY PlainWidth
<1>2. all \in Seq(Seq(C)) /\ Len(all) = n
  <2>1. all \in [1 .. n -> Seq(C)]
    OBVIOUS
  <2>2. all \in UNION {[1 .. k -> Seq(C)] : k \in Nat}
    BY <2>1, Zenon
  <2>3. all \in Seq(Seq(C))
    BY <2>2, SeqDef, Zenon
  <2> QED BY <2>1, <2>3, LenProperties
<1>3. CASE n = 0
  <2>1. all = <<>> /\ Len(all) = 0
    BY <1>2, <1>3, EmptySeq
  <2>2. Times(u, n) = all
    BY <2>1, Zenon DEF Times, FlattenSeq
  <2>3. 0 * w = 0
    BY <1>1
  <2> QED BY <1>3, <2>1, <2>2, <2>3, EmptySeq
<1>4. CASE n # 0
  <2>1. \E g : Makes(g)
    <3> DEFINE Upto(m, g) ==
                 g = [j \in 1 .. m |-> IF j = 1 THEN u ELSE g[j - 1] \o u]
               S == {m \in 0 .. n : \E g : Upto(m, g)}
    <3>1. 0 \in S
      <4>1. Upto(0, [j \in 1 .. 0 |-> u])
        OBVIOUS
      <4> HIDE DEF Upto
      <4> QED BY <4>1
    <3>2. ASSUME NEW m \in 1 .. n, m - 1 \in S  PROVE m \in S
      <4>1. PICK g : Upto(m - 1, g)
        BY <3>2
      <4> DEFINE h == [j \in 1 .. m |-> IF j \in 1 .. m - 1 THEN g[j]
                                        ELSE IF j = 1 THEN u ELSE g[j - 1] \o u]
      <4>2. ASSUME NEW j \in 1 .. m
            PROVE  h[j] = IF j = 1 THEN u ELSE h[j - 1] \o u
        <5>1. j # 1 => j - 1 \in 1 .. m /\ j - 1 \in 1 .. m - 1
          OBVIOUS
        <5>2. j # 1 => h[j - 1] = g[j - 1]
          BY <5>1
        <5>3. j \in 1 .. m - 1 => g[j] = IF j = 1 THEN u ELSE g[j - 1] \o u
          BY <4>1
        <5> QED BY <5>2, <5>3
      <4>3. Upto(m, h)
        <5>1. h = [j \in 1 .. m |-> h[j]]
          OBVIOUS
        <5> HIDE DEF h
        <5> QED BY <4>2, <5>1
      <4> HIDE DEF Upto
      <4> QED BY <4>3
    <3>3. n \in S
      <4> HIDE DEF S
      <4>1. \A k \in 0 .. n : k \in S
        BY <3>1, <3>2, EveryPosition
      <4> QED BY <4>1
    <3>4. PICK g : Upto(n, g)
      BY <3>3
    <3>5. Makes(g)
      BY <3>4
    <3> HIDE DEF Makes
    <3> QED BY <3>5
  <2>2. Makes(made)
    <3> HIDE DEF Makes
    <3> QED BY <2>1
  <2>3. Times(u, n) = made[n]
    <3> HIDE DEF all
    <3>1. FlattenSeq(all) = made[n]
      BY <1>2, <1>4 DEF FlattenSeq
    <3> QED BY <3>1 DEF Times, all
  <2> HIDE DEF made
  <2>4. \A j \in 1 .. n : made[j] = IF j = 1 THEN u ELSE made[j - 1] \o u
    BY <2>2
  <2> HIDE DEF Makes, all
  <2> DEFINE Ok(j) == made[j] \in Seq(C) /\ Plain(made[j]) /\ StringWidth(made[j]) = j * w
             S == {0} \cup {j \in 1 .. n : Ok(j)}
  <2>5. ASSUME NEW j \in 1 .. n, j - 1 \in S  PROVE j \in S
    <3>1. CASE j = 1
      <4>1. made[1] = u
        BY <2>4, <3>1
      <4>2. 1 * w = w
        BY <1>1
      <4> QED BY <3>1, <4>1, <4>2 DEF w
    <3>2. CASE j # 1
      <4>1. j - 1 # 0 /\ Ok(j - 1)
        BY <2>5, <3>2
      <4> DEFINE x == made[j - 1]
                 y == (j - 1) * w
      <4>2. made[j] = x \o u /\ x \in Seq(C) /\ Plain(x) /\ StringWidth(x) = y
        BY <2>4, <3>2, <4>1
      <4>3. y + w = j * w
        <5>1. j \in Int
          OBVIOUS
        <5> QED BY <1>1, <5>1
      <4> HIDE DEF x, y
      <4>4. x \o u \in Seq(C)
        BY <4>2, ConcatProperties
      <4>5. Plain(x \o u) /\ StringWidth(x \o u) = y + w
        BY <4>2, PlainConcat DEF w
      <4> QED BY <4>2, <4>3, <4>4, <4>5
    <3> QED BY <3>1, <3>2
  <2>6. n \in S
    <3> HIDE DEF S
    <3>1. 0 \in S
      BY DEF S
    <3>2. \A k \in 0 .. n : k \in S
      BY <2>5, <3>1, EveryPosition
    <3> QED BY <3>2
  <2> QED BY <1>4, <2>3, <2>6 DEF w
<1> QED BY <1>3, <1>4

\* A separator between its borders leaves less than one more of its strings.
LEMMA SeparatorWidth ==
    ASSUME NEW s \in Seq(Bytes), NEW width \in Int,
           left \in Seq(Bytes), right \in Seq(Bytes), Plain(s), Plain(left), Plain(right),
           StringWidth(left) + StringWidth(right) <= width
    PROVE  LET line == Separator(s, width)
           IN  /\ StringWidth(line) <= width
               /\ width - StringWidth(line) < Larger(StringWidth(s), 1)
<1> DEFINE C == Printable
           unit == IF StringWidth(s) < 1 THEN <<" ">> ELSE s
           w == StringWidth(unit)
           l == StringWidth(left)
           r == StringWidth(right)
           rest == width - l - r
           count == IF rest < 0 THEN 0 ELSE rest \div w
           many == Times(unit, count)
<1>1. left \in Seq(C) /\ right \in Seq(C) /\ s \in Seq(C)
  <2>1. Bytes \subseteq Printable
    BY Zenon DEF Printable
  <2> QED BY <2>1, SeqMonotonic
<1>2. <<" ">> = Spaces(1)
  <2>1. Spaces(1) = [k \in 1 .. 1 |-> " "]
    BY Zenon DEF Spaces
  <2> DEFINE b == " "
  <2>2. Spaces(1) = [k \in 1 .. 1 |-> b]
    BY <2>1
  <2> HIDE DEF b
  <2>3. [k \in 1 .. 1 |-> b] = <<b>>
    OBVIOUS
  <2> QED BY <2>2, <2>3 DEF b
<1>3. StringWidth(s) \in Nat /\ l \in Nat /\ r \in Nat
  <2> HIDE DEF C
  <2> QED BY PlainWidth
<1>4. unit \in Seq(C) /\ Plain(unit) /\ w = Larger(StringWidth(s), 1)
  <2>1. CASE StringWidth(s) < 1
    <3>1. unit = Spaces(1)
      BY <1>2, <2>1
    <3>2. Larger(StringWidth(s), 1) = 1
      BY <1>3, <2>1 DEF Larger
    <3> HIDE DEF unit
    <3> QED BY <3>1, <3>2, SpacesAre, PlainSpaces
  <2>2. CASE ~(StringWidth(s) < 1)
    <3>1. unit = s
      BY <2>2
    <3>2. Larger(StringWidth(s), 1) = StringWidth(s)
      BY <1>3, <2>2 DEF Larger
    <3> HIDE DEF unit, C
    <3> QED BY <1>1, <3>1, <3>2
  <2> QED BY <2>1, <2>2
<1>5. Separator(s, width) = left \o many \o right
  BY Zenon DEF Separator
<1> HIDE DEF C, unit, l, r, many
<1>6. w \in Nat \ {0}
  BY <1>3, <1>4 DEF Larger
<1> HIDE DEF w
<1>7. rest \in Nat
  BY <1>3 DEF l, r
<1> HIDE DEF rest
<1>8. count \in Nat /\ count * w <= rest /\ rest - count * w < w
  <2>1. count = rest \div w
    BY <1>7
  <2> HIDE DEF count
  <2>2. count \in Nat /\ w * count <= rest /\ rest < w * count + w
    BY <1>6, <1>7, <2>1
  <2>3. w * count = count * w
    BY <1>6, <2>2
  <2> DEFINE q == count * w
  <2>4. q \in Int
    BY <1>6, <2>2
  <2>5. q <= rest /\ rest < q + w
    BY <2>2, <2>3
  <2> HIDE DEF q
  <2>6. q <= rest /\ rest - q < w
    BY <1>6, <1>7, <2>4, <2>5
  <2> QED BY <2>2, <2>6 DEF q
<1> HIDE DEF count
<1>9. Plain(<<>>) /\ StringWidth(<<>>) = 0
  <2>1. Spaces(0) = <<>>
    BY SpacesAre
  <2>2. Plain(Spaces(0)) /\ StringWidth(Spaces(0)) = 0
    BY PlainSpaces
  <2> QED BY <2>1, <2>2
<1> DEFINE filled == count * w
<1>10. many \in Seq(C) /\ Plain(many) /\ StringWidth(many) = filled
  BY <1>4, <1>8, <1>9, PlainTimes DEF w, many
<1>11. filled \in Int
  BY <1>6, <1>8
<1> HIDE DEF filled
<1>12. left \o many \in Seq(C) /\ Plain(left \o many)
       /\ StringWidth(left \o many) = l + filled
  BY <1>1, <1>10, ConcatProperties, PlainConcat DEF l
<1> DEFINE x == left \o many
<1> HIDE DEF x
<1>13. StringWidth(x \o right) = l + filled + r
  BY <1>1, <1>12, PlainConcat DEF r, x
<1>14. StringWidth(Separator(s, width)) = l + filled + r
  BY <1>5, <1>13 DEF x
<1>15. width = rest + l + r /\ filled <= rest /\ rest - filled < w
  BY <1>3, <1>8 DEF rest, filled, l, r
<1> DEFINE sw == StringWidth(Separator(s, width))
<1>16. sw = l + filled + r
  BY <1>14
<1> HIDE DEF sw
<1>17. sw <= width /\ width - sw < w
  BY <1>3, <1>6, <1>7, <1>11, <1>15, <1>16
<1> QED BY <1>4, <1>17 DEF sw
-----------------------------------------------------------------------------
(* Every line is printed. *)

ManyLines == mode \in {"MultiLineCenter", "MultiLineIndent"}

AllRead == stdin = <<>> \/ Len(lines) >= MaxLines

PrintedLine(line) == left \o Between(line) \o right

\* The lines printed so far, and all of them.
LinesSoFar ==
    /\ out \in Seq(Seq(Printable)) /\ Len(out) <= Len(lines)
    /\ \A k \in 1 .. Len(out) : out[k] = PrintedLine(lines[k])
LinesOut ==
    /\ Len(out) = Len(lines) + (IF newline THEN 1 ELSE 0)
    /\ \A k \in 1 .. Len(lines) : out[k] = PrintedLine(lines[k])

\* The one line of a mode that prints the text.
OneText == mode \in {"Indent", "Center", "Separator"} /\ text # None
TextOut ==
    /\ mode = "Indent" =>
         out[1] = IF indentWidth = 0 THEN text ELSE Indented(text, indentWidth)
    /\ mode = "Center" => out[1] = Centered(text, columns, FALSE)
    /\ mode = "Separator" => out[1] = Separator(text, columns)

OutInv ==
    /\ pc \in {"options", "unescape", "command", "read", "borders"} => out = <<>>
    /\ pc \in {"borders", "print"} => AllRead
    /\ pc = "print" => LinesSoFar
    /\ Printed => jobs = <<>>
    /\ Printed /\ ManyLines => AllRead /\ LinesOut
    /\ Printed /\ OneText => TextOut

IInv == TypeOK /\ InputInv /\ LinesInv /\ OutInv

\* Where nothing is read, nothing changes.
LEMMA SameReading ==
    ASSUME InputInv, LinesInv, UNCHANGED <<input, stdin, lines>>
    PROVE  InputInv' /\ LinesInv'
<1>1. Splits' = Splits /\ AllWhole' = AllWhole
  BY SameInput
<1>2. BytesRead' = BytesRead
  BY DEF BytesRead
<1>3. InputInv'
  BY <1>2 DEF InputInv
<1>4. LinesInv'
  BY <1>1, <1>2 DEF LinesInv
<1> QED BY <1>3, <1>4

\* At the beginning nothing has been read.
LEMMA InitLines == Init => InputInv /\ LinesInv
<1> SUFFICES ASSUME Init  PROVE InputInv /\ LinesInv
  OBVIOUS
<1>1. stdin = input /\ lines = <<>> /\ input \in Seq(Bytes)
  BY PrintUTF8Assumption DEF Init
<1>2. Len(input) \in Nat /\ Len(stdin) = Len(input)
  BY <1>1, LenProperties
<1>3. BytesRead = 0
  BY <1>2 DEF BytesRead
<1>4. InputInv
  <2>1. \A k \in 1 .. Len(stdin) : BytesRead + k = k
    BY <1>2, <1>3
  <2> QED BY <1>1, <1>2, <2>1 DEF InputInv
<1>5. Splits[0] = <<<<>>>>
  BY <1>1, SplitsExist DEF IsSplit, SplitStart
<1>6. Ending(Splits[0]) = <<>> /\ Len(Splits[0]) = 1
  BY <1>5 DEF Ending
<1>7. Splits[0] \in SplitStates(Bytes)
  BY <1>1, <1>2, SplitsExist DEF IsSplit
<1>8. Len(Complete(Splits[0])) = 0
  BY <1>6, <1>7, CompleteLines
<1>9. Len(lines) = 0
  BY <1>1
<1>10. LinesInv
  BY <1>3, <1>6, <1>8, <1>9 DEF LinesInv
<1> QED BY <1>4, <1>10

\* The options print nothing, and end a run well only for the usage and the version.
LEMMA OptionsOut ==
    ASSUME TypeOK, OutInv, Options
    PROVE  OutInv' /\ UNCHANGED <<input, stdin, lines>>
<1>1. pc = "options" /\ UNCHANGED <<input, stdin, lines>> /\ out' = out
      /\ command' = command
  BY DEF Options, SetMode, SetNewline, SetColumns, SetBorders, RefuseOption, ShowHelp,
         TakeString, RefuseString, EndOptions, AtOption, Goto, Exit, Unescape, fixed,
         reading, printed
<1>2. \/ pc' \in {"options", "unescape", "command"}
      \/ pc' = "done" /\ status' = 1
      \/ pc' = "done" /\ option' <= Len(command.options)
  BY <1>1 DEF Options, SetMode, SetNewline, SetColumns, SetBorders, RefuseOption, ShowHelp,
         TakeString, RefuseString, EndOptions, AtOption, Goto, Exit, Unescape, fixed
<1>3. ~Printed'
  <2>1. CASE pc' \in {"options", "unescape", "command"}
    BY <2>1 DEF Printed
  <2>2. CASE pc' = "done" /\ status' = 1
    BY <2>2 DEF Printed
  <2>3. CASE pc' = "done" /\ option' <= Len(command.options)
    <3>1. Len(command.options) \in Nat /\ option' \in Int
      <4>1. option \in Int /\ command \in CommandLines
        BY CommandType DEF TypeOK
      <4>2. option' = option
        BY <1>1, <2>3 DEF Options, SetMode, SetNewline, SetColumns, SetBorders,
              RefuseOption, ShowHelp, TakeString, RefuseString, EndOptions, AtOption,
              Goto, Exit, Unescape
      <4> QED BY <4>1, <4>2, CommandType
    <3>2. ~(option' > Len(command.options))
      BY <2>3, <3>1
    <3> QED BY <1>1, <3>2 DEF Printed
  <2> QED BY <1>2, <2>1, <2>2, <2>3
<1>4. pc' \in {"options", "unescape", "command", "done"}
  BY <1>2
<1> QED BY <1>1, <1>3, <1>4 DEF OutInv

\* unescape() prints nothing, and does not end a run well.
LEMMA UnescapesOut ==
    ASSUME TypeOK, OutInv, Unescapes
    PROVE  OutInv' /\ UNCHANGED <<input, stdin, lines>>
<1>1. pc = "unescape" /\ UNCHANGED <<input, stdin, lines>> /\ out' = out
  BY DEF Unescapes, CopyByte, ControlEscape, NumericEscape, ShortEscape, UnknownEscape,
         RefuseDigit, EndUnescape, AtEscape, Unescaping, Write, Exit, fixed, reading,
         printed
<1>2. \/ pc' \in {"options", "unescape"}
      \/ pc' = "done" /\ status' = 1
  BY <1>1 DEF Unescapes, CopyByte, ControlEscape, NumericEscape, ShortEscape,
         UnknownEscape, RefuseDigit, EndUnescape, Write, Exit
<1>3. ~Printed'
  BY <1>2 DEF Printed
<1>4. pc' \in {"options", "unescape", "done"}
  BY <1>2
<1> QED BY <1>1, <1>3, <1>4 DEF OutInv

\* The other commands have modes of their own.
LEMMA CommandsOut ==
    ASSUME TypeOK, OutInv, Commands
    PROVE  OutInv' /\ UNCHANGED <<input, stdin, lines>>
<1>1. pc = "command" /\ UNCHANGED <<input, stdin, lines, mode>> /\ out = <<>>
  <2>1. pc = "command" /\ UNCHANGED <<input, stdin, lines, mode>>
    BY DEF Commands, PrintNothing, PrintText, PrintNumbers, PrintTerminalInfo, RefuseText,
           StartReading, At, Exit, fixed, reading, settings
  <2> QED BY <2>1 DEF OutInv
<1>2. CASE PrintText
  <2>1. /\ pc' = "done" /\ OneText /\ jobs = <<>> /\ jobs' = jobs
        /\ UNCHANGED <<left, right, text, mode, indentWidth, columns>>
    BY <1>2 DEF PrintText, At, Exit, OneText, strings, settings, TypeOK
  <2>2. ~ManyLines'
    BY <2>1 DEF OneText, ManyLines
  <2>3. ASSUME NEW line, Finish(<<line>>)  PROVE out'[1] = line
    <3>1. CASE newline
      <4>1. out' = Append(<<line>>, <<>>)
        BY <2>3, <3>1 DEF Finish
      <4>2. <<line>> \in Seq({line, <<>>}) /\ Len(<<line>>) = 1 /\ <<line>>[1] = line
        OBVIOUS
      <4>3. 1 \in 1 .. Len(<<line>>)
        BY <4>2
      <4>4. Append(<<line>>, <<>>)[1] = <<line>>[1]
        BY <4>2, <4>3, AppendProperties
      <4> QED BY <4>1, <4>2, <4>4
    <3>2. CASE ~newline
      BY <2>3, <3>2 DEF Finish
    <3> QED BY <3>1, <3>2
  <2>4. \/ /\ mode = "Indent"
           /\ Finish(<<IF indentWidth = 0 THEN text ELSE Indented(text, indentWidth)>>)
        \/ mode = "Center" /\ Finish(<<Centered(text, columns, FALSE)>>)
        \/ mode = "Separator" /\ Finish(<<Separator(text, columns)>>)
    BY <1>2, Zenon DEF PrintText, At
  <2>5. /\ mode = "Indent" =>
             out'[1] = IF indentWidth = 0 THEN text ELSE Indented(text, indentWidth)
        /\ mode = "Center" => out'[1] = Centered(text, columns, FALSE)
        /\ mode = "Separator" => out'[1] = Separator(text, columns)
    <3>1. "Indent" # "Center" /\ "Indent" # "Separator" /\ "Center" # "Separator"
      OBVIOUS
    <3> QED BY <2>3, <2>4, <3>1, Zenon
  <2>6. Separator(text, columns)' = Separator(text, columns)
    BY <2>1 DEF Separator
  <2>7. TextOut'
    BY <2>1, <2>5, <2>6, Zenon DEF TextOut
  <2> QED BY <1>1, <2>1, <2>2, <2>7 DEF OutInv
<1>3. CASE ~PrintText
  <2>1. \/ pc' = "read" /\ out' = out
        \/ pc' = "done" /\ status' = 1
        \/ pc' = "done" /\ ~ManyLines /\ ~OneText /\ jobs' = <<>>
    <3>1. CASE StartReading
      BY <3>1 DEF StartReading, printed
    <3>2. CASE RefuseText
      BY <3>2 DEF RefuseText, Exit
    <3>3. CASE PrintNothing
      BY <3>3 DEF PrintNothing, Exit, ManyLines, OneText, TypeOK
    <3>4. CASE PrintNumbers
      BY <3>4 DEF PrintNumbers, At, Exit, ManyLines, OneText, TypeOK
    <3>5. CASE PrintTerminalInfo
      BY <3>5 DEF PrintTerminalInfo, At, Exit, ManyLines, OneText, TypeOK
    <3> QED BY <1>3, <3>1, <3>2, <3>3, <3>4, <3>5 DEF Commands
  <2>2. UNCHANGED <<mode, text>>
    BY DEF Commands, PrintNothing, PrintText, PrintNumbers, PrintTerminalInfo, RefuseText,
           StartReading, At, Exit, strings, settings
  <2>3. /\ ~(Printed /\ ManyLines)' /\ ~(Printed /\ OneText)'
        /\ Printed' => jobs' = <<>>
    BY <2>1, <2>2 DEF Printed, ManyLines, OneText
  <2>4. pc' \in {"read", "done"} /\ (pc' = "read" => out' = <<>>)
    BY <1>1, <2>1
  <2> QED BY <1>1, <2>3, <2>4 DEF OutInv
<1> QED BY <1>1, <1>2, <1>3

\* One more line is printed.
LEMMA PrintLineOut ==
    ASSUME TypeOK, OutInv, PrintLine
    PROVE  OutInv'
<1> DEFINE printedLine == PrintedLine(NextLine)
           n == Len(out)
<1>1. /\ pc = "print" /\ pc' = "print" /\ n < Len(lines)
      /\ UNCHANGED <<left, right, mode, indentWidth, columns, stdin, lines>>
      /\ out' = Append(out, printedLine)
      /\ AllRead /\ LinesSoFar
  BY DEF PrintLine, PrintedLine, Between, OutInv, strings, settings, reading
<1>2. /\ out \in Seq(Seq(Printable)) /\ n \in Nat
      /\ lines \in Seq(Seq(Bytes)) /\ Len(lines) \in Nat
  BY <1>1, LenProperties DEF LinesSoFar, TypeOK
<1>3. left \in Seq(Bytes) /\ right \in Seq(Bytes)
  <2>1. /\ jobs = <<>>
        /\ mode \in {MultiLineOrSeparator[o] : o \in DOMAIN MultiLineOrSeparator}
    BY <1>1, ModeNames DEF TypeOK
  <2> QED BY <2>1, BordersGiven
<1>4. NextLine = lines[n + 1] /\ NextLine \in Seq(Bytes)
  <2>1. n + 1 \in 1 .. Len(lines)
    BY <1>1, <1>2
  <2> QED BY <1>2, <2>1, ElementOfSeq DEF NextLine
<1>5. printedLine \in Seq(Printable)
  <2>1. columns \in Int /\ indentWidth \in Int
    BY DEF TypeOK
  <2> QED BY <1>3, <1>4, <2>1, BetweenBorders DEF PrintedLine
<1> HIDE DEF printedLine, n
<1>6. /\ out' \in Seq(Seq(Printable)) /\ Len(out') = n + 1
      /\ \A k \in 1 .. n : out'[k] = out[k]
      /\ out'[n + 1] = printedLine
  BY <1>1, <1>2, <1>5, AppendProperties DEF n
<1>7. \A line : PrintedLine(line)' = PrintedLine(line)
  BY <1>1 DEF PrintedLine, Between, Room
<1>8. ASSUME NEW k \in 1 .. n + 1  PROVE out'[k] = PrintedLine(lines[k])
  <2>1. CASE k \in 1 .. n
    BY <1>1, <1>6, <2>1 DEF LinesSoFar, n
  <2>2. CASE k = n + 1
    BY <1>4, <1>6, <2>2 DEF printedLine
  <2> QED BY <1>2, <2>1, <2>2
<1>9. \A k \in 1 .. n + 1 : out'[k] = PrintedLine(lines[k])'
  BY <1>1, <1>7, <1>8
<1>10. n + 1 <= Len(lines)
  BY <1>1, <1>2
<1>11. LinesSoFar' /\ AllRead'
  BY <1>1, <1>6, <1>9, <1>10 DEF LinesSoFar, AllRead
<1>12. ~Printed'
  BY <1>1 DEF Printed
<1> QED BY <1>1, <1>11, <1>12 DEF OutInv

\* All lines have been printed, with a newline at the end or not.
LEMMA EndPrintingOut ==
    ASSUME TypeOK, OutInv, EndPrinting
    PROVE  OutInv'
<1>1. /\ pc = "print" /\ pc' = "done" /\ Len(out) = Len(lines)
      /\ UNCHANGED <<left, right, mode, indentWidth, columns, stdin, lines, newline>>
      /\ out' = IF newline THEN Append(out, <<>>) ELSE out
      /\ AllRead /\ LinesSoFar /\ newline \in BOOLEAN /\ jobs' = <<>>
      /\ mode \in {"MultiLineIndent", "MultiLineCenter"}
  BY DEF EndPrinting, Finish, Exit, OutInv, strings, settings, reading, TypeOK
<1>2. out \in Seq(Seq(Printable)) /\ Len(lines) \in Nat
  BY <1>1, LenProperties DEF LinesSoFar
<1>3. /\ Len(out') = Len(lines) + (IF newline THEN 1 ELSE 0)
      /\ \A k \in 1 .. Len(lines) : out'[k] = out[k]
  <2>1. CASE newline
    <3>1. out' = Append(out, <<>>) /\ <<>> \in Seq(Printable)
      BY <1>1, <2>1, EmptySeq
    <3> QED BY <1>1, <1>2, <2>1, <3>1, AppendProperties
  <2>2. CASE ~newline
    BY <1>1, <1>2, <2>2
  <2> QED BY <2>1, <2>2
<1>4. \A line : PrintedLine(line)' = PrintedLine(line)
  BY <1>1 DEF PrintedLine, Between, Room
<1>5. \A k \in 1 .. Len(lines') : out'[k] = PrintedLine(lines[k])'
  BY <1>1, <1>3, <1>4 DEF LinesSoFar
<1>6. LinesOut' /\ AllRead'
  BY <1>1, <1>3, <1>5 DEF LinesOut, AllRead
<1>7. ~OneText'
  BY <1>1 DEF OneText
<1> QED BY <1>1, <1>6, <1>7 DEF OutInv

\* Reading and printing, one step after the other.
LEMMA MultiLineOut ==
    ASSUME TypeOK, OutInv, MultiLine
    PROVE  OutInv'
<1>1. CASE ReadLine
  <2>1. /\ pc = "read" /\ pc' \in {"read", "borders"} /\ out' = out
        /\ pc' = "borders" => Len(lines') >= MaxLines
    BY <1>1 DEF ReadLine, printed
  <2> QED BY <2>1 DEF OutInv, AllRead, Printed
<1>2. CASE EndOfInput
  BY <1>2 DEF EndOfInput, Goto, OutInv, AllRead, Printed, reading, printed
<1>3. CASE MeasureBorders
  <2>1. /\ pc = "borders" /\ pc' = "print" /\ UNCHANGED <<stdin, lines, out>>
        /\ out = <<>> /\ AllRead
    BY <1>3 DEF MeasureBorders, Goto, OutInv, reading, printed
  <2>2. Len(out') = 0 /\ out' \in Seq(Seq(Printable)) /\ Len(lines') \in Nat
    <3>1. lines \in Seq(Seq(Bytes))
      BY DEF TypeOK
    <3> QED BY <2>1, <3>1, EmptySeq, LenProperties
  <2>3. LinesSoFar'
    BY <2>2 DEF LinesSoFar
  <2> QED BY <2>1, <2>3 DEF OutInv, AllRead, Printed
<1>4. CASE RefuseBorders
  BY <1>4 DEF RefuseBorders, Exit, OutInv, Printed
<1>5. CASE PrintLine
  BY <1>5, PrintLineOut
<1>6. CASE RefuseLine
  BY <1>6 DEF RefuseLine, Exit, OutInv, Printed
<1>7. CASE EndPrinting
  BY <1>7, EndPrintingOut
<1> QED BY <1>1, <1>2, <1>3, <1>4, <1>5, <1>6, <1>7 DEF MultiLine

\* A run that has ended well has its borders.
LEMMA BordersAtTheEnd ==
    ASSUME IInv, Printed, ManyLines \/ mode = "Separator"
    PROVE  left \in Seq(Bytes) /\ right \in Seq(Bytes)
<1>1. jobs = <<>> /\ TypeOK
  BY DEF IInv, OutInv
<1>2. mode \in {MultiLineOrSeparator[o] : o \in DOMAIN MultiLineOrSeparator}
  BY ModeNames DEF ManyLines
<1> QED BY <1>1, <1>2, BordersGiven

\* What has been read and printed is what should have been.
LEMMA KeptAtTheEnd == IInv => LinesKept
<1> SUFFICES ASSUME IInv, Printed, ManyLines, AllWhole
             PROVE  /\ Len(lines) = IF Len(InputLines) > MaxLines THEN MaxLines
                                    ELSE Len(InputLines)
                    /\ Len(out) = Len(lines) + (IF newline THEN 1 ELSE 0)
                    /\ \A k \in DOMAIN lines : Framed(out[k], WithoutCR(InputLines[k]))
  BY DEF LinesKept, ManyLines, AllWhole, Framed
<1>1. /\ AllRead /\ LinesOut
      /\ input \in Seq(Bytes) /\ stdin \in Seq(Bytes) /\ Len(stdin) <= Len(input)
      /\ lines \in Seq(Seq(Bytes)) /\ Len(lines) <= MaxLines
  BY DEF IInv, OutInv, InputInv, TypeOK
<1>2. /\ Len(lines) \in Nat /\ DOMAIN lines = 1 .. Len(lines)
      /\ Len(input) \in Nat /\ Len(stdin) \in Nat /\ MaxLines \in Nat
  BY <1>1, LenProperties, PrintUTF8Assumption
<1> DEFINE p == BytesRead
<1>3. p \in 0 .. Len(input)
  BY <1>1, <1>2 DEF BytesRead
<1>4. /\ stdin # <<>> => Ending(Splits[p]) = <<>>
      /\ Len(lines) = Len(Complete(Splits[p]))
      /\ \A k \in 1 .. Len(lines) : lines[k] = WithoutCR(Complete(Splits[p])[k])
  BY DEF IInv, LinesInv
<1>5. IsSplit(Splits)
  BY <1>1, SplitsExist
<1>6. Splits[p] \in SplitStates(Bytes) /\ Splits[Len(input)] \in SplitStates(Bytes)
  <2>1. Len(input) \in 0 .. Len(input)
    BY <1>2
  <2> QED BY <1>3, <1>5, <2>1 DEF IsSplit
<1>7. InputLines = Complete(Splits[Len(input)])
  BY <1>5, InputLinesSplit DEF IsSplit
<1>8. Len(InputLines) \in Nat
  BY <1>6, <1>7, CompleteLines, LenProperties
<1>9. /\ Len(lines) = IF Len(InputLines) > MaxLines THEN MaxLines ELSE Len(InputLines)
      /\ \A k \in 1 .. Len(lines) : lines[k] = WithoutCR(InputLines[k])
  <2>1. CASE stdin = <<>>
    <3>1. p = Len(input)
      BY <1>2, <2>1 DEF BytesRead
    <3>2. Len(lines) = Len(InputLines)
      BY <1>4, <1>7, <3>1
    <3> QED BY <1>1, <1>2, <1>4, <1>7, <1>8, <3>1, <3>2
  <2>2. CASE stdin # <<>>
    <3> DEFINE m == Len(Splits[p])
    <3>1. /\ m \in Nat \ {0} /\ Len(lines) = m - 1
          /\ \A k \in 1 .. m - 1 : Complete(Splits[p])[k] = Splits[p][k]
      BY <1>4, <1>6, <2>2, CompleteLines
    <3> HIDE DEF p
    <3>2. ASSUME NEW k \in 1 .. m - 1
          PROVE  k \in DOMAIN InputLines /\ InputLines[k] = Splits[p][k]
      <4>1. k \in 1 .. m /\ k < m
        BY <3>1
      <4> QED BY <1>1, <1>3, <4>1, LineOfInput
    <3> HIDE DEF m
    <3>3. Len(lines) = MaxLines
      <4>1. Len(lines) >= MaxLines
        BY <1>1, <2>2, Zenon DEF AllRead
      <4>2. Len(lines) <= MaxLines
        BY <1>1, Zenon
      <4>3. Len(lines) \in Nat /\ MaxLines \in Nat
        BY <1>2, Zenon
      <4> QED BY <4>1, <4>2, <4>3
    <3>4. Len(InputLines) >= MaxLines
      <4>1. MaxLines \in 1 .. m - 1
        BY <3>1, <3>3, PrintUTF8Assumption
      <4>2. MaxLines \in DOMAIN InputLines
        BY <3>2, <4>1
      <4>3. InputLines \in Seq(Seq(Bytes))
        BY <1>6, <1>7, CompleteLines
      <4>4. MaxLines \in 1 .. Len(InputLines)
        BY <4>2, <4>3, LenProperties
      <4> QED BY <1>8, <4>4
    <3>5. \A k \in 1 .. Len(lines) : lines[k] = WithoutCR(InputLines[k])
      BY <1>4, <3>1, <3>2 DEF p
    <3>6. Len(lines) = IF Len(InputLines) > MaxLines THEN MaxLines ELSE Len(InputLines)
      BY <1>2, <1>8, <3>3, <3>4
    <3> QED BY <3>5, <3>6
  <2> QED BY <2>1, <2>2
<1>10. ASSUME NEW k \in DOMAIN lines  PROVE Framed(out[k], WithoutCR(InputLines[k]))
  <2>1. out[k] = PrintedLine(lines[k]) /\ lines[k] = WithoutCR(InputLines[k])
    BY <1>1, <1>2, <1>9 DEF LinesOut
  <2>2. lines[k] \in Seq(Bytes) /\ columns \in Int /\ indentWidth \in Int
    BY <1>1, <1>2, ElementOfSeq DEF IInv, TypeOK
  <2>3. left \in Seq(Bytes) /\ right \in Seq(Bytes)
    BY BordersAtTheEnd
  <2> QED BY <2>1, <2>2, <2>3, BetweenBorders DEF PrintedLine
<1> QED BY <1>1, <1>9, <1>10 DEF LinesOut

\* What is read and printed is what should be, at each step.
LEMMA ReadAndPrinted == Spec => []IInv
<1>1. Init => IInv
  <2>1. Init => OutInv
    BY DEF Init, OutInv, Printed
  <2> QED BY <2>1, InitType, InitLines DEF IInv
<1>2. IInv /\ [Next]_vars => IInv'
  <2> SUFFICES ASSUME IInv, [Next]_vars
               PROVE  InputInv' /\ LinesInv' /\ OutInv' /\ TypeOK'
    BY DEF IInv
  <2> USE DEF IInv
  <2>1. CASE Options
    BY <2>1, OptionsType, OptionsOut, SameReading
  <2>2. CASE Unescapes
    BY <2>2, UnescapesType, UnescapesOut, SameReading
  <2>3. CASE Commands
    BY <2>3, CommandsType, CommandsOut, SameReading
  <2>4. CASE MultiLine
    <3>1. InputInv' /\ LinesInv'
      <4>1. CASE ReadLine
        <5>1. lines \in Seq(Seq(Bytes))
          BY DEF TypeOK
        <5> QED BY <4>1, <5>1, ReadLineInput, ReadLineLines
      <4>2. CASE ~ReadLine
        <5>1. UNCHANGED <<input, stdin, lines>>
          BY <2>4, <4>2 DEF MultiLine, EndOfInput, MeasureBorders, RefuseBorders,
                PrintLine, RefuseLine, EndPrinting, Exit, fixed, reading
        <5> QED BY <5>1, SameReading
      <4> QED BY <4>1, <4>2
    <3> QED BY <2>4, <3>1, MultiLineType, MultiLineOut
  <2>5. CASE UNCHANGED vars
    <3>1. UNCHANGED <<input, stdin, lines, out, pc, mode, option, command, status,
                      newline, left, right, text, jobs, indentWidth, columns>>
      BY <2>5 DEF vars, fixed, settings, strings, reading, printed
    <3>2. InputInv' /\ LinesInv'
      BY <3>1, SameReading
    <3>3. OutInv'
      <4>1. \A line : PrintedLine(line)' = PrintedLine(line)
        BY <3>1 DEF PrintedLine, Between, Room
      <4>2. AllRead' = AllRead /\ LinesSoFar' = LinesSoFar /\ LinesOut' = LinesOut
        BY <3>1, <4>1 DEF AllRead, LinesSoFar, LinesOut
      <4>3. OneText' = OneText /\ TextOut' = TextOut
        BY <3>1 DEF OneText, TextOut, Separator
      <4>4. Printed' = Printed /\ ManyLines' = ManyLines
        BY <3>1 DEF Printed, ManyLines
      <4> QED BY <3>1, <4>2, <4>3, <4>4 DEF OutInv
    <3>4. TypeOK'
      BY <2>5 DEF TypeOK, FitsBuffer, Original, HasBorders, vars, fixed, settings,
                strings, reading, printed
    <3> QED BY <3>2, <3>3, <3>4
  <2> QED BY <2>1, <2>2, <2>3, <2>4, <2>5 DEF Next
<1> QED BY <1>1, <1>2, PTL DEF Spec

(***************************************************************************)
(* Every line of the input is printed, once and in order, between the      *)
(* borders and with nothing but spaces added, whatever the input, the      *)
(* width and the size of the buffer: no line is lost or doubled by         *)
(* fgets(), at the end of the input or of lineArray.                       *)
(***************************************************************************)
THEOREM NoLineLost == Spec => []LinesKept
BY ReadAndPrinted, KeptAtTheEnd, PTL

-----------------------------------------------------------------------------
(* What is printed is aligned. *)

\* A line between borders is as wide as it should be.
LEMMA LineAligned ==
    ASSUME IInv, Printed, ManyLines, NEW k \in DOMAIN lines
    PROVE  AlignedLine(k)
<1> DEFINE line == lines[k]
           between == Between(line)
           l == StringWidth(left)
           r == StringWidth(right)
           content == StringWidth(line)
           inner == StringWidth(between)
<1> SUFFICES ASSUME Plain(left), Plain(line), Plain(right)
             PROVE  LET width == StringWidth(out[k])
                    IN  /\ Plain(out[k])
                        /\ mode = "MultiLineCenter" /\ l + r + content <= columns
                             => width = columns
                        /\ mode = "MultiLineIndent"
                             => width = l + r + Larger(Abs(indentWidth), content)
  BY Zenon DEF AlignedLine
<1>1. /\ left \in Seq(Bytes) /\ right \in Seq(Bytes) /\ line \in Seq(Bytes)
      /\ columns \in Int /\ indentWidth \in Int
  <2>1. lines \in Seq(Seq(Bytes)) /\ columns \in Int /\ indentWidth \in Int
    BY DEF IInv, TypeOK
  <2>2. line \in Seq(Bytes)
    BY <2>1, LenProperties, ElementOfSeq
  <2> QED BY <2>1, <2>2, BordersAtTheEnd
<1>2. /\ left \in Seq(Printable) /\ right \in Seq(Printable) /\ line \in Seq(Printable)
  <2>1. Bytes \subseteq Printable
    BY Zenon DEF Printable
  <2> QED BY <1>1, <2>1, SeqMonotonic
<1>3. out[k] = left \o between \o right
  <2>1. k \in 1 .. Len(lines)
    <3>1. lines \in Seq(Seq(Bytes))
      BY DEF IInv, TypeOK
    <3> QED BY <3>1, LenProperties
  <2>2. LinesOut
    BY DEF IInv, OutInv
  <2> QED BY <2>1, <2>2, Zenon DEF LinesOut, PrintedLine
<1>4. l \in Nat /\ r \in Nat /\ content \in Nat
  BY <1>1, StringWidthType
<1> HIDE DEF line, between, l, r, content, inner
<1>5. Room \in Int /\ Room = columns - l - r
  BY <1>1, <1>4 DEF Room, l, r
<1>6. /\ between \in Seq(Printable) /\ Plain(between) /\ inner \in Int
      /\ mode = "MultiLineCenter" => inner = Larger(Room, content)
      /\ mode = "MultiLineIndent" => inner = Larger(Abs(indentWidth), content)
  <2>1. CASE mode = "MultiLineCenter"
    <3>1. between = Centered(line, Room, TRUE)
      BY <2>1 DEF between, Between
    <3>2. /\ between \in Seq(Printable) /\ Plain(between)
          /\ inner = Larger(Room, content)
      BY <1>2, <1>5, <3>1, CenteredWidth DEF inner, content
    <3>3. inner \in Int
      BY <1>4, <1>5, <3>2 DEF Larger
    <3> QED BY <2>1, <3>2, <3>3
  <2>2. CASE mode # "MultiLineCenter" /\ indentWidth = 0
    <3>1. between = line
      BY <2>2 DEF between, Between
    <3>2. content = Larger(Abs(indentWidth), content)
      BY <1>4, <2>2 DEF Larger, Abs
    <3>3. inner = content
      BY <3>1 DEF inner, content
    <3> QED BY <1>2, <1>4, <2>2, <3>1, <3>2, <3>3
  <2>3. CASE mode # "MultiLineCenter" /\ indentWidth # 0
    <3>1. between = Indented(line, indentWidth)
      BY <2>3 DEF between, Between
    <3>2. /\ between \in Seq(Printable) /\ Plain(between)
          /\ inner = Larger(Abs(indentWidth), content)
      BY <1>1, <1>2, <3>1, IndentedWidth DEF inner, content
    <3>3. inner \in Int
      BY <1>1, <1>4, <3>2 DEF Larger, Abs
    <3> QED BY <2>3, <3>2, <3>3
  <2> QED BY <2>1, <2>2, <2>3
<1>7. left \o between \in Seq(Printable) /\ Plain(left \o between)
      /\ StringWidth(left \o between) = l + inner
  BY <1>2, <1>6, ConcatProperties, PlainConcat DEF l, inner
<1> DEFINE x == left \o between
           width == StringWidth(out[k])
<1> HIDE DEF x
<1>8. Plain(out[k]) /\ width = l + inner + r
  <2>1. Plain(x \o right) /\ StringWidth(x \o right) = StringWidth(x) + StringWidth(right)
    BY <1>2, <1>7, PlainConcat DEF x
  <2>2. out[k] = x \o right
    BY <1>3 DEF x
  <2> QED BY <1>7, <2>1, <2>2, Zenon DEF x, r
<1> HIDE DEF width
<1>9. mode = "MultiLineCenter" /\ l + r + content <= columns => width = columns
  BY <1>1, <1>4, <1>5, <1>6, <1>8 DEF Larger
<1>10. mode = "MultiLineIndent" => width = l + r + Larger(Abs(indentWidth), content)
  <2> SUFFICES ASSUME mode = "MultiLineIndent"
               PROVE  width = l + r + Larger(Abs(indentWidth), content)
    OBVIOUS
  <2> DEFINE wide == Larger(Abs(indentWidth), content)
  <2>1. inner = wide
    BY <1>6
  <2> HIDE DEF wide
  <2>2. width = l + r + wide
    BY <1>4, <1>6, <1>8, <2>1
  <2> QED BY <2>2 DEF wide
<1> QED BY <1>8, <1>9, <1>10 DEF width

\* A text is as wide as it should be.
LEMMA TextAligned ==
    ASSUME IInv, Printed, OneText, Plain(text)
    PROVE  AlignedText
<1> DEFINE line == out[1]
           content == StringWidth(text)
<1>1. TextOut /\ columns \in Int /\ indentWidth \in Int /\ text \in Seq(Bytes)
  BY DEF IInv, OutInv, TypeOK, OneText
<1>2. text \in Seq(Printable)
  <2>1. Bytes \subseteq Printable
    BY Zenon DEF Printable
  <2> QED BY <1>1, <2>1, SeqMonotonic
<1>3. content \in Nat
  BY <1>1, StringWidthType
<1> HIDE DEF content, line
<1>4. ASSUME mode = "Indent"
      PROVE  /\ StringWidth(line) = Larger(Abs(indentWidth), content)
             /\ Justified(line, text)
  <2>1. CASE indentWidth = 0
    <3>1. line = text
      BY <1>1, <1>4, <2>1 DEF TextOut, line
    <3>2. content = Larger(Abs(indentWidth), content)
      BY <1>3, <2>1 DEF Larger, Abs
    <3>3. StringWidth(line) = content
      BY <3>1 DEF content
    <3>4. SubSeq(text, 1, Len(text)) = text
      BY <1>1
    <3>5. Justified(line, text)
      BY <2>1, <3>1, <3>4 DEF Justified
    <3> QED BY <3>2, <3>3, <3>5
  <2>2. CASE indentWidth # 0
    <3>1. line = Indented(text, indentWidth)
      BY <1>1, <1>4, <2>2 DEF TextOut, line
    <3>2. Justified(line, text)
      BY <1>1, <1>2, <3>1, IndentedSide
    <3> QED BY <1>1, <1>2, <3>1, <3>2, IndentedWidth DEF content
  <2> QED BY <2>1, <2>2
<1>5. ASSUME mode = "Center", content <= columns
      PROVE  columns - (StringWidth(line) + (Len(line) - Len(text))) \in {0, 1}
  <2>1. line = Centered(text, columns, FALSE)
    BY <1>1, <1>5 DEF TextOut, line
  <2> QED BY <1>1, <1>2, <1>5, <2>1, CenteredWidth DEF content
<1>6. ASSUME mode = "Separator", Plain(left), Plain(right),
             StringWidth(left) + StringWidth(right) <= columns
      PROVE  /\ StringWidth(line) <= columns
             /\ columns - StringWidth(line) < Larger(content, 1)
  <2>1. line = Separator(text, columns)
    BY <1>1, <1>6 DEF TextOut, line
  <2>2. left \in Seq(Bytes) /\ right \in Seq(Bytes)
    BY <1>6, BordersAtTheEnd
  <2> QED BY <1>1, <1>6, <2>1, <2>2, SeparatorWidth DEF content
<1>7. mode \in {"Indent", "Center", "Separator"}
  BY DEF OneText
<1>8. "Indent" # "Center" /\ "Indent" # "Separator" /\ "Center" # "Separator"
  OBVIOUS
<1> QED BY <1>4, <1>5, <1>6, <1>7, <1>8, Zenon DEF AlignedText, line, content

(***************************************************************************)
(* What is printed ends where it should on the screen, for texts, borders  *)
(* and lines with any escape sequences and wide characters, and for every  *)
(* width: also where indent() has less room than the text takes, where the *)
(* room does not divide by 2, or by the width of the separator.            *)
(***************************************************************************)
THEOREM AllAligned == Spec => []Aligned
<1>1. IInv => Aligned
  <2> SUFFICES ASSUME IInv, Printed
               PROVE  /\ ManyLines => \A k \in DOMAIN lines : AlignedLine(k)
                      /\ OneText => (Plain(text) => AlignedText)
    BY Zenon DEF Aligned, ManyLines, OneText
  <2> QED BY LineAligned, TextAligned
<1> QED BY <1>1, ReadAndPrinted, PTL
=============================================================================
