------------------------------ MODULE PrintUTF8 ------------------------------
(***************************************************************************)
(* print-utf8 (src/Print-UTF8/print-utf8.c): a run of the program from its *)
(* command line to its exit.                                               *)
(*                                                                         *)
(* A string is the sequence of its bytes.  Characters of more than one     *)
(* byte have two: "L" "T" is one of two columns, "K" "T" a combining one   *)
(* of none; "L", "K" or "T" alone are invalid.  "CTRL" stands for the      *)
(* control characters other than "ESC", "LF", "CR" and "NUL".              *)
(***************************************************************************)
EXTENDS Integers, Sequences, SequencesExt

CONSTANTS
    CommandLines,    \* options, each with its arguments, and strings
    Inputs,          \* what may be read from stdin
    Consoles,        \* widths of the terminal, the default one included
    MaxColumns,      \* the greatest width -x takes
    MaxLines,        \* the size of lineArray
    BufferSize,      \* the size of the buffer for a line
    Bytes,
    Letters,         \* bytes that end an ANSI sequence
    HexDigits, OctDigits,
    ByteOf(_),       \* the byte of two hexadecimal or three octal digits
    Wctomb(_),       \* the bytes of a code point; none if it is invalid
    None             \* a null pointer

ASSUME PrintUTF8Assumption ==
    /\ {"NUL", "LF", "CR", "ESC", "CTRL", "\\"} \subseteq Bytes
    /\ CommandLines \subseteq
         [options : Seq([o : STRING, args : Seq(Seq(Bytes)), n : Int]),
          strings : Seq(Seq(Bytes))]
    /\ Inputs \subseteq Seq(Bytes)
    /\ Consoles \subseteq Nat /\ MaxColumns \in Nat
    /\ MaxLines \in Nat \ {0} /\ BufferSize \in Nat /\ BufferSize > 1
    /\ None \notin Seq(Bytes)

\* A code point has no more bytes than its escape sequence.
ASSUME ConversionAssumption ==
    /\ \A d \in [1 .. 2 -> HexDigits] \cup [1 .. 3 -> OctDigits] : ByteOf(d) \in Bytes
    /\ \A d \in [1 .. 4 -> HexDigits] \cup [1 .. 8 -> HexDigits] :
         Wctomb(d) \in Seq(Bytes) /\ Len(Wctomb(d)) <= Len(d) + 2

VARIABLES
    command, console,        \* the command line, and the terminal's width
    pc,
    option,                  \* the next option
    mode, indentWidth, newline,
    columns,                 \* consoleWidth
    left, right, text,       \* BorderLeft, BorderRight, Utf8String
    jobs,                    \* strings to unescape, each with its variable
    i, unescaped,            \* unescape(): the next byte, and what is written
    stdin, lines,            \* what is left to read; lineArray
    input,                   \* history: all that could be read
    out,                     \* the lines printed
    numbers,                 \* size, length, width printed
    status

settings == <<mode, indentWidth, newline, columns>>
strings == <<left, right, text>>
reading == <<stdin, lines>>
printed == <<out, numbers>>
fixed == <<command, console, input>>
vars == <<fixed, pc, option, settings, strings, jobs, i, unescaped, reading,
          printed, status>>

-----------------------------------------------------------------------------
(* Strings *)

\* What a C string holds of a sequence of bytes.
CString(s) ==
    LET ends == {k \in DOMAIN s : s[k] = "NUL"}
    IN  IF ends = {} THEN s ELSE SubSeq(s, 1, CHOOSE k \in 0 .. Len(s) :
                                   k + 1 \in ends /\ \A e \in ends : k < e)

\* The loop over a string that may contain ANSI sequences.
Scan(s) ==
    FoldLeft(LAMBDA state, b :
               IF state.ansi THEN [state EXCEPT !.ansi = b \notin Letters]
               ELSE IF b = "ESC" THEN [state EXCEPT !.ansi = TRUE]
               ELSE [state EXCEPT !.kept = Append(@, b)],
             [ansi |-> FALSE, kept |-> <<>>], s)
WithoutANSI(s) == Scan(s).kept

\* mbstowcs() succeeds.
Decodable(s) ==
    /\ \A k \in DOMAIN s : s[k] \in {"L", "K"} => k < Len(s) /\ s[k + 1] = "T"
    /\ \A k \in DOMAIN s : s[k] = "T" => k > 1 /\ s[k - 1] \in {"L", "K"}
Converts(s) == Decodable(WithoutANSI(s))

Columns(b) == CASE b = "L" -> 2 [] b \in {"K", "T"} -> 0 [] OTHER -> 1
Characters(s) == Len(SelectSeq(s, LAMBDA b : b # "T"))

\* wcswidth(): -1 for a string that cannot be printed.
Wcswidth(s) ==
    IF \E k \in DOMAIN s : s[k] \in {"CTRL", "LF", "CR", "ESC"} THEN -1
    ELSE FoldLeft(LAMBDA n, b : n + Columns(b), 0, s)

\* stringwidth(), of a string that converts.
StringWidth(s) ==
    LET width == Wcswidth(WithoutANSI(s)) IN IF width >= 0 THEN width ELSE 0

\* indent()
Spaces(n) == [k \in 1 .. n |-> " "]

Indented(s, total) ==
    IF total > 0 THEN Spaces(total - StringWidth(s)) \o s
    ELSE s \o Spaces(-total - StringWidth(s))

\* A bug: both sides get the same half.
CenteredHalves(s, width, padding) ==
    LET half == (width - StringWidth(s)) \div 2
    IN  Spaces(half) \o s \o (IF padding THEN Spaces(half) ELSE <<>>)

\* Without the room both sides are negative, and nothing is added.
Centered(s, width, padding) ==
    LET spacing == width - StringWidth(s)
        indentation == IF spacing >= 0 THEN spacing \div 2 ELSE 0
    IN  Spaces(indentation) \o s
        \o (IF padding THEN Spaces(spacing - indentation) ELSE <<>>)

Times(s, n) == FlattenSeq([k \in 1 .. n |-> s])

\* As many times as the loop of separator() writes it, whose condition is that
\* there is room for one more.  The loop itself, and so that it ends, is left out.
Separator(s, width) ==
    LET unit == IF StringWidth(s) < 1 THEN <<" ">> ELSE s
        rest == width - StringWidth(left) - StringWidth(right)
        count == IF rest < 0 THEN 0 ELSE rest \div StringWidth(unit)
    IN  left \o Times(unit, count) \o right

-----------------------------------------------------------------------------

Init ==
    /\ command \in CommandLines /\ console \in Consoles /\ input \in Inputs
    /\ pc = "options" /\ option = 1
    /\ mode = "Indent" /\ indentWidth = 0 /\ newline = FALSE /\ columns = console
    /\ left = None /\ right = None /\ text = None
    /\ jobs = <<>> /\ i = 0 /\ unescaped = <<>>
    /\ stdin = input /\ lines = <<>>
    /\ out = <<>> /\ numbers = <<>> /\ status = 0

Goto(from, to) == pc = from /\ pc' = to

Exit(code) ==
    /\ pc' = "done" /\ status' = code
    /\ UNCHANGED <<fixed, option, settings, strings, jobs, i, unescaped, reading>>

-----------------------------------------------------------------------------
(* The command line *)

\* The option is o, and has as many arguments as it takes, or fewer.
AtOption(o) ==
    /\ pc = "options" /\ option <= Len(command.options)
    /\ command.options[option].o = o
Arguments == command.options[option].args
Number == command.options[option].n

\* Strings are unescaped one after the other.
Unescape(todo) ==
    /\ jobs' = todo /\ i' = 0 /\ unescaped' = <<>>
    /\ pc' = "unescape"

NextOption == option' = option + 1

ModeOf == [i |-> "Indent", c |-> "Center", t |-> "TerminalInfo", w |-> "Width",
           l |-> "Length", b |-> "Size", a |-> "SizeLengthWidth"]

SetMode(o) ==
    /\ AtOption(o) /\ NextOption
    /\ mode' = ModeOf[o]
    /\ indentWidth' = IF o = "i" THEN Number ELSE indentWidth
    /\ UNCHANGED <<fixed, pc, newline, columns, strings, jobs, i, unescaped,
                   reading, printed, status>>

SetNewline ==
    /\ AtOption("n") /\ NextOption
    /\ newline' = TRUE
    /\ UNCHANGED <<fixed, pc, mode, indentWidth, columns, strings, jobs, i,
                   unescaped, reading, printed, status>>

\* Not more than 0 is added to the terminal's width.
Width(n) == IF n <= 0 THEN console + n ELSE n

SetColumns ==
    /\ AtOption("x") /\ NextOption
    /\ Width(Number) <= MaxColumns
    /\ columns' = Width(Number)
    /\ UNCHANGED <<fixed, pc, mode, indentWidth, newline, strings, jobs, i,
                   unescaped, reading, printed, status>>

MultiLineOrSeparator == [I |-> "MultiLineIndent", C |-> "MultiLineCenter",
                         s |-> "Separator"]
Expected(o) == IF o = "s" THEN 3 ELSE 2

\* The borders first, then the string between them.
Strings(o) ==
    <<[to |-> "left", from |-> Arguments[1]],
      [to |-> "right", from |-> Arguments[Expected(o)]]>>
    \o IF o = "s" THEN <<[to |-> "text", from |-> Arguments[2]]>> ELSE <<>>

SetBorders(o) ==
    /\ AtOption(o) /\ NextOption
    /\ Len(Arguments) = Expected(o)
    /\ mode' = MultiLineOrSeparator[o]
    /\ indentWidth' = IF o = "I" THEN Number ELSE indentWidth
    /\ Unescape(Strings(o))
    /\ UNCHANGED <<fixed, newline, columns, strings, reading, printed, status>>

\* An argument is missing, a width too large, an option unknown.
RefuseOption ==
    /\ \/ \E o \in DOMAIN MultiLineOrSeparator :
            AtOption(o) /\ Len(Arguments) < Expected(o)
       \/ AtOption("x") /\ Width(Number) > MaxColumns
       \/ AtOption("?")
    /\ Exit(1) /\ UNCHANGED printed

ShowHelp ==
    /\ AtOption("h") \/ AtOption("v")
    /\ Exit(0) /\ UNCHANGED printed

\* The first string of the command line; all others are only warned about.
TakeString ==
    /\ pc = "options" /\ option = Len(command.options) + 1
    /\ command.strings # <<>> /\ text = None
    /\ NextOption
    /\ Unescape(<<[to |-> "text", from |-> command.strings[1]]>>)
    /\ UNCHANGED <<fixed, settings, strings, reading, printed, status>>

RefuseString ==
    /\ pc = "options" /\ option = Len(command.options) + 1
    /\ command.strings # <<>> /\ text # None
    /\ Exit(1) /\ UNCHANGED printed

EndOptions ==
    /\ Goto("options", "command")
    /\ \/ option = Len(command.options) + 2
       \/ option = Len(command.options) + 1 /\ command.strings = <<>>
    /\ UNCHANGED <<fixed, option, settings, strings, jobs, i, unescaped, reading,
                   printed, status>>

-----------------------------------------------------------------------------
(* unescape() *)

Original == jobs[1].from

\* So many bytes are read, and these are written.
Write(count, bytes) ==
    /\ i' = i + count
    /\ unescaped' = unescaped \o bytes
    /\ UNCHANGED <<fixed, pc, option, settings, strings, jobs, reading, printed,
                   status>>

Unescaping == pc = "unescape" /\ i < Len(Original)
Letter == Original[i + 2]
AtEscape == Unescaping /\ Original[i + 1] = "\\" /\ i + 1 < Len(Original)

\* A byte as it is; the last one also if it is a backslash.
CopyByte ==
    /\ Unescaping
    /\ Original[i + 1] # "\\" \/ i + 1 = Len(Original)
    /\ Write(1, <<Original[i + 1]>>)

ControlLetters == {"n", "r", "\\", "a", "b", "e", "E", "f", "t", "v"}
ControlByte(c) ==
    CASE c = "n" -> "LF" [] c = "r" -> "CR" [] c = "\\" -> "\\"
      [] c \in {"e", "E"} -> "ESC"
      [] c \in {"a", "b", "f", "t", "v"} -> "CTRL"

ControlEscape ==
    /\ AtEscape /\ Letter \in ControlLetters
    /\ Write(2, <<ControlByte(Letter)>>)

DigitsAfter == [c \in {"x", "0", "u", "U"} |->
    CASE c = "x" -> 2 [] c = "0" -> 3 [] c = "u" -> 4 [] c = "U" -> 8]
Digits == SubSeq(Original, i + 3, i + 2 + DigitsAfter[Letter])
AllDigits == i + 2 + DigitsAfter[Letter] <= Len(Original)
ValidDigits ==
    \A k \in DOMAIN Digits : Digits[k] \in IF Letter = "0" THEN OctDigits ELSE HexDigits

NumericEscape ==
    /\ AtEscape /\ Letter \in DOMAIN DigitsAfter
    /\ AllDigits /\ ValidDigits
    /\ Write(2 + DigitsAfter[Letter],
             IF Letter \in {"u", "U"} THEN Wctomb(Digits) ELSE <<ByteOf(Digits)>>)

\* The string ends too early: the escape is left out, its digits are not.
ShortEscape ==
    /\ AtEscape /\ Letter \in DOMAIN DigitsAfter
    /\ ~AllDigits
    /\ Write(2, <<>>)

\* A bug: the letter is read once more.
UnknownEscapeTwice ==
    /\ AtEscape /\ Letter \notin ControlLetters \cup DOMAIN DigitsAfter
    /\ Write(1, <<"\\", Letter>>)

UnknownEscape ==
    /\ AtEscape /\ Letter \notin ControlLetters \cup DOMAIN DigitsAfter
    /\ Write(2, <<"\\", Letter>>)

RefuseDigit ==
    /\ AtEscape /\ Letter \in DOMAIN DigitsAfter
    /\ AllDigits /\ ~ValidDigits
    /\ Exit(1) /\ UNCHANGED printed

\* The string is written to its variable, where it ends at the first NUL.
Store(variable, old) ==
    IF jobs[1].to = variable THEN CString(unescaped) ELSE old

EndUnescape ==
    /\ pc = "unescape" /\ i = Len(Original)
    /\ left' = Store("left", left) /\ right' = Store("right", right)
    /\ text' = Store("text", text)
    /\ jobs' = Tail(jobs) /\ i' = 0 /\ unescaped' = <<>>
    /\ pc' = IF Len(jobs) > 1 THEN "unescape" ELSE "options"
    /\ UNCHANGED <<fixed, option, settings, reading, printed, status>>

-----------------------------------------------------------------------------
(* The commands *)

\* -n adds a newline, behind which another line begins.
Finish(output) == out' = IF newline THEN Append(output, <<>>) ELSE output

At(m) == pc = "command" /\ mode = m

PrintNothing ==
    /\ pc = "command" /\ text = None
    /\ mode \notin {"MultiLineIndent", "MultiLineCenter", "TerminalInfo"}
    /\ Finish(out) /\ Exit(0) /\ UNCHANGED numbers

\* Nothing is measured without an indent.
PrintText ==
    /\ pc = "command" /\ text # None
    /\ \/ /\ At("Indent") /\ (indentWidth = 0 \/ Converts(text))
          /\ Finish(<<IF indentWidth = 0 THEN text ELSE Indented(text, indentWidth)>>)
       \/ /\ At("Center") /\ Converts(text)
          /\ Finish(<<Centered(text, columns, FALSE)>>)
       \/ /\ At("Separator") /\ Converts(text) /\ Converts(left) /\ Converts(right)
          /\ Finish(<<Separator(text, columns)>>)
    /\ Exit(0) /\ UNCHANGED numbers

PrintNumbers ==
    /\ pc = "command" /\ text # None /\ Converts(text)
    /\ LET plain == WithoutANSI(text)
           measures == <<Len(plain), Characters(plain), Wcswidth(plain)>>
       IN  \/ At("Size") /\ numbers' = <<measures[1]>>
           \/ At("Length") /\ numbers' = <<measures[2]>>
           \/ At("Width") /\ numbers' = <<measures[3]>>
           \/ At("SizeLengthWidth") /\ numbers' = measures
    /\ Finish(out) /\ Exit(0)

\* The rows are left out.
PrintTerminalInfo ==
    /\ At("TerminalInfo")
    /\ numbers' = <<console>>
    /\ Finish(out) /\ Exit(0)

\* mbstowcs() fails.  A negative indent comes after the text, which is out.
RefuseText ==
    /\ pc = "command" /\ text # None
    /\ mode \notin {"MultiLineIndent", "MultiLineCenter", "TerminalInfo"}
    /\ \/ ~Converts(text) /\ (mode = "Indent" => indentWidth # 0)
       \/ mode = "Separator" /\ ~(Converts(left) /\ Converts(right))
    /\ out' = IF mode = "Indent" /\ indentWidth < 0 THEN <<text>> ELSE out
    /\ Exit(1) /\ UNCHANGED numbers

-----------------------------------------------------------------------------
(* doMultiLineIndentOrCenter() *)

StartReading ==
    /\ At("MultiLineIndent") \/ At("MultiLineCenter")
    /\ pc' = "read"
    /\ UNCHANGED <<fixed, option, settings, strings, jobs, i, unescaped, reading,
                   printed, status>>

\* The number of bytes fgets() takes.
Taken ==
    LET most == IF Len(stdin) < BufferSize THEN Len(stdin) ELSE BufferSize - 1
        ends == {k \in 1 .. most : stdin[k] = "LF"}
    IN  IF ends = {} THEN most ELSE CHOOSE k \in ends : \A e \in ends : k <= e

\* A line is cut at the first CR, LF or NUL.
Line(bytes) ==
    CString([k \in DOMAIN bytes |-> IF bytes[k] \in {"CR", "LF"} THEN "NUL" ELSE bytes[k]])

\* A bug: the last element of the array is not used.
ReadLineOneLess ==
    /\ pc = "read" /\ stdin # <<>>
    /\ lines' = Append(lines, Line(SubSeq(stdin, 1, Taken)))
    /\ stdin' = SubSeq(stdin, Taken + 1, Len(stdin))
    /\ pc' = IF Len(lines) + 2 >= MaxLines THEN "borders" ELSE "read"
    /\ UNCHANGED <<fixed, option, settings, strings, jobs, i, unescaped,
                   printed, status>>

ReadLine ==
    /\ pc = "read" /\ stdin # <<>>
    /\ lines' = Append(lines, Line(SubSeq(stdin, 1, Taken)))
    /\ stdin' = SubSeq(stdin, Taken + 1, Len(stdin))
    /\ pc' = IF Len(lines') >= MaxLines THEN "borders" ELSE "read"
    /\ UNCHANGED <<fixed, option, settings, strings, jobs, i, unescaped,
                   printed, status>>

EndOfInput ==
    /\ Goto("read", "borders") /\ stdin = <<>>
    /\ UNCHANGED <<fixed, option, settings, strings, jobs, i, unescaped, reading,
                   printed, status>>

MeasureBorders ==
    /\ Goto("borders", "print")
    /\ Converts(left) /\ Converts(right)
    /\ UNCHANGED <<fixed, option, settings, strings, jobs, i, unescaped, reading,
                   printed, status>>

RefuseBorders ==
    /\ pc = "borders"
    /\ ~Converts(left) \/ ~Converts(right)
    /\ Exit(1) /\ UNCHANGED printed

\* What is left of the width between the borders.
Room == columns - StringWidth(left) - StringWidth(right)

NextLine == lines[Len(out) + 1]

PrintLine ==
    /\ pc = "print" /\ Len(out) < Len(lines)
    /\ Converts(NextLine) \/ (mode = "MultiLineIndent" /\ indentWidth = 0)
    /\ out' = Append(out, left
                          \o (IF mode = "MultiLineCenter"
                                THEN Centered(NextLine, Room, TRUE)
                              ELSE IF indentWidth = 0 THEN NextLine
                              ELSE Indented(NextLine, indentWidth))
                          \o right)
    /\ UNCHANGED <<fixed, pc, option, settings, strings, jobs, i, unescaped, reading,
                   numbers, status>>

\* The lines so far, and the left border, are out already.
RefuseLine ==
    /\ pc = "print" /\ Len(out) < Len(lines)
    /\ ~Converts(NextLine) /\ (mode = "MultiLineCenter" \/ indentWidth # 0)
    /\ out' = Append(out, left \o IF mode = "MultiLineIndent" /\ indentWidth < 0
                                    THEN NextLine ELSE <<>>)
    /\ Exit(1) /\ UNCHANGED numbers

EndPrinting ==
    /\ pc = "print" /\ Len(out) = Len(lines)
    /\ Finish(out) /\ Exit(0) /\ UNCHANGED numbers

-----------------------------------------------------------------------------

Options == \/ \E o \in DOMAIN ModeOf : SetMode(o)
           \/ \E o \in DOMAIN MultiLineOrSeparator : SetBorders(o)
           \/ SetNewline \/ SetColumns \/ RefuseOption \/ ShowHelp
           \/ TakeString \/ RefuseString \/ EndOptions
Unescapes == \/ CopyByte \/ ControlEscape \/ NumericEscape \/ ShortEscape
             \/ UnknownEscape \/ RefuseDigit \/ EndUnescape
Commands == \/ PrintNothing \/ PrintText \/ PrintNumbers \/ PrintTerminalInfo
            \/ RefuseText \/ StartReading
MultiLine == \/ ReadLine \/ EndOfInput \/ MeasureBorders \/ RefuseBorders
             \/ PrintLine \/ RefuseLine \/ EndPrinting
Next == Options \/ Unescapes \/ Commands \/ MultiLine

Spec == Init /\ [][Next]_vars

-----------------------------------------------------------------------------
(* What is printed *)

\* unescape() has written no more bytes than it has read, so that what it
\* writes, with the NUL, fits the strlen() + 1 bytes it has allocated.
FitsBuffer == pc = "unescape" => Len(unescaped) <= i /\ i <= Len(Original)

\* The borders of a mode that prints them are there, or about to be unescaped.
HasBorders ==
    mode \in {MultiLineOrSeparator[o] : o \in DOMAIN MultiLineOrSeparator} =>
      /\ left = None => \E k \in DOMAIN jobs : jobs[k].to = "left"
      /\ right = None => \E k \in DOMAIN jobs : jobs[k].to = "right"

Modes == {ModeOf[o] : o \in DOMAIN ModeOf}
         \cup {MultiLineOrSeparator[o] : o \in DOMAIN MultiLineOrSeparator}

(***************************************************************************)
(* Types, and what keeps the program within its memory: unescape() stays   *)
(* in its buffer, no line is stored behind the end of lineArray, and no    *)
(* border is used that has not been given.                                 *)
(***************************************************************************)
TypeOK ==
    /\ command \in CommandLines /\ console \in Consoles
    /\ pc \in {"options", "unescape", "command", "read", "borders", "print", "done"}
    /\ option \in 1 .. Len(command.options) + 2
    /\ mode \in Modes
    /\ indentWidth \in Int /\ columns \in Int /\ newline \in BOOLEAN
    /\ left \in Seq(Bytes) \cup {None} /\ right \in Seq(Bytes) \cup {None}
    /\ text \in Seq(Bytes) \cup {None}
    /\ jobs \in Seq([to : {"left", "right", "text"}, from : Seq(Bytes)])
    /\ pc = "unescape" => jobs # <<>>
    /\ pc \notin {"unescape", "done"} => jobs = <<>>
    /\ i \in Nat /\ unescaped \in Seq(Bytes) /\ FitsBuffer
    /\ stdin \in Seq(Bytes) /\ lines \in Seq(Seq(Bytes))
    /\ Len(lines) <= MaxLines /\ (pc = "read" => Len(lines) < MaxLines)
    /\ pc \in {"options", "unescape", "command"} => lines = <<>>
    /\ HasBorders
    /\ pc \in {"read", "borders", "print"} =>
         mode \in {"MultiLineIndent", "MultiLineCenter"}
    /\ status \in {0, 1}

\* A run has ended well, and not by showing its usage or version.
Printed == pc = "done" /\ status = 0 /\ option > Len(command.options)

\* What a terminal shows without an escape sequence left open, a control
\* character or an invalid byte.
Plain(s) == Converts(s) /\ ~Scan(s).ansi /\ Wcswidth(WithoutANSI(s)) >= 0

Abs(n) == IF n < 0 THEN -n ELSE n
Larger(m, n) == IF m > n THEN m ELSE n

AlignedLine(k) ==
    LET width == StringWidth(out[k])
        borders == StringWidth(left) + StringWidth(right)
        content == StringWidth(lines[k])
    IN  Plain(left) /\ Plain(lines[k]) /\ Plain(right) =>
          /\ Plain(out[k])
          /\ mode = "MultiLineCenter" /\ borders + content <= columns => width = columns
          /\ mode = "MultiLineIndent" => width = borders + Larger(Abs(indentWidth), content)

\* print-utf8.1: "A negative number leads to left-justified text, a positive
\* number leads to right-justified text."
Justified(line, s) ==
    IF indentWidth > 0 THEN SubSeq(line, Len(line) - Len(s) + 1, Len(line)) = s
                       ELSE SubSeq(line, 1, Len(s)) = s

AlignedText ==
    LET width == StringWidth(out[1])
        content == StringWidth(text)
        shift == Len(out[1]) - Len(text)
    IN  CASE mode = "Indent" -> /\ width = Larger(Abs(indentWidth), content)
                                /\ Justified(out[1], text)
          [] mode = "Center" -> content <= columns =>
                                  columns - (width + shift) \in {0, 1}
          [] mode = "Separator" ->
               Plain(left) /\ Plain(right) /\ StringWidth(left) + StringWidth(right) <= columns =>
                 /\ width <= columns
                 /\ columns - width < Larger(content, 1)

(***************************************************************************)
(* What is printed ends where it should on the screen: each line of        *)
(* --multiline-center fills the console from border to border, each one of *)
(* --multiline-indent its width, --indent and --center are as wide, at the *)
(* side, and as far from the middle as told, and a separator leaves less   *)
(* than one more of its strings; with colours, with characters of any      *)
(* width, and for widths that do not divide by 2.                          *)
(***************************************************************************)
Aligned ==
    Printed =>
      /\ mode \in {"MultiLineCenter", "MultiLineIndent"} =>
           \A k \in DOMAIN lines : AlignedLine(k)
      /\ mode \in {"Indent", "Center", "Separator"} /\ text # None =>
           (Plain(text) => AlignedText)

\* The input as lines, without a reader's buffer.
InputLines ==
    LET split == FoldLeft(LAMBDA done, b :
                            IF b = "LF" THEN Append(done, <<>>)
                            ELSE [done EXCEPT ![Len(done)] = Append(@, b)],
                          <<<<>>>>, input)
    IN  IF split[Len(split)] = <<>> THEN SubSeq(split, 1, Len(split) - 1) ELSE split

\* A line that is not cut or broken: no CR but at its end, no NUL, and room for
\* it with its LF and the NUL in the buffer.
Whole(s) ==
    /\ Len(s) <= BufferSize - 2
    /\ \A k \in DOMAIN s : s[k] # "NUL" /\ (s[k] = "CR" => k = Len(s))

WithoutCR(s) == IF s # <<>> /\ s[Len(s)] = "CR" THEN SubSeq(s, 1, Len(s) - 1) ELSE s

(***************************************************************************)
(* Every line read from stdin is printed, once and in order, between the   *)
(* borders and with nothing but spaces added, also the last one without a  *)
(* newline and an empty one; with more than MaxLines lines the first ones. *)
(***************************************************************************)
LinesKept ==
    /\ Printed /\ mode \in {"MultiLineCenter", "MultiLineIndent"}
    /\ \A k \in DOMAIN InputLines : Whole(InputLines[k])
    =>  /\ Len(lines) = IF Len(InputLines) > MaxLines THEN MaxLines ELSE Len(InputLines)
        /\ Len(out) = Len(lines) + (IF newline THEN 1 ELSE 0)
        /\ \A k \in DOMAIN lines :
             \E a, b \in 0 .. Len(out[k]) :
               out[k] = left \o Spaces(a) \o WithoutCR(InputLines[k]) \o Spaces(b) \o right
=============================================================================
