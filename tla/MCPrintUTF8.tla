----------------------------- MODULE MCPrintUTF8 -----------------------------
(***************************************************************************)
(* A small instance of PrintUTF8: two lines of six bytes, terminals of     *)
(* seven and ten columns and of none, strings with colours, wide and       *)
(* combining characters, control characters and invalid bytes.             *)
(***************************************************************************)
EXTENDS PrintUTF8, TLC

MCBytes == {"NUL", "LF", "CR", "ESC", "CTRL", "\\", "L", "K", "T", "[", "]", " ",
            "a", "e", "f", "m", "n", "t", "u", "x", "U", "0", "1"}
MCLetters == {"a", "m", "n", "x", "u", "U", "e", "t", "f"}
MCHexDigits == {"0", "1", "f"}
MCOctDigits == {"0", "1"}

\* \x00, \xf1 and \x1f, \000 and \001 stand for themselves.
MCByteOf(d) ==
    CASE d \in {<<"0", "0">>, <<"0", "0", "0">>} -> "NUL"
      [] d[1] = "f" -> "L"
      [] d = <<"1", "f">> -> "T"
      [] OTHER -> "a"

\* A wide character, an ASCII one, an invalid one.
MCWctomb(d) ==
    CASE d[Len(d)] = "f" -> <<"L", "T">>
      [] d[Len(d)] = "1" -> <<"a">>
      [] OTHER -> <<>>

Opt(o, args, n) == [o |-> o, args |-> args, n |-> n]
Line1(opts, texts) == [options |-> opts, strings |-> texts]
Flag(o) == Opt(o, <<>>, 0)

Escapes == {
    <<"\\", "x", "f", "1", "\\", "x", "1", "f">>,            \* a wide character
    <<"\\", "x", "f", "1">>,                                 \* half of one
    <<"\\", "x", "f">>, <<"\\", "x", "t", "0">>,
    <<"a", "\\", "0", "0", "0", "0", "a">>, <<"\\", "0", "1">>,
    <<"\\", "0", "0", "f", "0">>,
    <<"\\", "u", "0", "0", "0", "f">>, <<"\\", "u", "0", "0", "0", "1", "\\">>,
    <<"\\", "u", "0", "0", "0">>,
    <<"\\", "U", "0", "0", "0", "0", "0", "0", "0", "0">>,
    <<"\\", "U", "0", "0", "0", "0", "0", "0", "0", "f">>,
    <<"\\", "m">>, <<"\\", "\\", "a">>, <<"\\", "t">>, <<"a", "\\", "n", "a">>,
    <<"\\", "e", "[", "1", "m", "a", "\\", "e", "[", "m">>,  \* in colour
    <<"\\", "e", "[", "1">>,                                 \* left open
    <<>>, <<"\\">>, <<"a">>, <<"L", "T">>, <<"K", "T">>, <<"a", "K", "T", "1">>}

Colour == <<"\\", "e", "[", "m", "L", "T">>
Borders == {<<<<>>, <<>>>>, <<<<"[">>, <<"]">>>>, <<Colour, <<"]">>>>,
            <<<<"L">>, <<"]">>>>, <<<<"[">>, <<"\\", "t">>>>}

Texts == {Line1(opts, <<s>>) :
            s \in Escapes,
            opts \in {<<>>, <<Flag("c")>>, <<Opt("i", <<>>, 4)>>, <<Opt("i", <<>>, -4)>>,
                      <<Flag("w")>>, <<Flag("n"), Flag("a")>>}}
Separators == {Line1(<<Opt("s", <<b[1], s, b[2]>>, 0), Flag("n")>>, <<>>) :
                 s \in Escapes, b \in Borders}
MultiLines == {Line1(<<Opt(o, b, n)>> \o flags, <<>>) :
                 o \in {"C", "I"}, b \in Borders, n \in {0, 5, -5},
                 flags \in {<<>>, <<Opt("x", <<>>, -1)>>, <<Flag("n")>>}}

\* Modes one after the other, strings too many, arguments missing, and the rest.
Others == {
    Line1(<<>>, <<>>), Line1(<<Flag("t")>>, <<>>), Line1(<<Flag("h")>>, <<>>),
    Line1(<<Flag("v")>>, <<>>), Line1(<<Flag("?")>>, <<>>),
    Line1(<<Flag("l")>>, <<<<"L", "T">>>>), Line1(<<Flag("b")>>, <<<<"L", "T">>>>),
    Line1(<<Flag("w"), Flag("c")>>, <<<<"a">>, <<"m">>>>),
    Line1(<<Opt("s", <<<<"[">>, <<"a">>, <<"]">>>>, 0)>>, <<<<"m">>>>),
    Line1(<<Opt("s", <<<<"[">>, <<"a">>, <<"]">>>>, 0), Opt("C", <<<<"a">>, <<>>>>, 0)>>, <<>>),
    Line1(<<Opt("I", <<<<"[">>, <<>>>>, 3), Opt("s", <<<<>>, <<"L", "T">>, <<>>>>, 0),
            Flag("w")>>, <<>>),
    Line1(<<Opt("s", <<<<"[">>, <<"a">>>>, 0)>>, <<>>), Line1(<<Opt("C", <<<<"a">>>>, 0)>>, <<>>),
    Line1(<<Opt("I", <<<<"a">>>>, 2)>>, <<>>),
    Line1(<<Opt("C", <<<<"[">>, <<"]">>>>, 0), Flag("h")>>, <<>>),
    Line1(<<Opt("s", <<<<"[">>, <<"a">>, <<"]">>>>, 0), Flag("v")>>, <<>>),
    Line1(<<Opt("x", <<>>, 12), Flag("c")>>, <<<<"a">>>>),
    Line1(<<Opt("x", <<>>, 13), Flag("c")>>, <<<<"a">>>>)}

MCCommandLines == Texts \cup Separators \cup MultiLines \cup Others

\* Lines that are empty, too long, too many, without a newline, or cut.
MCInputs == {
    <<>>, <<"LF">>, <<"a">>, <<"a", "LF">>, <<"a", "CR", "LF", "L", "T", "LF">>,
    <<"LF", "a", "K", "T", "LF">>, <<"a", "LF", "m", "LF", "a", "a", "LF">>,
    <<"a", "a", "a", "L", "LF">>, <<"1", "1", "1", "1", "LF", "a">>,
    <<"1", "1", "1", "1", "L", "T", "LF">>, <<"1", "1", "1", "1", "1", "LF">>,
    <<"a", "CR", "a", "LF">>, <<"a", "NUL", "LF">>, <<"ESC", "[", "m", "1", "LF", "a">>}

MCConsoles == {0, 7, 10}
=============================================================================
