--------------------------- MODULE MCUnixTimestamp ---------------------------
(***************************************************************************)
(* A small instance of UnixTimestamp: a unit is ten of the next smaller    *)
(* ones, a long long has 14 bits.  As in the programs all numbers that are *)
(* taken for seconds fit it, if auto-detection takes them; timestamps lie  *)
(* at the thresholds and at the ends of the range.                         *)
(***************************************************************************)
EXTENDS UnixTimestamp, TLC

Number(neg, prefix, digits, kind, tail) ==
    [neg |-> neg, prefix |-> prefix, digits |-> digits,
     tail |-> [kind |-> kind, digits |-> tail]]

Whole == {0, 1, 4, 5, 8, 49, 50, 499, 500, 4999, 8191, 8192, 8193, 20000}
Fractions == {<<0>>, <<5>>, <<9>>, <<0, 2>>, <<9, 9>>, <<5, 0, 7>>, <<0, 0, 1>>, <<9, 9, 9>>,
              <<0, 0, 0, 9>>, <<9, 9, 9, 9>>}
Decimals == {Number(neg, FALSE, Printed(i, 10), "end", <<>>) :
               neg \in BOOLEAN, i \in Whole}
MCNumbers ==
    Decimals \cup
    {Number(neg, FALSE, Printed(i, 10), "point", f) :
       neg \in BOOLEAN, i \in {0, 1, 5, 50, 500, 4999}, f \in Fractions}
    \cup {Number(neg, TRUE, Printed(i, 16), "end", <<>>) :
            neg \in BOOLEAN, i \in {10, 500, 8191}}
    \cup {Number(TRUE, FALSE, <<0, 1, 7>>, "end", <<>>),
          Number(TRUE, FALSE, <<0, 1, 0>>, "point", <<5>>),
          Number(FALSE, TRUE, <<1, 0>>, "point", <<5>>),
          Number(FALSE, FALSE, <<0, 9>>, "end", <<>>),
          Number(FALSE, FALSE, <<0, 8>>, "point", <<5>>),
          Number(FALSE, FALSE, <<1>>, "point", <<9, 9, 9, 9, 9, 9>>),
          Number(FALSE, FALSE, <<5>>, "number", <<7>>),
          Number(FALSE, FALSE, <<5>>, "point", <<>>),
          Number(FALSE, FALSE, <<5>>, "junk", <<>>),
          Number(FALSE, FALSE, <<1, 15>>, "end", <<>>)}

\* One after the other: other units, with and without a fraction.
MCPairs ==
    LET some == {Number(FALSE, FALSE, Printed(5000, 10), "end", <<>>),
                 Number(TRUE, FALSE, <<5, 0>>, "point", <<0, 2>>),
                 Number(FALSE, FALSE, <<1>>, "point", <<5>>),
                 Number(TRUE, FALSE, <<3>>, "end", <<>>)}
    IN  {<<a, b>> : a, b \in some}
MCTimestamps == {<<>>} \cup {<<n>> : n \in MCNumbers} \cup MCPairs

\* Seconds beyond a minute and below 0, leap seconds, fractions that round up
\* to the next second, and texts of other templates.
M(m) == [is |-> "M", value |-> m]
S(s) == [is |-> "S", value |-> s]
F(digits) == [is |-> "F", value |-> digits]

MCTexts ==
    {<<M(m), Literal(":"), S(s)>> \o f :
       m \in {-2, -1, 0, 1}, s \in {-1, 0, 2, 3, 4},
       f \in {<<>>, <<F(<<5>>)>>, <<F(<<0, 0, 1>>)>>, <<F(<<9, 9, 9, 5>>)>>,
              <<F(<<9, 9, 9, 9>>)>>}}
    \cup {<<S(2), F(<<5>>), Literal("/"), M(-1)>>,
          <<M(0), S(2)>>, <<M(0), S(2), F(<<5>>)>>,
          <<M(0), Literal("%"), Literal("S"), S(2), F(<<5>>), Literal("Z")>>,
          <<M(0), Literal(":"), S(2), Literal("."), Literal("0")>>}
MCTimes ==
    {<<>>} \cup {<<t>> : t \in MCTexts}
    \cup {<<<<M(-1), Literal(":"), S(2), F(<<9, 9, 9, 9>>)>>,
            <<M(1), Literal(":"), S(1)>>>>}

\* The default; a literal %S, and text behind the seconds; seconds first; %T;
\* a point behind the seconds.
MCTemplates ==
    {<<"%", "M", ":", "%", "S">>,
     <<"%", "M", "%", "%", "S", "%", "S", "Z">>,
     <<"%", "S", "/", "%", "M">>,
     <<"%", "T">>,
     <<"%", "M", ":", "%", "S", ".", "0">>}

MCOptions ==
    [unit : Units \cup {"auto"}, template : MCTemplates, human : {FALSE}, base : {"dec"}]
    \cup [unit : {"auto", "ms"}, template : MCTemplates, human : {TRUE}, base : {"dec"}]
    \cup [unit : Units, template : {<<"%", "M", ":", "%", "S">>}, human : {FALSE},
          base : {"hex", "0x", "float"}]

\* No _BitInt; _BitInt without C23, which only unixts2time uses; and C23.
MCBuilds ==
    {[unixts2time |-> wide > 0, time2unixts |-> wide > 1] : wide \in 0 .. 2}
MCClocks == {2996}
=============================================================================
