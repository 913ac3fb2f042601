---------------------------- MODULE MCTextBlock ----------------------------
(***************************************************************************)
(* Small inputs and command lines for TLC.  B and E are letters tags are   *)
(* made of, x is any other letter, n is the end of a line.                 *)
(***************************************************************************)
EXTENDS TextBlockManual

MCChars == {"B", "E", "x", "n"}

Words(n) == UNION {[1 .. k -> {"B", "E", "x"}] : k \in 0 .. n}
FullLine(word) == word \o <<"n">>
FullLines(n) == {FullLine(w) : w \in Words(n)}

\* One long line, several short ones, and a last line without end of line.
MCInputs ==
    UNION {[1 .. 1 -> FullLines(4)], [1 .. 2 -> FullLines(2)],
           [1 .. 3 -> FullLines(1)]}
    \cup {<<>>, << <<"B">> >>, << FullLine(<<"x", "B">>), <<"x", "E">> >>}

\* Inputs for the selection of lines: what is in a line does not matter.
MCSelectInputs ==
    {[i \in 1 .. k |-> FullLine(<<"x">>)] : k \in 0 .. 4}
    \cup {<< FullLine(<<>>), <<"x">> >>}

Plain == [mode |-> "highlight", begin |-> NoTag, end |-> NoTag,
          include |-> FALSE, full |-> FALSE, from |-> 0, to |-> 0,
          min |-> -1, max |-> -1, file |-> TRUE, insert |-> TRUE]

\* Distinct tags, a tag without end tag, and tags of which one contains the
\* other one.
MCTags == {<< <<"B">>, <<"E">> >>, << <<"B">>, <<>> >>,
           << <<"B", "B">>, <<"E">> >>, << <<"B">>, <<"E", "B">> >>}

\* A tag without begin tag, and a pair of equal tags.
MCOddTags == {<< <<>>, <<"E">> >>, << <<"E">>, <<"E">> >>}

MCLimits == {<<-1, -1>>, <<1, -1>>, <<-1, 1>>, <<1, 1>>, <<2, 1>>}

WithTags(modes, tags, limits) ==
    {[Plain EXCEPT !.mode = m, !.begin = t[1], !.end = t[2],
                   !.include = i, !.full = f, !.min = l[1], !.max = l[2]] :
        m \in modes, t \in tags, i \in BOOLEAN, f \in BOOLEAN, l \in limits}

WithSelection(modes) ==
    {[Plain EXCEPT !.mode = m, !.from = a, !.to = b, !.file = f, !.min = l] :
        m \in modes, a \in -5 .. 4, b \in -5 .. 5, f \in BOOLEAN,
        l \in {-1, 1}}

MCTagCommandLines ==
    WithTags({"highlight"}, MCTags \cup MCOddTags, {<<-1, -1>>})
    \cup WithTags(Modes, {<< <<"B">>, <<"E">> >>}, {<<-1, -1>>})
    \cup WithTags({"extract"}, {<< <<"B">>, <<"E">> >>}, MCLimits)

MCSelectCommandLines ==
    WithSelection(Modes)
    \cup {[Plain EXCEPT !.mode = "replace", !.insert = FALSE],
          [Plain EXCEPT !.begin = <<"B">>, !.to = 1]}

MCCommandLines == MCTagCommandLines \cup MCSelectCommandLines

MCAllInputs == MCInputs \cup MCSelectInputs

\* Tag command lines meet texts with tags, selections meet plain lines.
MCInit ==
    /\ Init
    /\ IF arg \in MCSelectCommandLines
         THEN input \in MCSelectInputs
         ELSE input \in MCInputs

MCSpec == MCInit /\ [][Next]_vars /\ WF_vars(Next)

=============================================================================
