---------------------------- MODULE UnixTimestamp ----------------------------
(***************************************************************************)
(* unixts2time and time2unixts (src/Unix-Timestamp): runs of the two       *)
(* programs, each from its arguments to its exit, and the output of the    *)
(* one as the arguments of the other.                                      *)
(*                                                                         *)
(* One digit of a fraction stands for a group of three: an interval of     *)
(* 1000 is Step, a second Step^3 ns.  A number is a record of its sign,    *)
(* its prefix 0x, its digits (15 is f) and its tail: a fraction, or what   *)
(* else follows them.  What strtod() reads besides (an exponent, inf, nan, *)
(* a negative number behind the first one), the prefix 0b of C23, and an   *)
(* argument without digits, which is refused unless it is empty, are left  *)
(* out.  A text of a time is a sequence of fields: "M" (all down to the    *)
(* minute), "S" (the seconds) and "F" (their fraction, a sequence of       *)
(* digits) with a value, and literal characters; a template is the         *)
(* sequence of its characters.                                             *)
(***************************************************************************)
EXTENDS Integers, Sequences

CONSTANTS
    Step,           \* from one unit to the next
    Minute,         \* seconds in a minute
    Limit,          \* 2^63: a long long lies between -Limit and Limit - 1
    UnsignedLimit,  \* 2^32
    AutoLimit,      \* the 5 of the thresholds of the auto-detection
    DoubleDigits,   \* the digits of a fraction that a double holds
    LastSecond,     \* the greatest seconds gmtime() converts
    Timestamps,     \* argument lists of unixts2time
    Times,          \* argument lists of time2unixts
    Clocks,         \* what clock_gettime() may return, in ns
    Builds,         \* for each program: is _BitInt(128) used?
    Options         \* the options of a run

Digits == 0 .. Step - 1

Tails == [kind : {"end", "junk"}, digits : {<<>>}]
         \cup [kind : {"point"}, digits : Seq(Digits)]
         \cup [kind : {"number"}, digits : Seq(Digits) \ {<<>>}]
Numbers == [neg : BOOLEAN, prefix : BOOLEAN, digits : Seq(0 .. 15) \ {<<>>},
            tail : Tails]

TimeFields ==
    [is : {"M", "S"}, value : Int] \cup [is : {"F"}, value : Seq(Digits)]
    \cup [is : {"literal"}, value : STRING]

ASSUME UnixTimestampAssumption ==
    /\ Step \in Nat /\ Step > 2 /\ Minute \in Nat \ {0} /\ Limit \in Nat \ {0}
    /\ UnsignedLimit \in Nat /\ UnsignedLimit > Step * Step * Step
    /\ AutoLimit \in Nat \ {0} /\ LastSecond \in Nat /\ DoubleDigits \in Nat
    /\ Clocks \subseteq Nat
    /\ Builds \subseteq [unixts2time : BOOLEAN, time2unixts : BOOLEAN]
    /\ Timestamps \subseteq Seq(Numbers) /\ Times \subseteq Seq(Seq(TimeFields))
    /\ Options \subseteq [unit : {"ns", "us", "ms", "s", "auto"}, template : Seq(STRING),
                          human : BOOLEAN, base : {"dec", "hex", "0x", "float"}]

VARIABLES
    build, clock, opts,
    program,         \* the program that runs
    pc,              \* what it does
    args, arg,       \* its arguments; optind, the next one
    unit,            \* unit, and with it divideBy
    fractionDigits,  \* inputFractionalDigits
    unixTS, ts,      \* the timestamp in ns, and as a timespec
    out,             \* the lines printed
    status,          \* the exit status
    first            \* history: the run whose output are the arguments

configuration == <<build, clock, opts, program, args, first>>
vars == <<configuration, pc, arg, unit, fractionDigits, unixTS, ts, out, status>>

-----------------------------------------------------------------------------
(* Arithmetic *)

Units == {"ns", "us", "ms", "s"}
Factor == [ns |-> 1, us |-> Step, ms |-> Step * Step, s |-> Step * Step * Step]
Second == Factor.s

\* gmtime() converts each time that a long long holds in ns.
ASSUME LastSecondAssumption == LastSecond * Second >= Limit

\* Division and remainder in C round to zero.
Quotient(a, b) == IF a >= 0 THEN a \div b ELSE -((-a) \div b)
Remainder(a, b) == a - b * Quotient(a, b)

\* A signed overflow wraps around in a long long; 128 bits are enough.
Fits(x) == -Limit <= x /\ x < Limit
Stored(x, wide) == IF wide THEN x ELSE ((x + Limit) % (2 * Limit)) - Limit

\* 1, Step, Step^2, ...
Scale(n) ==
    LET power[k \in 0 .. n] == IF k = 0 THEN 1 ELSE Step * power[k - 1]
    IN  power[n]

ValueOf(digits, base) ==
    LET upTo[k \in 0 .. Len(digits)] ==
            IF k = 0 THEN 0 ELSE upTo[k - 1] * base + digits[k]
    IN  upTo[Len(digits)]
Signed(neg, n) == IF neg THEN -n ELSE n

\* A bug: a negative value is negated first.
PrintedNegated(value, base) ==
    LET positive == IF value < 0 THEN Stored(-value, FALSE) ELSE value
        digits[n \in Int] ==
            (IF Quotient(n, base) > 0 THEN digits[Quotient(n, base)] ELSE <<>>)
            \o <<Remainder(n, base)>>
    IN  digits[positive]

\* The digits of printBigInteger(): each remainder loses its sign, so that
\* the least value needs no counterpart.
Printed(value, base) ==
    LET size == IF value < 0 THEN -value ELSE value
        digits[n \in -size .. size] ==
            LET digit == Remainder(n, base)
            IN  (IF Quotient(n, base) # 0 THEN digits[Quotient(n, base)]
                                          ELSE <<>>)
                \o <<IF digit < 0 THEN -digit ELSE digit>>
    IN  digits[value]

\* printf() of n as at least (%0*u), or just, width digits.
Padded(n, width) ==
    LET digits == Printed(n, Step)
    IN  [k \in 1 .. width - Len(digits) |-> 0] \o digits

-----------------------------------------------------------------------------
(* Templates *)

\* The first %S of a template; 0 is a null pointer.
SecondsPlaceholder(template) ==
    LET at[i \in 1 .. Len(template) + 1] ==
            IF i > Len(template) THEN 0
            ELSE IF template[i] # "%" \/ i = Len(template) THEN at[i + 1]
            ELSE IF template[i + 1] = "S" THEN i
            ELSE at[i + 2]
    IN  at[1]

FrontOf(template) ==
    LET place == SecondsPlaceholder(template)
    IN  IF place = 0 THEN template ELSE SubSeq(template, 1, place - 1)
BackOf(template) ==
    LET place == SecondsPlaceholder(template)
    IN  IF place = 0 THEN <<>> ELSE SubSeq(template, place + 2, Len(template))

Literal(char) == [is |-> "literal", value |-> char]
Conversion(char) == [is |-> char, value |-> 0]

\* The fields a template stands for: %T is all but the fraction.
Fields(template) ==
    LET from[i \in 1 .. Len(template) + 1] ==
            IF i > Len(template) THEN <<>>
            ELSE IF template[i] # "%" \/ i = Len(template)
              THEN <<Literal(template[i])>> \o from[i + 1]
            ELSE (CASE template[i + 1] = "T" -> <<Conversion("M"), Conversion("S")>>
                    [] template[i + 1] \in {"M", "S"} -> <<Conversion(template[i + 1])>>
                    [] OTHER -> <<Literal(template[i + 1])>>)
                 \o from[i + 2]
    IN  from[1]

\* gmtime() and strftime().
Strftime(template, seconds) ==
    [k \in DOMAIN Fields(template) |->
        LET field == Fields(template)[k]
        IN  CASE field.is = "M" -> [is |-> "M", value |-> seconds \div Minute]
              [] field.is = "S" -> [is |-> "S", value |-> seconds % Minute]
              [] OTHER -> field]

\* Does strptime() with a template take what follows the first fields?
Strptime(text, skip, template) ==
    /\ Len(text) >= skip + Len(Fields(template))
    /\ \A k \in DOMAIN Fields(template) :
         /\ text[skip + k].is = Fields(template)[k].is
         /\ text[skip + k].is = "S" => text[skip + k].value \in 0 .. Minute
         /\ text[skip + k].is = "literal" => text[skip + k] = Fields(template)[k]

\* The value of a field of a text; 0 if it has none.
Field(text, kind) ==
    IF \E k \in DOMAIN text : text[k].is = kind
      THEN text[CHOOSE k \in DOMAIN text : text[k].is = kind].value
      ELSE 0
Fraction(text) ==
    IF \E k \in DOMAIN text : text[k].is = "F" THEN Field(text, "F") ELSE <<>>

-----------------------------------------------------------------------------
(* Both programs *)

Init ==
    /\ build \in Builds /\ clock \in Clocks /\ opts \in Options
    /\ \/ program = "unixts2time" /\ args \in Timestamps
       \/ program = "time2unixts" /\ args \in Times
    /\ pc = "argument" /\ arg = 1
    /\ unit = "ns" /\ fractionDigits = 0
    /\ unixTS = 0 /\ ts = [sec |-> 0, nsec |-> 0]
    /\ out = <<>> /\ status = 0
    /\ first = <<>>

Goto(from, to) == pc = from /\ pc' = to

\* An argument is left, or there has never been one.
AtArgument(name) == program = name /\ pc = "argument"

PrintLine(line) ==
    /\ out' = Append(out, line)
    /\ arg' = arg + 1
    /\ Goto("print", IF arg < Len(args) THEN "argument" ELSE "done")

Fail ==
    /\ pc' = "done" /\ status' = 1
    /\ UNCHANGED <<arg, unit, fractionDigits, unixTS, ts, out>>

-----------------------------------------------------------------------------
(* unixts2time *)

\* What strtoll() takes with base 0.
Base(n) == IF n.prefix THEN 16
           ELSE IF Len(n.digits) > 1 /\ n.digits[1] = 0 THEN 8 ELSE 10
IntegerDigits(n) ==
    LET Taken(k) == \A i \in 1 .. k : n.digits[i] < Base(n)
    IN  SubSeq(n.digits, 1,
               CHOOSE k \in 0 .. Len(n.digits) :
                 Taken(k) /\ \A j \in k + 1 .. Len(n.digits) : ~Taken(j))

\* What is left for strtod(): nothing; a point and digits; something it reads
\* as a number all the same, as 8.5 of 08.5, which is not octal; or something
\* it does not read.  The value is without the point: the last of its places
\* are behind it.
Rest(n) ==
    LET left == SubSeq(n.digits, Len(IntegerDigits(n)) + 1, Len(n.digits))
        fraction == ValueOf(n.tail.digits, Step)
        places == IF n.tail.kind = "number" THEN 0 ELSE Len(n.tail.digits)
    IN  IF left = <<>> /\ n.tail # [kind |-> "point", digits |-> <<>>]
          THEN [kind |-> n.tail.kind, value |-> fraction, places |-> places]
        ELSE IF /\ left # <<>> /\ n.tail.kind \in {"end", "point"}
                /\ \A i \in DOMAIN left : left[i] < 10
          THEN [kind |-> "number", places |-> places,
                value |-> ValueOf(left, 10) * Scale(places) + fraction]
        ELSE [kind |-> "junk", value |-> 0, places |-> 0]

\* strtoll() returns the nearest value it has, without a check of errno.
Strtoll(n) ==
    LET x == Signed(n.neg, ValueOf(IntegerDigits(n), Base(n)))
    IN  IF Fits(x) THEN x ELSE IF n.neg THEN -Limit ELSE Limit - 1

DetectedUnit(x) ==
    LET Below(limit) == -limit < x /\ x < limit
    IN  CASE Below(AutoLimit) -> "s"
          [] ~Below(AutoLimit) /\ Below(Step * AutoLimit) -> "ms"
          [] ~Below(Step * AutoLimit) /\ Below(Step * Step * AutoLimit) -> "us"
          [] OTHER -> "ns"

\* A bug: divideBy is detected once, and kept for all arguments.
ReadIntegerUnitKept ==
    /\ AtArgument("unixts2time") /\ args # <<>>
    /\ LET x == Strtoll(args[arg])
       IN  /\ unit' = IF opts.unit # "auto" THEN opts.unit
                      ELSE IF arg > 1 THEN unit ELSE DetectedUnit(x)
           /\ unixTS' = Stored(x * Factor[unit'], build.unixts2time)
    /\ fractionDigits' = 0
    /\ pc' = "rest"
    /\ UNCHANGED <<configuration, arg, ts, out, status>>

ReadInteger ==
    /\ AtArgument("unixts2time") /\ args # <<>>
    /\ LET x == Strtoll(args[arg])
       IN  /\ unit' = IF opts.unit = "auto" THEN DetectedUnit(x) ELSE opts.unit
           /\ unixTS' = Stored(x * Factor[unit'], build.unixts2time)
    /\ fractionDigits' = 0
    /\ pc' = "rest"
    /\ UNCHANGED <<configuration, arg, ts, out, status>>

TakeCurrentTime ==
    /\ AtArgument("unixts2time") /\ args = <<>>
    /\ unixTS' = Stored(clock, build.unixts2time)
    /\ unit' = IF opts.unit = "auto" THEN "ns" ELSE opts.unit
    /\ pc' = "convert"
    /\ UNCHANGED <<configuration, arg, fractionDigits, ts, out, status>>

\* additionalNS.  In double precision the product of a fraction of more than
\* three digits and ms or s may be a bit too small where it should be an
\* integer, as any may be with an integer part; with more digits than a double
\* holds it may also be too large.  What an unsigned int cannot hold is
\* undefined: the machines wrap around or take the greatest value.
AdditionalNS(rest) ==
    LET product == rest.value * Factor[unit]
        exact == product \div Scale(rest.places)
        long == rest.value >= Scale(DoubleDigits)
        below == /\ product % Scale(rest.places) = 0
                 /\ \/ rest.kind = "point" /\ unit \in {"ms", "s"} /\ rest.places > 1
                    \/ rest.kind = "number" /\ unit # "ns" /\ rest.places > 0
        read == {exact} \cup
                (IF exact > 0 /\ (below \/ long) THEN {exact - 1} ELSE {}) \cup
                (IF long THEN {exact + 1} ELSE {})
    IN  {ns \in read : ns < UnsignedLimit} \cup
        UNION {{ns % UnsignedLimit, UnsignedLimit - 1} :
                 ns \in {x \in read : x >= UnsignedLimit}}

ReadRest ==
    /\ program = "unixts2time" /\ Goto("rest", "convert")
    /\ LET rest == Rest(args[arg])
       IN  \/ rest.kind = "end" /\ UNCHANGED <<fractionDigits, unixTS>>
           \/ /\ rest.kind \in {"point", "number"}
              /\ fractionDigits' = IF rest.kind = "point" THEN rest.places ELSE 0
              /\ \E ns \in AdditionalNS(rest) :
                   unixTS' = Stored(IF unixTS >= 0 THEN unixTS + ns ELSE unixTS - ns,
                                    build.unixts2time)
    /\ UNCHANGED <<configuration, arg, unit, ts, out, status>>

RefuseTimestamp ==
    /\ program = "unixts2time" /\ pc = "rest"
    /\ Rest(args[arg]).kind = "junk"
    /\ Fail
    /\ UNCHANGED configuration

\* A bug: a negative remainder is left.
TimespecTruncated(x) ==
    [sec |-> Quotient(x, Second), nsec |-> Remainder(x, Second)]

Timespec(x) ==
    LET sec == Quotient(x, Second)
        nsec == Remainder(x, Second)
    IN  IF nsec < 0 THEN [sec |-> sec - 1, nsec |-> Second + nsec]
                    ELSE [sec |-> sec, nsec |-> nsec]

ConvertToTime ==
    /\ program = "unixts2time" /\ pc = "convert"
    /\ ts' = Timespec(unixTS)
    /\ IF ts'.sec \in -LastSecond .. LastSecond
         THEN pc' = "print" /\ UNCHANGED status
         ELSE pc' = "done" /\ status' = 1
    /\ UNCHANGED <<configuration, arg, unit, fractionDigits, unixTS, out>>

Precision ==
    LET digits == fractionDigits
                  + (CASE unit = "ns" -> 3 [] unit = "us" -> 2
                       [] unit = "ms" -> 1 [] unit = "s" -> 0)
    IN  IF digits > 3 THEN 3 ELSE digits

\* fractionalSecondsString[1] and what follows: the digit before the point is
\* left out, whether it is 0 or 1.  Half a last digit may go up or down.
FractionalSeconds ==
    LET scale == Scale(3 - Precision)
        half == 2 * (ts.nsec % scale) - scale
        rounded == (IF half <= 0 THEN {ts.nsec \div scale} ELSE {}) \cup
                   (IF half >= 0 THEN {ts.nsec \div scale + 1} ELSE {})
    IN  IF Precision = 0 THEN {<<>>}
        ELSE {<<[is |-> "F", value |-> Padded(n % Scale(Precision), Precision)]>> : n \in rounded}

\* The front and, if there is one, the back of the template must not be empty
\* for strftime(), which returns the number of characters.
PrintTime ==
    LET front == FrontOf(opts.template)
        back == BackOf(opts.template)
    IN  /\ program = "unixts2time" /\ front # <<>>
        /\ \E middle \in
              IF SecondsPlaceholder(opts.template) = 0 THEN {<<>>}
              ELSE {<<[is |-> "S", value |-> ts.sec % Minute]>> \o f : f \in FractionalSeconds} :
             PrintLine([text |-> Strftime(front, ts.sec) \o middle
                                 \o Strftime(back, ts.sec),
                        number |-> IF ~opts.human THEN <<>>
                                   ELSE <<Stored(Quotient(unixTS, Factor[unit]), FALSE)>>,
                        unit |-> unit])
        /\ UNCHANGED <<configuration, unit, fractionDigits, unixTS, ts, status>>

RefuseTemplate ==
    /\ program = "unixts2time" /\ pc = "print"
    /\ FrontOf(opts.template) = <<>>
    /\ Fail
    /\ UNCHANGED configuration

-----------------------------------------------------------------------------
(* time2unixts *)

\* The fields of a text that are the fraction of its seconds, if it has one.
HasFraction(text, at) == at <= Len(text) /\ text[at].is = "F"

\* Does strtod() take what begins with this field for more of its number?
Numeric(field) ==
    field.is # "literal" \/ field.value \in {"0", "1", "2", "3", "4", "5", "6", "7", "8", "9"}

\* Does strtod() read on at this field: at a digit; at a point, if it has seen
\* none; or at an exponent?  The rest is then not what the template expects.
ReadsOn(text, at) ==
    LET Is(k, chars) == text[k].is = "literal" /\ text[k].value \in chars
        NumericAt(k) == k <= Len(text) /\ Numeric(text[k])
    IN  /\ at <= Len(text)
        /\ \/ Numeric(text[at])
           \/ text[at - 1].is = "S" /\ Is(at, {"."})
           \/ /\ Is(at, {"e", "E"})
              /\ \/ NumericAt(at + 1)
                 \/ at < Len(text) /\ Is(at + 1, {"+", "-"}) /\ NumericAt(at + 2)

ParsedWithFraction(text) ==
    LET front == Len(Fields(FrontOf(opts.template)))
        used == front + (IF HasFraction(text, front + 2) THEN 2 ELSE 1)
    IN  /\ Strptime(text, 0, FrontOf(opts.template))
        /\ Len(text) > front /\ text[front + 1].is = "S" /\ text[front + 1].value >= 0
        /\ ~ReadsOn(text, used + 1)
        /\ Strptime(text, used, BackOf(opts.template))
        /\ Len(text) = used + Len(Fields(BackOf(opts.template)))

Parsed(text) ==
    IF SecondsPlaceholder(opts.template) # 0 THEN ParsedWithFraction(text)
    ELSE /\ Strptime(text, 0, opts.template)
         /\ Len(text) = Len(Fields(opts.template))

\* strtod() and the rounding; a tie may fall to either side.
Nanoseconds(digits) ==
    LET scale == Scale(Len(digits))
        twice == 2 * ValueOf(digits, Step) * Second
    IN  {n \in {(twice + scale) \div (2 * scale), twice \div (2 * scale)} :
           2 * n * scale - twice \in -scale .. scale}

ParseTime ==
    /\ AtArgument("time2unixts") /\ args # <<>>
    /\ Parsed(args[arg])
    /\ \E ns \in Nanoseconds(Fraction(args[arg])) :
         LET sec == Minute * Field(args[arg], "M") + Field(args[arg], "S")
         IN  ts' = IF ns >= Second THEN [sec |-> sec + 1, nsec |-> ns - Second]
                                   ELSE [sec |-> sec, nsec |-> ns]
    /\ pc' = "print"
    /\ UNCHANGED <<configuration, arg, unit, fractionDigits, unixTS, out, status>>

ReadClock ==
    /\ AtArgument("time2unixts") /\ args = <<>>
    /\ ts' = [sec |-> clock \div Second, nsec |-> clock % Second]
    /\ pc' = "print"
    /\ UNCHANGED <<configuration, arg, unit, fractionDigits, unixTS, out, status>>

RefuseTime ==
    /\ AtArgument("time2unixts") /\ args # <<>>
    /\ ~Parsed(args[arg])
    /\ Fail
    /\ UNCHANGED configuration

\* fractionalUnixTS: the remainder, as an unsigned int, which has no negative
\* values: the conversion is undefined, and wraps around or yields 0.
FractionalUnixTS(rest) == IF rest >= 0 THEN {rest} ELSE {UnsignedLimit + rest, 0}

FractionWidth(u) == CASE u = "s" -> 3 [] u = "ms" -> 2 [] u = "us" -> 1 [] u = "ns" -> 1

PrintTimestamp ==
    LET u == IF opts.unit = "auto" THEN "ns" ELSE opts.unit
        value == Quotient(unixTS', Factor[u])
        base == IF opts.base \in {"hex", "0x"} THEN 16 ELSE 10
    IN  /\ program = "time2unixts" /\ pc = "print"
        /\ unixTS' = Stored(Second * ts.sec + ts.nsec, build.time2unixts)
        /\ unit' = u
        /\ \E tail \in
              IF opts.base # "float" THEN {[kind |-> "end", digits |-> <<>>]}
              ELSE {[kind |-> "point", digits |-> Padded(n, FractionWidth(u))] :
                      n \in FractionalUnixTS(Remainder(unixTS', Factor[u]))} :
             PrintLine([neg |-> value < 0, prefix |-> opts.base = "0x",
                        digits |-> Printed(value, base), tail |-> tail])
        /\ UNCHANGED <<configuration, fractionDigits, ts, status>>

-----------------------------------------------------------------------------

\* The lines of one program are the arguments of the other one.
Pipe ==
    /\ pc = "done" /\ status = 0 /\ first = <<>> /\ ~opts.human
    /\ program' = IF program = "unixts2time" THEN "time2unixts" ELSE "unixts2time"
    /\ first' = <<[args |-> args, opts |-> opts, out |-> out]>>
    /\ args' = IF program = "time2unixts" THEN out
               ELSE [k \in DOMAIN out |-> out[k].text]
    /\ \E o \in Options : o.template = opts.template /\ opts' = o
    /\ pc' = "argument" /\ arg' = 1 /\ out' = <<>>
    /\ unit' = "ns" /\ fractionDigits' = 0 /\ unixTS' = 0
    /\ ts' = [sec |-> 0, nsec |-> 0]
    /\ UNCHANGED <<build, clock, status>>

Next ==
    \/ ReadInteger \/ TakeCurrentTime \/ ReadRest \/ RefuseTimestamp
    \/ ConvertToTime \/ PrintTime \/ RefuseTemplate
    \/ ParseTime \/ ReadClock \/ RefuseTime \/ PrintTimestamp
    \/ Pipe

Spec == Init /\ [][Next]_vars

-----------------------------------------------------------------------------
(* What is printed *)

\* The time a text tells, in ns; fractions of up to three digits.
TimeIn(text) ==
    Second * (Minute * Field(text, "M") + Field(text, "S"))
    + ValueOf(Fraction(text), Step) * Scale(3 - Len(Fraction(text)))

\* The unit of a number by the table of the manual page.
ManualUnit(n) ==
    LET size == ValueOf(n.digits, Base(n))
    IN  CHOOSE u \in Units :
          CASE u = "s"  -> size \in 0 .. AutoLimit - 1
            [] u = "ms" -> size \in AutoLimit .. Step * AutoLimit - 1
            [] u = "us" -> size \in Step * AutoLimit .. Step * Step * AutoLimit - 1
            [] u = "ns" -> size >= Step * Step * AutoLimit
UnitOf(n) == IF opts.unit = "auto" THEN ManualUnit(n) ELSE opts.unit

\* The time of a number in a unit, in whole ns, as the manual page says it.
ManualTime(n, u) ==
    Signed(n.neg, ValueOf(n.digits, Base(n)) * Factor[u]
                  + ((ValueOf(n.tail.digits, Step) * Factor[u])
                       \div Scale(Len(n.tail.digits))))

\* Numbers for which the code keeps to the manual page: without 128 bits the
\* time has to fit a long long; a fraction has no more digits than a double,
\* and comes without a prefix, which the page has for integers only; 5 7 is no
\* number; and -0.5 loses its sign (see FloatIsRead).
Regular(n, u) ==
    /\ Rest(n).kind \in {"end", "point"}
    /\ Fits(Signed(n.neg, ValueOf(n.digits, Base(n))))
    /\ build.unixts2time \/ Fits(ManualTime(n, u))
    /\ n.tail.kind = "point" =>
         Base(n) = 10 /\ ValueOf(n.tail.digits, Step) < Scale(DoubleDigits)
    /\ n.neg /\ n.tail.digits # <<>> => ValueOf(n.digits, Base(n)) # 0

\* A template that leaves out nothing but the fraction.
WholeTime(template) ==
    LET Has(kind) == \E part \in {FrontOf(template), BackOf(template)} :
                       \E k \in DOMAIN Fields(part) : Fields(part)[k].is = kind
    IN  Has("M") /\ (SecondsPlaceholder(template) # 0 \/ Has("S"))

\* The text tells the time; only with all digits of a fraction in use, or none
\* printed, it may be of 1 ns nearer to 0, and only without %S the fraction is
\* left out.
Tells(text, time, n) ==
    LET near == IF n.tail.digits = <<>> THEN {time} ELSE {time, time - Signed(n.neg, 1)}
    IN  CASE SecondsPlaceholder(opts.template) = 0 ->
               \E t \in near : TimeIn(text) = Second * (t \div Second)
          [] SecondsPlaceholder(opts.template) # 0 /\ Len(Fraction(text)) = 3 ->
               TimeIn(text) \in near
          [] OTHER -> TimeIn(text) = time

\* The current time, if it fits: the seconds always, and all of it in ns.
TellsClock(text) ==
    build.unixts2time \/ Fits(clock) =>
      /\ TimeIn(text) \div Second = clock \div Second
      /\ opts.unit \in {"auto", "ns"} /\ SecondsPlaceholder(opts.template) # 0
           => TimeIn(text) = clock

\* The number a line of time2unixts shows, without its fraction.
NumberIn(line) ==
    Signed(line.neg, ValueOf(line.digits, IF opts.base \in {"hex", "0x"} THEN 16 ELSE 10))

-----------------------------------------------------------------------------

(***************************************************************************)
(* Types: the fraction of a timespec is never negative and less than a     *)
(* second, and a timestamp fits a long long where the build has no larger  *)
(* numbers.                                                                *)
(***************************************************************************)
TypeOK ==
    /\ build \in Builds /\ clock \in Clocks /\ opts \in Options
    /\ program \in {"unixts2time", "time2unixts"}
    /\ pc \in {"argument", "rest", "convert", "print", "done"}
    /\ arg \in 1 .. Len(args) + 2
    /\ unit \in Units /\ fractionDigits \in Nat
    /\ build[program] \/ Fits(unixTS)
    /\ ts.sec \in Int /\ ts.nsec \in 0 .. Second - 1
    /\ Len(out) <= Len(args) + 1
    /\ status \in {0, 1} /\ Len(first) <= 1

\* unixts2time: the text of a template for the whole time tells the time of the
\* argument, and for people there is the number without its fraction and its unit.
TimeIsInput ==
    program = "unixts2time" => \A k \in DOMAIN out :
        IF args = <<>> THEN WholeTime(opts.template) => TellsClock(out[k].text)
        ELSE LET n == args[k]
             IN  Regular(n, UnitOf(n)) =>
                   /\ WholeTime(opts.template) =>
                        Tells(out[k].text, ManualTime(n, UnitOf(n)), n)
                   /\ out[k].unit = UnitOf(n)
                   /\ opts.human => out[k].number =
                                      <<Signed(n.neg, ValueOf(n.digits, Base(n)))>>

\* time2unixts: the number is the time, cut off towards 0, to the base asked
\* for; from 1970 on, --float adds the rest (before, see FloatIsPrinted).
NumberIsTime ==
    program = "time2unixts" => \A k \in DOMAIN out :
        LET u == IF opts.unit = "auto" THEN "ns" ELSE opts.unit
            text == args[k]
            times == IF args = <<>> THEN {clock}
                     ELSE {Second * (Minute * Field(text, "M") + Field(text, "S")) + ns :
                             ns \in Nanoseconds(Fraction(text))}
        IN  (build.time2unixts \/ \A t \in times : Fits(t)) =>
              \E t \in times :
                /\ NumberIn(out[k]) = Quotient(t, Factor[u])
                /\ t >= 0 /\ opts.base = "float" =>
                     ValueOf(out[k].tail.digits, Step) = t % Factor[u]

(***************************************************************************)
(* Both programs convert without loss.  The date and time unixts2time      *)
(* prints is the one of the timestamp, in the unit given or in the one the *)
(* manual page tells for its size, for each of the arguments whatever has  *)
(* come before it, with every digit of a fraction that a double holds,     *)
(* before and after 1970 (but for -0.5 and prefixes, see Regular); and the *)
(* integer time2unixts prints is the time in the unit, whatever the base   *)
(* and also if the fraction rounds up to the next second; to it --float    *)
(* adds the rest from 1970 on.  What it leaves out of floating-point       *)
(* numbers is what the code does not keep of FloatsExact.                  *)
(***************************************************************************)
ConversionsExact == TimeIsInput /\ NumberIsTime

\* unixts2time.1: "The timestamp may be provided as float or integer.  For
\* integers, the numbers can have a prefix": a float is decimal, has a sign,
\* and its text tells its time in the unit shown.
FloatIsRead ==
    program = "unixts2time" => \A k \in DOMAIN args \cap DOMAIN out :
        LET n == args[k]
            u == out[k].unit
            time == Signed(n.neg, ValueOf(n.digits, 10) * Factor[u]
                                  + ((ValueOf(n.tail.digits, Step) * Factor[u])
                                       \div Scale(Len(n.tail.digits))))
        IN  /\ n.tail.kind = "point" /\ ~n.prefix /\ WholeTime(opts.template)
            /\ \A i \in DOMAIN n.digits : n.digits[i] < 10
            /\ Fits(ValueOf(n.digits, 10)) /\ (build.unixts2time \/ Fits(time))
            /\ ValueOf(n.tail.digits, Step) < Scale(DoubleDigits)
            => Tells(out[k].text, time, n)

\* time2unixts.1, --float: "Print the Unix timestamp as a floating-point
\* number."  It is the time: sign, integer part and fraction, also before 1970.
FloatIsPrinted ==
    program = "time2unixts" /\ opts.base = "float" =>
      \A k \in DOMAIN args \cap DOMAIN out :
        LET text == args[k]
            n == out[k]
            size == ValueOf(n.digits, 10) * Factor[unit] + ValueOf(n.tail.digits, Step)
            times == {Second * (Minute * Field(text, "M") + Field(text, "S")) + ns :
                        ns \in Nanoseconds(Fraction(text))}
        IN  (build.time2unixts \/ \A t \in times : Fits(t)) => Signed(n.neg, size) \in times

\* Both programs read and print floating-point numbers as their manual pages
\* say, before 1970 as after it.
FloatsExact == FloatIsRead /\ FloatIsPrinted

\* A template in which strtod() ends where the seconds end.
Separate(template) ==
    LET back == Fields(BackOf(template))
    IN  back # <<>> => ~Numeric(back[1]) /\ back[1].value \notin {".", "e", "E"}

\* The same number again, in the same unit.
NumberCameBack ==
    \A k \in DOMAIN first[1].args :
        LET n == first[1].args[k]
            u == first[1].out[k].unit
        IN  WholeTime(opts.template)
            /\ Regular(n, u) /\ Fits(ManualTime(n, u)) /\ n.tail.kind = "end"
            /\ u = (IF opts.unit = "auto" THEN "ns" ELSE opts.unit)
            /\ (u = "s" \/ SecondsPlaceholder(opts.template) # 0)
            => NumberIn(out[k]) = Signed(n.neg, ValueOf(n.digits, Base(n)))

\* The same time again, by way of ns.
TimeCameBack ==
    LET exact == /\ first[1].opts.base \in {"dec", "0x"}
                 /\ first[1].opts.unit \in {"auto", "ns"} /\ opts.unit = "ns"
                 /\ WholeTime(opts.template) /\ SecondsPlaceholder(opts.template) > 1
    IN  \A k \in DOMAIN first[1].args :
          LET text == first[1].args[k]
          IN  exact /\ Len(Fraction(text)) <= 3 /\ Fits(TimeIn(text))
              => k \in DOMAIN out /\ TimeIn(out[k].text) = TimeIn(text)

(***************************************************************************)
(* The programs undo each other, with a template for the whole time.  An   *)
(* integer timestamp turned into a time comes back as the same number if   *)
(* it is asked for in the same unit, to any base; a time turned into ns    *)
(* comes back as the same time; and time2unixts refuses nothing that       *)
(* unixts2time has printed, if no digit, point or exponent follows the %S  *)
(* of the template: strtod() would read on there.                          *)
(***************************************************************************)
RoundTrip ==
    first # <<>> /\ pc = "done" =>
      IF program = "time2unixts" THEN Separate(opts.template) => status = 0 /\ NumberCameBack
                                 ELSE TimeCameBack
=============================================================================
