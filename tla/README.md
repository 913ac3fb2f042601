# Verification of system-tools

System-tools is a collection of small programs for system administrators: a
text editor for scripts (text-block), a retry loop (try-hard), a random delay
(random-sleep), a script that gives a cloned machine a new identity
(Reset-Machine-ID), a test certificate authority, a maintenance script, and
several tools that print or convert. This directory holds TLA+ models of the
programs that keep or change state, the TLC configurations that check them on
small instances, and TLAPS proofs for all instances.

Every definition is translated from the source. `PROJECT.json` maps each one to
its lines, and lists the runs, the findings, the theorems, the hazards of the
code with the properties that would catch them, and for each property a
mutation of the model (a plausible bug) that violates it.

    cd tla
    tlc -config MCTextBlock.cfg MCTextBlock      # one run of TLC
    tlapm TextBlockProofs.tla                    # one module of proofs

Contents:

1. [The system](#1-the-system): components, state, hard behaviours, correctness
2. [The modules](#2-the-modules): how they correspond to the code
3. [The runs](#3-the-runs): what is checked, bounds, fairness
4. [The proofs](#4-the-proofs): theorems, invariants, assumptions
5. [What the models and runs found](#5-what-was-found)
6. [What is not modelled](#6-what-is-not-modelled)
7. [The plan](#7-the-plan)


## 1. The system

Each program is a process of its own. try-hard runs random-sleep;
test-tls-connection pipes what openssl prints through text-block; System-Info
runs get-system-info and print-utf8; generate-test-certificates imports
CertificateHelper.py. All others are used alone. Nothing is shared but files
and exit codes. What is concurrent is therefore two runs of a program on the
same files, a run and whoever reads its files, and a run and the signals it
gets; what is hard is a run that stops half-way and the next one that starts
from what it has left.

| Component | State it keeps | Operations | What is hard | What makes it correct |
|---|---|---|---|---|
| **Text-Block**, line processor (`Text-Block/text-block.c`) | line number, pointer into the line, marker searched next, whether a block is open, number of actions | read a line; find a marker; hand a piece of text to processUnmarked()/processMarked(); end of line; end of file | block begins and ends are postponed to the next piece; identical tags, tags inside tags, full lines, negative line numbers, a block left open at the end | the output is what the manual says of the text as a whole; no assert() fails; every piece of a line is handed over once, in order; the search ends; the limits on the number of actions hold |
| **Text-Block**, files | open streams, temporary file `FILE~`, output buffer, exit code | open, read, write, close, unlink, chmod/chown, rename | each call may fail; a kill anywhere; two runs on one file; output still in a buffer | in-place updates are atomic; success means that the output is there; nothing is left over or deleted that is somebody else's |
| **Try-Hard** (`Try-Hard/try-hard`) | trial counter, interval of delays | check arguments, run the command, increase the interval (awk), wait | rounding and truncation of delays; arguments the shell cannot compare; failing to wait | as many trials as asked for; pauses as announced; delays within bounds; exit status of the command |
| **Random-Sleep** (`Random-Sleep/random-sleep.c`) | remaining time | check bounds, draw, nanosleep() again after signals | signals that interrupt the sleep; times that time_t cannot hold | sleeps for the time it has drawn, in spite of signals |
| **Reset-Machine-ID** (`Reset-Machine-ID/Reset-Machine-ID`) | the machine: host name, machine IDs, SSH keys and settings, agent settings, and their backups | per section: compare, ask, back up, replace, restart | the script ends at the first failing command and is started again; one variable holds the answers to all questions | no key or original setting is ever lost; nothing is changed without a yes to that question; sshd gets no configuration it refuses; the work reported as done is done |
| **Test CA** (`X509/CertificateHelper.py`, `generate-test-certificates`) | for each CA an index, serial numbers, key, certificate, CRL; certificates; the global CRL; in memory the CAs constructed | construct a CA, sign, rename, append the chain, verify, revoke, list, publish | a run stopped between two of these; buffered writes; unique subjects; the order of revoking, removing and replacing | all revocations are published; a certificate reported as made is good and the only valid one of its subject; every valid certificate has its file |
| **System-Maintenance** | packages, kernels, services, temporary files | update, remove old kernels, stop and start services, set the clock | set -e between stop and start; version patterns | the running and the newest kernel stay; what was stopped is started |
| **Unix-Timestamp** (`Unix-Timestamp/unixts2time.c`, `time2unixts.c`) | per argument: unit, digits of the fraction, the timestamp in ns and as a timespec | parse a number, convert it, print a time by a template; parse a time by a template, print a number to a base | overflow, the sign of fractions and remainders, fractions that round up to a second, units detected for each argument | the time printed is the one given; the programs undo each other |
| **Print-UTF8** (`Print-UTF8/print-utf8.c`) | mode, borders and text, the lines read, position in an escaped string | take options, unescape a string byte by byte, measure, indent, centre, repeat; read lines and print them between borders | colours, wide and combining characters, widths that do not divide by 2, consoles too small, long and many lines | what is printed ends where it should on the screen; no line is lost; buffer and array are not overrun |
| **X.509 shell tools** (extract-pem, check-certificate, view-*, ...) | none | split PEM files, call openssl/certtool/certutil | formats | - |
| **System-Info**, **Fingerprint-SSH-Keys** | none | gather and lay out information | - | - |
| **Configure-GRUB** (`Configure-GRUB/configure-grub`) | none | an awk filter that merges five settings of the existing configuration into a template | settings commented out, missing or given twice | each setting is taken from where it should be, once |
| **GIMP-Scripts** | none | one batch command each | - | - |
| **Build, tests, packaging** | none | tools of the maintainers | - | - |

The 40 hazards in `PROJECT.json` are the points at which this code may go wrong
and a test would hardly notice, each with its line and the properties that would
catch it. Five have no property, and say why: one belongs to System-Maintenance,
which is not modelled; the others (dropped labels, a delay beyond time_t, a machine
ID that a stopped run has removed, a run that stops for want of host keys) are steps
of the models about which the repository promises nothing. Where a property covers a
hazard in part only, or does not hold, a note says so.


## 2. The modules

    TextBlock  <-EXTENDS-  TextBlockManual  <-EXTENDS-  MCTextBlock
        ^                        ^
        |                        +------EXTENDS---  TextBlockManualProofs
        |                                             |
        +------EXTENDS---  TextBlockProofs  <-EXTENDS-+

    AtomicUpdate  <-INSTANCE (refinement)-  TextBlockFiles  <-  MCTextBlockFiles,
                                                                TextBlockFilesProofs

    RandomSleep  <-EXTENDS-  TryHard  <-EXTENDS-  MCTryHard, TryHardProofs

    ResetMachineID  <-  MCResetMachineID, ResetMachineIDProofs

    CertAuthority   <-  MCCertAuthority, CertAuthorityProofs

    UnixTimestamp   <-  MCUnixTimestamp, UnixTimestampProofs

    PrintUTF8       <-  MCPrintUTF8, PrintUTF8Proofs

**TextBlock** is main() from the parameter checks to the end of the input, with
processUnmarked() and processMarked(). `lineNo`, `ptr`, `marker` and `blk.in`
are LineNumber, Pointer, Marker and InBlock; `blk.out` is what has been written
and `blk.handed` a history variable: what of this line has been handed over.
`pc` has a value for each point of the loop: "read" (getline), "line" (the
search of a marker), "rest" (what is behind a full tag line). Each branch on a
marker found is an action of its own (BeginOfFullLines, EndOfTagsOnly, ...).
The empty sequence stands for a null pointer of a tag. An assert() that fails
sets `blk.aborted`, after which nothing moves. Definitions marked
"Mutant" or "A bug" are the mutated forms used by the mutants.

**TextBlockManual** is the reference: the blocks of the text as a whole, as the
manual page explains them, without lines, pointers or states, and the output of
each mode in terms of these blocks.

**AtomicUpdate** is the abstract specification of an in-place update: a file
that always holds a whole text, and runs that look at it, replace it once, end
or are killed.

**TextBlockFiles** is the other half of text-block.c: the calls that open, read,
write, close, delete, chmod and rename, several runs on one directory of names
and inodes, an output buffer that reaches the file any time, and a failure or a
kill everywhere. cleanUp() is Close, Remove, RestorePermissions, Rename and
Exit; `problems` (history) holds which calls have failed there without changing
the exit code: unlink(), chmod() and rename() with a message, stat() without. What a run does to a text is abstract (it leaves its mark in each chunk).
`Atomic == INSTANCE AtomicUpdate WITH ...` maps "the file" to the data of the
inode its name refers to, and what a run has seen to the data of the inode it
has open.

**RandomSleep** holds the process random-sleep (and sleep) from its arguments to
its end: the check of the bounds, the draw, the conversion to timespec (a double
beyond time_t gives any value: undefined behaviour), nanosleep() and what a
signal leaves of it. **TryHard** extends it with the script, which starts it,
waits for it and reads its status. Numbers are whole units; `Rounded` is the
rounding by awk's `%g`, to a nearest element of the set Printable.
A command's success is a nondeterministic choice; so is awk not running.
`args.usable` is false for a delay that is no number and where random-sleep is
missing: the script rejects both.

**ResetMachineID** is the whole script with one action for each command that
changes the machine, in the order of its sections; `machine` holds where each
file's contents come from ("old", "new", a server's name), the keys in place
and in the backup directory. `platform` is what the script finds and cannot
change, `consent` (history) the questions answered with yes. Stop ends a run at
any step, as set -e and signals do, and Start begins another one with other
options.

**CertAuthority** is generate-test-certificates on top of CertificateHelper.py:
CA's constructor (Create to Return: `dictionary` is GlobalCRLDictionary),
Certificate's (Ask to Flush and Verify), revocation and the CRLs. `open` says
that Python still buffers the chain written at the end of a certificate file
(the file object stays open until it is collected), so a step that calls OpenSSL
may find the file without it. OpenSSL's own rules are external: they are the
operators CanRequest, CanSign, Verifies, CanRevoke and CanList, which say when a
command succeeds; they were compared with OpenSSL 3.0 running the script. Stop
is a kill (the buffer is lost) or an exception (it is written).

**UnixTimestamp** is both programs and the pipe between them. `pc` is the place in
the loop over the arguments: "argument" (strtoll() and the unit, or strptime()),
"rest" (strtod() on what strtoll() leaves), "convert" (to a timespec, which
gmtime() may refuse), "print". Quotient and Remainder are those of C, which round
to zero; `Stored` is the wrap-around of a long long, and `build` tells for each
program whether it has been built with numbers of 128 bits (the two files ask for
different versions of the compiler). A minute has a few seconds and a unit is a
few of the next smaller one: these are constants, and so is 2^63, the Limit of a
long long. A text is the sequence of its fields, records of what they are and their
value: "M" for all that strftime() makes of the minutes and what is above them, "S"
for the seconds, "F" for a fraction, and literal characters.
Where doubles are rounded, the result is one of the neighbours they may yield: exact
or 1 ns less as long as a fraction has no more digits than a double holds
(DoubleDigits), 1 ns more as well beyond. A number is what strtoll() takes of it and
a rest for strtod(): a point and digits, something that is a number to strtod() all
the same (8.5 of 08.5, which is not octal), or what neither reads. `ReadsOn` says
where strtod() goes on behind the seconds of a text, because digits, a point or an
exponent follow; such a text is taken as refused.
Pipe starts the other program with the lines printed as its arguments; `first`
(history) is the run before.

**PrintUTF8** is a run of print-utf8. A string is the sequence of its bytes, of a
small alphabet with wide, combining, control and invalid characters. `pc` is
"options" (getopt's loop), "unescape" (the loop of unescape(), `i` bytes read and
`unescaped` written), "command" (the mode chosen), or "read", "borders" and
"print" in doMultiLineIndentOrCenter(). SetBorders and TakeString leave the strings
they unescape in `jobs`; each EndUnescape stores one. mbstowcs() and wcswidth() are
external: Decodable, Columns, Wcswidth. Separator is what the loop of separator()
has written when it ends; that it ends is not modelled. Errors in the middle of a line leave the
part of it that is out already (RefuseText, RefuseLine).


## 3. The runs

Seven runs must pass; between them they fire every action. Five runs each exhibit
one finding ([section 5](#5-what-was-found)).

### text_block (459,841 states)

*Does the line loop write what the manual promises on the whole text?* Safety:
OutputAsManual and ActionLimitsHold compare with TextBlockManual;
AssertionsHold, LinesConserved; ScanAdvances says that pointer and marker make
progress with each marker; Terminates is the liveness property.

Inputs: one line of up to 4 letters, two of up to 2, three of up to 1, over two
letters that tags are made of and one that they are not, and texts without a
final newline; tags of one and two letters, with and without end tag, equal
tags; all 9 modes; include/exclude, full lines and tags only; limits -1, 1 and
2; selections from -5 to 5 of texts of 0 to 4 lines. A line of four letters
holds every order of two markers with text before, between and behind; three
lines hold every order of begin, inner and end lines; the selections include 0,
both ends of the text and one and two beyond them. The letters in a line do not
matter to a selection, and selections exclude tags, so the two families are
checked side by side (MCInit) instead of in product.

OutputAsManual leaves out four cases, each a named operator: markers that
overlap (MarkersSeparate), which the run text_block_tags checks against the
manual; cat or enumerate with a selection (SelectionHasEffect), whose chosen lines
are missing ([section 5](#5-what-was-found)); a negative end of a selection that counts back to
just before the first line (SelectionEndWraps), which the program cannot tell
from "to the end of the file"; and a tag that goes on behind the end of a line
(TagsWithinLines), which a program that reads line by line cannot see. No tag of
the run has a line feed in it: the last case matters to the theorem, which holds
for all tags. `Described` is the premise without SelectionHasEffect.

*Fairness*: WF on Next. The program is sequential and its input finite; read
errors are steps too. CHECK_DEADLOCK stays on: Terminated is the only final
state.

### text_block_files (921,206 states)

*Is an in-place update atomic, and does no run lose, leave over or touch files
it should not?* Two runs, one of them an update, the other any of seven jobs (to
standard output, to a file, appending, keeping, with labels, another update),
four inodes, a file of two chunks, older files under both other names or not;
every call may fail and both runs may be killed anywhere. AtomicSpec is the
refinement of AtomicUpdate; Delivered relates exit status and output file;
NoLeftovers, OnlyOwnFiles and PermissionsKept the rest of cleanUp(). PermissionsKept
names the two failures that break it: chmod(), which is warned of, and stat(), of
which nothing is said. Delivered is not about outputs with labels, whose writes are
not checked, and OnlyOwnFiles allows that a failed run deletes the file it appended to.
Two chunks are enough to tell a part of a text from a whole one; two runs are
enough for one to disturb another's temporary file, original or inode.
SeparateSpec excludes two runs that have the same file open while one writes it
(Clash): nothing locks files, so two updates of one file at the same time are up
to the users. CHECK_DEADLOCK FALSE: all runs end.

### try_hard (117,112 states)

*Does try-hard, waiting by random-sleep under signals, make the trials asked
for with the pauses promised, back off within bounds, end, and report the right
status?* 0, 1 or 4 trials or an unusable number; minimum, maximum and truncation
0, 2 and 5 in any order (also a minimum above the maximum); factors 0.5 and 2,
increments 0 and 1; 5 cannot be printed, so delays are rounded up and down; a
time_t holds no more than 4, so one delay is beyond it. Four trials give three
intervals, in which each bound is reached and then stays.

*Fairness*: WF(Script) and WF(Sleeping): the shell and its children are
scheduled, and a command that runs ends. Signals and the success of the command
are not assumed. Terminates is conditional on a usable limit and delays that fit
time_t: beyond them the behaviour is undefined, or (GivesUp) there is no end.
ExitTells says nothing of the status of a run whose waiting failed; that is
ExitOfLastTrial, which does not hold (try_hard_status, four trials with random-sleep).

### reset_machine_id (535,921 states)

*Over two runs, the first of which may stop anywhere: is nothing lost, nothing
changed without a yes to that very question, no unchecked configuration
installed, and is the work done that a run reports as done?* OnlyOnRequest is about
the whole machine: for each part of it that a step changes (names, IDs, settings of
ssh, sshd and the agent, their copies, keys and the daemons' states) it names the
question that must have been answered with yes in this run. Two changes are
exceptions: a missing agent is installed, with the option for it, whatever was
answered, and its settings are copied before the question. Five platforms
(Debian, Alpine, OpenBSD, an sshd that refuses the configuration, no sshd),
options with all sections and questions, with all and --yes, and with two parts
only; two Zabbix servers; a host key of a type that is no longer made. Two runs
are one interruption and one recovery; two servers make the second run change
what the first has set. Completed demands that no run was cut short: known
failures of recovery (a machine ID removed and not made again, ...) are hazards.
CHECK_DEADLOCK FALSE: the script ends.

### cert_authority (1,459,410 states)

*Over three runs and four requests, any of which may be stopped anywhere: are
all revocations published, is the certificate a run reports as made good and the
only valid one of its subject, is none forgotten, and does every file pass
check-certificate?* Three CAs (root, intermediate, leaf: the shortest chain with
an intermediate below another CA's certificate), three subjects of which two
share a directory, since a server and a user of the same name do. Three runs are
a first, a stopped and a recovering one; four requests reach revoking what was
replaced before. AllAccepted, NeverRefused and Accounted are conditional on no
run having been stopped (`cut`), FreshWhenDone and Published are not: a run that
ends well repairs what a stopped one has left, or is refused.
CHECK_DEADLOCK FALSE: runs end.

### unix_timestamp (1,451,160 states)

*Is every timestamp turned into its time and every time into its number, and do
the two programs undo each other?* ConversionsExact compares each line printed with
the time its argument tells by the manual page: written as one integer of ns,
without strtoll(), timespec, carry or signs of remainders. Its exceptions have names:
a template must be one for the whole time (WholeTime); of an argument with a
fraction the neighbouring ns is accepted (`near`), as the product in double precision
may be 1 ns too small; and a number must be `Regular`: what fits a long long, with no
fraction behind a prefix or behind -0, and with none of more digits than a double
holds. What --float adds to a number is compared from 1970 on. FloatsExact has none of
these exceptions for floating-point numbers, and does not hold (unix_timestamp_floats). RoundTrip pipes each program into the other, with the options of
the second run chosen anew: an integer comes back as the same number, a time of up to
three digits of a fraction as the same time, and a text that unixts2time has printed is
never refused. It asks for a template for the whole time as well, and, for the way
through a text, for one whose %S is not followed by a digit, a point or an exponent
(Separate): %S.0 is in the run, and strtod() reads on there. TypeOK holds the ranges
of the parts of a timespec.

A unit is ten of the next smaller one, a minute has three seconds, the Limit of a
long long is 8192 (so that, as in the programs, every number that the auto-detection
takes for seconds fits it). Timestamps: at and next to each threshold and both ends of the
range, positive and negative, decimal, octal and hexadecimal, with fractions of one
to four digits (three are the precision of a timespec here: one beyond it), numbers
strtoll() cannot hold, one beyond the DoubleDigits (5), prefixed ones with a fraction,
numbers behind which another one or nothing readable follows, and pairs that need different units. Times: seconds from
below 0 to a leap second and beyond, fractions that round down, to a tie, and up to
the next second. Templates with %S first, last, behind a literal %S, and without
it. All three kinds of build. With 40,608 initial states each operand meets each
option; a loop over two arguments shows what is left of the first one.

### print_utf8 (164,964 states)

*Does what is printed end where it should on the screen, is no line lost, and does
unescape() stay in its buffer?* Aligned speaks of columns on the screen, for strings
that can be shown on it (Plain), and of the side on which --indent puts its spaces;
LinesKept of all lines that fit the buffer; both of runs
that have ended well and not by showing the usage or version (Printed: behind
`-C "[" "]"`, `-h` also ends with 0, and prints no line); TypeOK holds the bounds of
buffer and array. Each kind of escape sequence, whole, cut at the
end of the string and with wrong digits; borders without and with colours, control
characters and invalid bytes; consoles of 0, 7 and 10 columns, so that a rest is odd
or even, and there is not enough room; an array of two lines and a buffer of six
bytes with inputs below, at and beyond both; 15,624 initial states.

No liveness is stated for the last five: each of their runs is a straight
sequence of steps over finitely many requests, arguments, bytes or lines, and ends
or is refused.


## 4. The proofs

TLC checks the instances above. The theorems below hold for every value of the
constants under the ASSUMEs of the modules, and TLAPS checks their proofs to the
last leaf (SMT and Zenon; PTL for the temporal steps).

**TextBlockProofs** (any alphabet, texts of any length, any tags and options):

- `TypeCorrect` - Spec => []TypeOK.
- `AssertionsNeverFail` - no assert() of processUnmarked()/processMarked() fails.
- `NothingLost` - the pieces of a line handed over are the line.
- `ScanProgress` - each marker found increases `Variant`.

AssertionsHold is not inductive: whether a block is open when a piece is handed
over depends on which marker the loop searches, on identical tags, on full lines
and on the line number for selections. `BlockInv` says this for each point of
the loop. `LineInv` says that the text up to the pointer has been handed over;
it needs BlockInv, because a failed assertion hands over nothing. That the loop
within a line ends follows from `Variant`: twice the pointer, plus one while the
marker is the one whose tag the pointer stays in front of. The lemmas on
Strstr (a match lies within the line; there is a first one) and on SubSeq
carry the arithmetic.

**TextBlockManualProofs** (on top of these invariants, for the same constants):

- `OutputIsManual` - Spec => []OutputAsManual: the line loop writes what the manual
  promises on the text as a whole, in each mode.
- `LimitsOfActions` - Spec => []ActionLimitsHold.

The two sides share nothing but the text: the loop has lines, a pointer and
postponed block ends, the manual a recursive function on the positions of the text
(`BlocksBehind`) and FlattenSeq. The proof goes in four steps.

1. What the folds and the recursion compute. The induction theorems of the library
   cannot be instantiated, so both are opened along a well-founded order:
   `FlattenIs` and `FlattenPrefix` say that FlattenSeq runs through the texts of
   the prefixes, `BlocksRecursion` that BlocksBehind satisfies its own equation at
   each position.
2. Lines and text. `TextLayout` puts line i at LineStart[i]; `TagFound`,
   `TagNotFound`, `LineFound` and `LineNotFound` say that what strstr() finds in a
   line from the pointer on is the first marker of the text from that position on,
   and if it finds none, there is none before the next line.
3. What is written. `Unmarked(b, k, position)` says that all text up to a position
   is dealt with, k blocks end there and none is open; `Marked(b, k, position)`
   that block k + 1 is open. `UnmarkedText`, `BlockOpens`, `MarkedText` and
   `BlockCloses` are the four ways processUnmarked() and processMarked() are
   called, each for all modes at once.
4. The loop. `SearchBegin(k, position)` and `SearchEnd(k, position)` say which
   block the next marker belongs to: that the markers ahead of the position are
   those ahead of where the manual goes on searching, which may be elsewhere,
   since the pointer stays in front of some tags and behind others
   (`NothingHidden`; this is where markers may not overlap). `SelectedTo` and
   `Numbered` are the same for line numbers and for enumerate. `ManualInv` puts
   them together for each point of the loop, and has a lemma for each action.

BlockInv is needed for which marker is searched; the assertions are not.

**TextBlockFilesProofs** (any number of runs, names, inodes, command lines and
texts):

- `TypeCorrect`, `NothingLeftOver` - TypeOK and NoLeftovers for Spec, so even when
  runs disturb each other's files.
- `AllDelivered`, `PermissionsArePassedOn`, `OthersFilesStay` - Delivered,
  PermissionsKept (with its exceptions for stat() and chmod()) and OnlyOwnFiles for
  SeparateSpec.
- `UpdatesAreAtomic` - PlainUpdates => (SeparateSpec => AtomicSpec): the refinement of
  AtomicUpdate, as long as in-place jobs neither append nor write labels (with them an
  update leaves something else in the file by design).

For Spec the invariant `IInv` is enough: each inode has at most one name (`DirInv`),
what a run has opened and found out tells where it is (`StreamInv`), and what it has
to delete is still its own (`LeftInv`). `JInv` adds what only holds while no run
writes what another one has open: whose inode each name is (`TargetInv`), that what a
run has written and buffered is its edit of a prefix of its input (`CopyInv`), all of
it once it renames (`FinishInv`), with the original's permissions (`ModeInv`).
`OwnStep` maps a step of a run to what AtomicUpdate lets this run do, `OthersKept`
says that it changes nothing for the other runs, and `AtomicStep` combines them to a
step of AtomicUpdate or a stutter.

**TryHardProofs** (any limits, delays, increments and factors, and any set of
printable numbers that holds 0 and, for each delay, a nearest one that is not
beyond the longest):

- `TypeCorrect`, `ExitStatus`, `Bounds`, `NeverRefused`, `Sleep`, `Pauses`,
  `BackingOff`: TypeOK and all other safety properties of the run.

The invariant `IInv` adds to them how many trials are left at each place
(`TrialInv`), what is known of the last status (`StatusInv`), and that the
delays are an interval, which the waiting process has been given (`DelayInv`).
The lemmas on rounding are the core: Rounded is monotonic and idempotent
(`RoundedMonotonic`, `RoundedTwice`), so bounds survive awk's printing and a
grown interval never prints as a smaller one.

**ResetMachineIDProofs** (any platforms, options, servers and key types; any number of
runs, each of which may stop anywhere. `ServersAssumption`: the name of a server is
neither the original setting nor the mark of a missing file):

- `TypeCorrect`, `KeysAreKept`, `OriginalsAreKept`, `ConfigIsValid`, `RunCompletes`,
  `KeysAreReplaced` - TypeOK, KeysKept, OriginalsKept, OnlyValidConfig, Completed and
  KeysReplaced.
- `OnlyOnRequestHolds` - the action property OnlyOnRequest, for every part of the
  machine, with the two exceptions named in it.

The script has a straight order, so that `pc` determines what has been asked and done
in this run. One part of `IInv` says so for each section: `ConsentInv` the questions
answered with yes, `AgentInv`, `SSHInv` and `SSHDInv` which file is in place, which
one is a copy and whether sshd has accepted it, `NameInv` and `IDInv` what has been
renamed or made again, `KeysInv` where the keys are. OriginalsKept alone is not
inductive: that a setting may be overwritten depends on the backup that the same
section has made a few steps before, in this run or in one that stopped.

**CertAuthorityProofs** (any number of CAs, subjects, directories, runs and
requests):

- `TypeCorrect` - Spec => []TypeOK: a file of a CA is absent, empty or whole,
  and the buffer belongs to a file that is there, whenever runs are stopped.
- `AllPublished` - Spec => []Published: a run that ends well has published every
  revocation there ever was, in each CA's CRL and in the global one.

Published is about the end of a run only. `PhaseInv` says which CAs are in the
dictionary at each step of the script, `ListInv` that the CRL of each of these
lists what this CA has revoked, except while the leaf CA is about to write
one (`Unlisted`); `CertInv` and `OpenInv` that issuers have a certificate and
whose the buffer is, without which the chain appended to a file is not a set of
CAs; `RevokeInv` that a run that revokes leaves a file only to the request at
hand. Stopped runs leave a CRL behind its index, which the next run's
constructor repairs: that is why ListInv speaks of the CAs in the dictionary and
not of all.

On top of these invariants:

- `NothingRefused`, `AllAccountedFor`, `EverythingAccepted` - NeverRefused, Accounted
  and AllAccepted: as long as no run has been stopped, OpenSSL refuses no command, the
  valid certificates are those that have a file, and all files pass check-certificate.
- `FreshCertificates` - FreshWhenDone, wherever earlier runs were stopped.

`JInv` adds the order in which a CA's files come into being (`FilesInv`), that a file
and the index of its issuer agree on serial number and subject (`SerialInv`), the
certificate being made (`MakingInv`), that files are whole but the one buffered
(`WholeInv`), and that each certificate carries its chain to the root (`ChainInv`);
`AccountInv` counts the valid certificates of each subject at each step, and
`ProgressInv` and `FreshInv` say which requests the current run has met. NeverRefused
is a conjunct of JInv itself: whether a command succeeds depends on the same facts
that it establishes for the next one.

**PrintUTF8Proofs** (any alphabet, command lines, inputs and sizes, and any
conversions that give a code point no more bytes than its escape sequence has):

- `NoLineLost` - Spec => []LinesKept.
- `AllAligned` - Spec => []Aligned.
- `MemoryKept` - Spec => []TypeOK, with the bounds of memory that are part of it:
  unescape() never writes behind its buffer, lineArray has room for each line, and
  the borders are there when they are printed.

TypeOK is inductive as it stands because three parts of it were stated for the
proof: `FitsBuffer` counts byte by byte (what has been written is not longer than
what has been read, so that the whole fits strlen() + 1), `HasBorders` says that a
border is there or waits in the list of strings to unescape, and while lines are
read there is room for one more. The lemmas say that what the string operators
return is a string.

NoLineLost compares what is read through a buffer with a fold over the whole input,
and needs induction over data. The induction theorems of the library cannot be
instantiated, but a well-founded order can be used without them: a set of positions
that is not empty has a first element (`FirstPosition`), so a fact about positions has
a first one where it fails, or none. With this, and with FoldLeft expanded to the
function it chooses, `FoldPath` shows that a fold goes along a path of states;
`SplitSteps`, `ScanSteps` and `WidthSteps` are the paths of the folds of the model.
`Splits[p]` is then what the reference has made of the first p bytes. The invariant:
what is left of stdin is the end of the input (`InputInv`); the lines stored are the
complete ones of Splits at this place, whose last line is empty (`LinesInv`); what is
printed are the first of these between the borders (`OutInv`). A call of fgets()
either ends with an LF (`LineWithEnd`), or at the end of the input, because no whole
line fills the buffer (`LineWithoutEnd`).

AllAligned needs no further invariant: OutInv says of each line printed which operator
made it from which line and borders. What had to be proved is that widths add up
although they are those of what is left of a string without its ANSI sequences: behind
a string that leaves no sequence open another one is scanned as it is alone
(`ScanConcat`), and decoded and as wide as it is alone (`DecodableConcat`,
`WidthConcat`); so plain strings put together are plain and as wide as both
(`PlainConcat`). From there `IndentedWidth`, `CenteredWidth` and `SeparatorWidth` are
arithmetic, with the two roundings of the code: half of the room, and as many
separators as fit.

**UnixTimestampProofs** (any arguments, clock and options; any Step, Minute, Limit and
thresholds for which `UnixTimestampAssumption` holds, those of the programs among them;
`LastSecondAssumption`: gmtime() converts each time that a long long holds in ns. Its limit
is the year, an int, at some 6.7e16 s, and 2^63 ns are 9.2e9 s):

- `TimespecExact` - the timespec of a timestamp is the same time, and its fraction
  is never negative: the one step of the conversion in which the rounding of C's
  division has to be undone.
- `TypeCorrect` - TypeOK, in both programs and across the pipe between them.
- `NumbersExact` - Spec => []NumberIsTime: what time2unixts prints, without the rest
  that --float adds before 1970.
- `ConversionsAreExact` - Spec => []ConversionsExact: what both programs print, for
  all arguments that are Regular.
- `ProgramsUndoEachOther` - Spec => []RoundTrip: what each makes of the other's output,
  with templates that are Separate where it is a text.

TypeOK is not inductive alone. `DataInv` adds that the arguments and the lines have the
types of the program that runs, so that what one program prints can be read by the
other: Pipe turns the lines of the one into arguments of the other. `PlaceInv` adds that
there is a line for each argument before the next one, and an argument to work on. The
proof then needs what the recursive functions of the model return. They are functions
only because each value depends on smaller ones: `Recursion` shows that such a function
exists and `BySize` that its values are as claimed, both from the first place at which a
claim fails (as in PrintUTF8Proofs, without the library's induction theorems). With
these, `ScaleSteps` and `ValueSteps` are the recursion equations of Scale and ValueOf,
`ValueBelowScale` says that n digits are worth less than Scale(n), `PrintedType` that
printBigInteger() ends and yields digits of the base, `PlaceholderType` and `FieldsType`
that a template is taken apart into fields, and `NanosecondsType` that a fraction rounds
to a second at most, which is why one carry is enough.

NumbersExact rests on two facts about digits: those that printBigInteger() puts down,
from remainders that are negative for a negative number, have the value printed
(`PrintedValue`), also with zeros in front (`PaddedValue`). `StampInv` says that the
timespec about to be printed is the time of the argument; a line printed before is not
touched again.

ConversionsAreExact needs what unixts2time knows at each place of its loop. `StateInv`
says that it is what the argument alone determines: the integer and its unit
(`HasInteger`), the number of ns with the fraction (`HasTime`), or the clock
(`HasClock`). That nothing is left of the argument before is therefore part of the
invariant and not of a bound on the number of arguments. `DetectedManual` compares the
chain of thresholds in the code with the table of the manual page. Units are powers of
Step, so that each division in question has one quotient and remainder (`DivUnique`),
which turns products of variables into linear arithmetic. `ShortShown`, `WholeShown` and
`FullShown` say that the digits shown are those of the number although the last ns may
be missing: all of them, unless each digit of a timespec is in use. The text is taken back into fields by `StrftimeFields`
(strftime() keeps the order of the conversions), `FieldsConcat` (front, %S and back of a
template are separate texts) and `TimeOfFields`.

The attempt to prove it changed the model: a Step of 2 is excluded (where 1 ns is half of
the next unit), digits of a fraction are below Step, TellsClock holds only for a clock that
fits the build's numbers, and without %S an argument with a fraction may show the
neighbouring second. The last one is due to the model, which leaves open for each product
whether 1 ns is missing: it would take a fraction of 1 ns before 1970, and for that one the
product is exact in the program.

RoundTrip is about two runs, so its invariant has to carry what is known at the end of
the first one to the end of the second one. Three parts are about the lines of the run at
hand. `FormInv` says that a program prints what the other one can read: `ReadBack` that
strptime() takes what strftime() makes of the same template, `TextReadable` that this holds
for front, seconds, fraction and back together, for any template of the conversions that
are modelled in which strtod() does not read on behind the seconds; and a line of
time2unixts is the number as printBigInteger() prints it (`IsWritten`). `UnitInv` says that
the unit of a line is the one of the manual page (as ConversionsExact does, but also for
numbers whose time does not fit), and `DoneInv` that a run that ends well has a line for
each argument. The fourth part, `HistoryInv`, relates these lines, which Pipe has made the
arguments, to the arguments of the run before: a text tells the time of its number, a
number is the time of its text, and while the second run is at work nothing of that is
refused and nothing overflows. The facts behind it:

- `NanosecondsExact`: up to three digits are one number of ns, although strtod() leaves a
  choice for others.
- `PrintedFirst` and `WrittenRead`: a number printed does not begin with a 0 unless it is
  0. strtoll() is called with base 0 and would take it for octal; so it reads all digits,
  to the base they have been printed in.
- `StrtollFits` and `SecondsInRange`: what is read in ns fits, and gmtime() takes it.

With these, NumbersExact and ConversionsAreExact, applied to the second run, give back what
the first one had. The attempt to prove it changed the model here, too: RoundTrip had no
premise about the template, and without the minutes neither direction is true (the
templates of the run all have them); and nothing said that gmtime() reaches as far as a
long long in ns does (LastSecondAssumption), without which a time may come
back as a refusal.

Every invariant and action property of the runs that pass is a theorem. Only
model-checked is Terminates, of TextBlock and of TryHard: liveness under fairness is out of
reach of TLAPS, as ENABLED is. What can be proved of the first one is: ScanProgress.


## 5. What was found

Each of these is a run that TLC finds violated; the property quotes what the
repository says.

- **text_block_tags**: a tag that is part of the other tag is found inside it
  (`--begin-tag B --end-tag EB`), because the search goes on from a position
  that may be inside the tag just handled.
- **text_block_status**: `text-block -i FILE >/dev/full` exits with 0. Standard
  output is flushed by exit(), where nobody sees the error. (A rename() that
  fails does not change the exit code either, as the same property shows.)
- **try_hard_forever**: a limit that is empty or longer than a 64-bit number
  matches `^[0-9]*$`, and then every `[ -lt ]` fails with an error that counts
  as false: the command is tried for ever.
- **try_hard_status**: when random-sleep is killed, or refuses the empty delays of an
  awk that failed, set -e ends the script with the status of random-sleep. try-hard.1
  says "On failure, the exit code of the last failed trial is returned."
- **unix_timestamp_floats**: `time2unixts -s -F` prints -1.3794967296 for 1.5 s before
  1970: the rest is negative and put into an unsigned int. The manual page promises a
  floating-point number. The same property, FloatsExact, also fails for unixts2time,
  whose manual page accepts floats and has prefixes for integers only: -0.5 is taken
  for 0.5, since -0 has no sign, and 010.5 is read as octal.

Seen while modelling, against a sentence of the repository, but without a run:

- *text-block* with cat or enumerate and --select drops the lines chosen
  (`text-block -C -s 1 0` prints nothing): processMarked() has no case for these
  modes. The manual says of cat "copy the input text as-is" (text-block.1:130).
  OutputAsManual leaves it out by SelectionHasEffect.
- *Reset-Machine-ID* installs the Zabbix agent also after a no (line 457: the test of
  applyChanges that follows each other question is missing), while
  Reset-Machine-ID.1:82 says "The changes are made interactively on request".
  OnlyOnRequest names it as an exception.

Seen while modelling; no line of the repository says otherwise. The models have each
of these behaviours, and the properties leave them out by a named condition (Regular,
Tells, Whole, Separate, ...) or a disjunct:

- *text-block*: when stat() of the input file fails after an in-place update, the
  new file gets other permissions without a word. Labels that could not be written
  are missing without a word.
- *Reset-Machine-ID* copies the settings of the Zabbix agent before it asks.
- *unixts2time*: a timestamp beyond 2262 wraps around to another time without 128
  bits, and a number beyond 64 bits is the nearest one. `5 7` and `5-0.5` are numbers
  to strtod(), as 08.5 is, `5.` is not. A product of fraction and unit may be 1 ns too
  small, with more than some 15 digits also too large. A template that begins with %S
  fails, because strftime() of its empty front returns 0. With `-m` or `-u` the current
  time is rounded without a carry into the seconds.
- *time2unixts* uses 128 bits in fewer builds than unixts2time. With a template such as
  `%S%Y`, strtod() takes what belongs to the next conversion.
- *print-utf8*: lines beyond 1024 are dropped without a message. A line of more than
  8191 bytes is split, also in the middle of a character, which ends the program; one
  of exactly 8191 is followed by an empty line. A CR within a line ends it. Lines are
  not padded to the length of the longest one, whose length is computed and not used.


## 6. What is not modelled

- *Text-Block*: option parsing (its result is the command line of the model),
  NUL bytes in lines, chown(), an insert file read from standard input or with
  errors, errors while countLines() reads, and rewind() on an input that cannot
  seek (OpenInput says so), the width of the line numbers written by enumerate. In TextBlockFiles: in-place
  updates with --append and a stale `FILE~`, or with labels, an output file that
  is the input file, two updates of one file at a time.
- *Try-Hard, Random-Sleep*: option parsing; a command that is a builtin of the
  shell and ends it; the distribution of the random delay. The first delay is
  not truncated, and with a minimum above the maximum it may be below the
  minimum: DelaysInBounds speaks of later ones.
- *Reset-Machine-ID*: texts of files, the choice of SSH algorithms, installing
  packages (their outcome is a choice); a reboot between two runs; cp and mv are
  atomic.
- *Test CA*: CA.revokeCA, which has no caller (so the component counts as partly
  modelled); subjects' texts and alternative names; two runs at the same time;
  expiry; keys removed by hand.
- *Unix-Timestamp*: help, version, malloc() failing, the wording of
  --human-readable, the calendar (a minute stands for all that is above the seconds),
  time zones. Of what strtod() reads: exponents, inf and nan; also the prefix 0b of C23
  and arguments without a digit. What strtod() makes of a text in which digits, a point
  or an exponent follow the seconds is taken as refused, although strptime() may accept
  what is left of it (`%S%M %Y`).
- *Print-UTF8*: that separator()'s loop ends, the size of the array on the stack in
  indent(), malloc() failing, the rows of the terminal, the warning about further
  strings, the locale, wcswidth() for Solaris.
- *System-Maintenance*: one command after the other, and nothing in the repository
  says what holds when one fails; the choice of kernels is a match of regular
  expressions with the names of packages.
- *X.509 shell tools, System-Info, Fingerprint-SSH-Keys, Configure-GRUB,
  GIMP-Scripts*: filters and output around other programs,
  without state that outlasts a run or steps that interact. The one test of
  check-certificate that matters to the CA is CertAuthority's Accepted.
- *Build, tests, packaging, translations*: not part of the programs.


## 7. The plan

All of it is done, with the proofs listed above:

1. TextBlock, TextBlockManual (component with most logic).
2. TextBlockFiles as an implementation of AtomicUpdate; its other properties.
3. RandomSleep, TryHard.
4. ResetMachineID.
5. CertAuthority.
6. UnixTimestamp.
7. PrintUTF8.

What may follow, should the code grow: System-Maintenance, once its documentation says what
holds after a command that fails (the services it stops and starts again); the merge of
settings in Configure-GRUB; and CA.revokeCA as soon as it has a caller.
