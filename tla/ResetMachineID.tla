---------------------------- MODULE ResetMachineID ----------------------------
(***************************************************************************)
(* Reset-Machine-ID (src/Reset-Machine-ID/Reset-Machine-ID): the script    *)
(* that gives a cloned machine a new identity, section by section, asking  *)
(* before each of them.                                                    *)
(*                                                                         *)
(* Every command that changes the machine is a step.  The script runs with *)
(* set -e: a command that fails ends it, as a signal or the end of its     *)
(* standard input does (Stop).  It may then be started again, with other   *)
(* options, on what the earlier runs have left.  The contents of a file    *)
(* are reduced to where they come from.                                    *)
(***************************************************************************)
EXTENDS Naturals, FiniteSets, Sequences

CONSTANTS
    Platforms,  \* what the script may find on a machine
    Options,    \* the command lines
    Servers,    \* the Zabbix servers
    KeyTypes,   \* the types of SSH host keys
    MaxRuns,    \* how often the script is started
    None        \* no such file

\* The keys the script makes, in this order.
NewKeys == <<"ed25519", "ecdsa", "rsa">>

Platform ==
    [uuidgen : BOOLEAN,     \* dbus-uuidgen is installed
     algorithms : BOOLEAN,  \* ssh supports some of the algorithms asked for
     accepts : BOOLEAN,     \* sshd accepts the configuration suggested
     restart : {"service", "rcctl", "nothing"},
     has : SUBSET {"hostname", "machineID", "dbusID", "hostID", "zabbix", "ssh",
                   "sshd", "cloudInit"}]    \* the files it came with

Option ==
    [hostname : BOOLEAN, skipID : BOOLEAN, skipSSH : BOOLEAN,
     skipKeys : BOOLEAN, zabbix : Servers \cup {""}, install : BOOLEAN,
     yes : BOOLEAN]

ASSUME PlatformAssumption == Platforms \subseteq Platform
ASSUME OptionAssumption == Options \subseteq Option
ASSUME KeysAssumption == {NewKeys[i] : i \in DOMAIN NewKeys} \subseteq KeyTypes
ASSUME RunsAssumption == MaxRuns \in Nat
ASSUME ServersAssumption == {"", "default"} \cap Servers = {}
ASSUME NoneAssumption ==
    None \notin (Nat \cup {"old", "new", "", "default"} \cup Servers)

VARIABLES
    platform,       \* the machine's facts, which no run changes
    machine,        \* the machine's files, its name, and the daemon's settings
    opts,           \* the command line of the run
    pc,             \* the section or command that comes next
    applyChanges,   \* the last answer
    differences,    \* how many files an update would change
    run,            \* history: the number of the run
    consent,        \* history: the questions answered with yes in this run
    made,           \* history: the keys there have ever been
    stopped         \* history: a run has been cut short

vars == <<platform, machine, opts, pc, applyChanges, differences, run, consent,
          made, stopped>>

Texts == {"old", "new", None}
Configs == {"default"} \cup Servers \cup {None}

\* A key is known by the run that made it; the machine came with those of
\* run 0.
Key == [type : KeyTypes, by : 0 .. MaxRuns]

Machine ==
    [hosts : Texts, hostname : Texts, name : {"old", "new"},
     machineID : Texts \cup {"empty"}, dbusID : {"old", "link", None},
     hostID : Texts,
     zabbix : Configs, zabbixOrig : Configs, zabbixOld : Configs,
     ssh : Texts, sshOld : Texts, sshd : Texts, sshdOld : Texts,
     cloudInit : BOOLEAN, daemon : Texts,
     keys : SUBSET Key, backup : SUBSET Key]

Original(file) == IF file \in platform.has THEN "old" ELSE None

Init ==
    /\ platform \in Platforms
    /\ machine =
         [hosts |-> "old", hostname |-> Original("hostname"), name |-> "old",
          machineID |-> Original("machineID"), dbusID |-> Original("dbusID"),
          hostID |-> Original("hostID"),
          zabbix |-> IF "zabbix" \in platform.has THEN "default" ELSE None,
          zabbixOrig |-> None, zabbixOld |-> None,
          ssh |-> Original("ssh"), sshOld |-> None,
          sshd |-> Original("sshd"), sshdOld |-> None,
          cloudInit |-> "cloudInit" \in platform.has,
          daemon |-> Original("sshd"),
          keys |-> [type : KeyTypes, by : {0}], backup |-> {}]
    /\ opts \in Options
    /\ pc = "off" /\ applyChanges = "" /\ differences = 0
    /\ run = 0 /\ consent = {} /\ made = machine.keys /\ stopped = FALSE

-----------------------------------------------------------------------------

\* The script goes on, and nothing else happens to what is not named.
Goto(from, to) ==
    /\ pc = from /\ pc' = to
    /\ UNCHANGED <<platform, opts, run, stopped>>

Skip(from, to) ==
    /\ Goto(from, to)
    /\ UNCHANGED <<machine, applyChanges, differences, consent, made>>

\* A command changes one thing of the machine.
Set(from, to, what, value) ==
    /\ Goto(from, to)
    /\ machine' = [machine EXCEPT ![what] = value]
    /\ UNCHANGED <<applyChanges, differences, consent, made>>

\* A bug: an empty answer leaves the variable as the question before set it.
AskKeepsAnswer(question, yes, no) ==
    \E answer \in IF opts.yes THEN {applyChanges} ELSE {"yes", "no", applyChanges} :
        /\ Goto(question, IF answer = "yes" THEN yes ELSE no)
        /\ applyChanges' = answer
        /\ consent' = IF opts.yes \/ answer # applyChanges
                        THEN consent \cup {question} ELSE consent
        /\ UNCHANGED <<machine, differences, made>>

\* A question is asked unless --yes-to-all-... is given, and both is a yes.
Ask(question, yes, no) ==
    \E answer \in IF opts.yes THEN {applyChanges} ELSE {"yes", "no"} :
        /\ Goto(question, IF answer = "yes" THEN yes ELSE no)
        /\ applyChanges' = answer
        /\ consent' = IF answer = "yes" THEN consent \cup {question} ELSE consent
        /\ UNCHANGED <<machine, differences, made>>

Start ==
    /\ pc = "off" /\ run < MaxRuns
    /\ opts' \in Options
    /\ pc' = "hostname"
    /\ applyChanges' = IF opts'.yes THEN "yes" ELSE ""
    /\ run' = run + 1
    /\ consent' = {}
    /\ differences' = 0
    /\ UNCHANGED <<platform, machine, made, stopped>>

\* The script ends before its end.
Stop ==
    /\ pc \notin {"off", "end"}
    /\ pc' = "off"
    /\ stopped' = TRUE
    /\ UNCHANGED <<platform, machine, opts, applyChanges, differences, run,
                   consent, made>>

Finish ==
    /\ pc = "end" /\ pc' = "off"
    /\ UNCHANGED <<platform, machine, opts, applyChanges, differences, run,
                   consent, made, stopped>>

-----------------------------------------------------------------------------

\* The new contents of /etc/hosts and /etc/hostname are prepared in files of
\* their own and compared.
CompareHostname ==
    /\ opts.hostname /\ machine.name # "new"
    /\ differences' = Cardinality({f \in {"hosts", "hostname"} :
                                       machine[f] = "old"})
    /\ Goto("hostname", IF differences' > 0 THEN "hostname?" ELSE "machineID")
    /\ UNCHANGED <<machine, applyChanges, consent, made>>

KeepHostname ==
    /\ ~opts.hostname \/ machine.name = "new"
    /\ Skip("hostname", "machineID")

ChangeHostname ==
    \/ Ask("hostname?", "mv-hosts", "machineID")
    \/ Set("mv-hosts", "mv-hostname", "hosts", "new")
    \/ /\ machine.hostname # None
       /\ Set("mv-hostname", "hostnamectl", "hostname", "new")
    \/ machine.hostname = None /\ Skip("mv-hostname", "hostnamectl")
    \/ Set("hostnamectl", "machineID", "name", "new")

-----------------------------------------------------------------------------

SkipMachineID ==
    /\ opts.skipID \/ machine.machineID = None
    /\ Skip("machineID", "zabbix")

OfferMachineID ==
    /\ ~opts.skipID /\ machine.machineID # None
    /\ Skip("machineID", "machineID?")

\* A bug: the new ID is made only if there is none, but the old one is kept.
ResetMachineIDKeepsOld ==
    \/ Ask("machineID?", "rm-machine-id", "zabbix")
    \/ platform.uuidgen /\ Skip("rm-machine-id", "dbus-uuidgen")
    \/ /\ ~platform.uuidgen
       /\ Set("rm-machine-id", "dbus", "machineID", "empty")
    \/ /\ machine.machineID = None
       /\ Set("dbus-uuidgen", "dbus", "machineID", "new")
    \/ machine.machineID # None /\ Skip("dbus-uuidgen", "dbus")

ResetMachineID ==
    \/ Ask("machineID?", "rm-machine-id", "zabbix")
    \/ /\ platform.uuidgen
       /\ Set("rm-machine-id", "dbus-uuidgen", "machineID", None)
    \/ /\ ~platform.uuidgen
       /\ Set("rm-machine-id", "dbus", "machineID", "empty")
    \/ Set("dbus-uuidgen", "dbus", "machineID", "new")

ResetDBusID ==
    \/ machine.dbusID = None /\ Skip("dbus", "popularity")
    \/ machine.dbusID # None /\ Set("dbus", "ln-dbus", "dbusID", None)
    \/ Set("ln-dbus", "popularity", "dbusID", "link")

ResetHostID ==
    \/ machine.hostID = None /\ Skip("popularity", "zabbix")
    \/ machine.hostID # None /\ Set("popularity", "zabbix", "hostID", "new")

-----------------------------------------------------------------------------

\* Without a configuration file the agent is installed, if that is allowed,
\* whatever the answer is; without one after that the script gives up.
FindAgent ==
    \/ opts.zabbix = "" /\ Skip("zabbix", "ssh")
    \/ /\ opts.zabbix # "" /\ machine.zabbix # None
       /\ Skip("zabbix", "zabbix.orig")
    \/ /\ opts.zabbix # "" /\ machine.zabbix = None /\ opts.install
       /\ Skip("zabbix", "install?")

InstallAgent ==
    \/ Ask("install?", "install", "install")
    \/ Set("install", "zabbix.orig", "zabbix", "default")

\* A bug: the original is copied in every run.
KeepAgentOriginalAlways ==
    Set("zabbix.orig", "zabbix.new", "zabbixOrig", machine.zabbix)

KeepAgentOriginal ==
    \/ machine.zabbixOrig # None /\ Skip("zabbix.orig", "zabbix.new")
    \/ /\ machine.zabbixOrig = None
       /\ Set("zabbix.orig", "zabbix.new", "zabbixOrig", machine.zabbix)

ConfigureAgent ==
    \/ machine.zabbix = opts.zabbix /\ Skip("zabbix.new", "ssh")
    \/ machine.zabbix # opts.zabbix /\ Skip("zabbix.new", "zabbix?")
    \/ Ask("zabbix?", "cp-zabbix", "ssh")
    \/ Set("cp-zabbix", "mv-zabbix", "zabbixOld", machine.zabbix)
    \/ Set("mv-zabbix", "ssh", "zabbix", opts.zabbix)

-----------------------------------------------------------------------------

\* With none of the algorithms the script ends.
CompareSSH ==
    \/ opts.skipSSH /\ Skip("ssh", "keys")
    \/ /\ ~opts.skipSSH /\ platform.algorithms
       /\ Skip("ssh", IF machine.ssh = "old" THEN "ssh?" ELSE "sshd")

ConfigureSSH ==
    \/ Ask("ssh?", "cp-ssh", "sshd")
    \/ Set("cp-ssh", "mv-ssh", "sshOld", machine.ssh)
    \/ Set("mv-ssh", "sshd", "ssh", "new")

\* sshd -T reads the configuration, and the host keys.
Valid == platform.accepts /\ machine.keys # {}

\* The file of Cloud-Init is to be removed, the configuration to be replaced.
SSHDDifferences == (IF machine.cloudInit THEN 1 ELSE 0)
                   + (IF machine.sshd = "old" THEN 1 ELSE 0)

\* A bug: what sshd -T says is ignored.
CompareSSHDUnchecked ==
    \/ machine.sshd = None /\ Skip("sshd", "keys")
    \/ /\ machine.sshd # None
       /\ differences' = SSHDDifferences
       /\ Goto("sshd", IF differences' > 0 THEN "sshd?" ELSE "keys")
       /\ UNCHANGED <<machine, applyChanges, consent, made>>

\* A bug: the differences of the host name are still counted.
CompareSSHDAdds ==
    \/ machine.sshd = None /\ Skip("sshd", "keys")
    \/ /\ machine.sshd # None /\ Valid
       /\ differences' = differences + SSHDDifferences
       /\ Goto("sshd", IF differences' > 0 THEN "sshd?" ELSE "keys")
       /\ UNCHANGED <<machine, applyChanges, consent, made>>

CompareSSHD ==
    \/ machine.sshd = None /\ Skip("sshd", "keys")
    \/ /\ machine.sshd # None /\ Valid
       /\ differences' = SSHDDifferences
       /\ Goto("sshd", IF differences' > 0 THEN "sshd?" ELSE "keys")
       /\ UNCHANGED <<machine, applyChanges, consent, made>>

ConfigureSSHD ==
    \/ Ask("sshd?", "rm-cloud-init", "keys")
    \/ Set("rm-cloud-init", "cp-sshd", "cloudInit", FALSE)
    \/ Set("cp-sshd", "mv-sshd", "sshdOld", machine.sshd)
    \/ Set("mv-sshd", "restart", "sshd", "new")

\* A restart that fails ends the script.
RestartSSHD ==
    \/ platform.restart = "nothing" /\ Skip("restart", "keys")
    \/ /\ platform.restart # "nothing"
       /\ Set("restart", "keys", "daemon", machine.sshd)

-----------------------------------------------------------------------------

OfferKeys ==
    \/ opts.skipKeys /\ Skip("keys", "end")
    \/ ~opts.skipKeys /\ Skip("keys", "keys?")
    \/ Ask("keys?", "mv-keys", "end")

\* A bug: a backup replaces the one before.
BackUpKeysOnce ==
    \/ \E k \in machine.keys :
         /\ Goto("mv-keys", "mv-keys")
         /\ machine' = [machine EXCEPT
                !.keys = @ \ {k},
                !.backup = {b \in @ : b.type # k.type} \cup {k}]
         /\ UNCHANGED <<applyChanges, differences, consent, made>>
    \/ machine.keys = {} /\ Skip("mv-keys", "ssh-keygen")

\* find moves one key after the other to the directory of this run.
BackUpKeys ==
    \/ \E k \in machine.keys :
         /\ Goto("mv-keys", "mv-keys")
         /\ machine' = [machine EXCEPT !.keys = @ \ {k}, !.backup = @ \cup {k}]
         /\ UNCHANGED <<applyChanges, differences, consent, made>>
    \/ machine.keys = {} /\ Skip("mv-keys", "ssh-keygen")

\* A bug: the script ends after the first two keys.
GenerateTwoKeys ==
    LET n == Cardinality(machine.keys)
    IN /\ n < 2
       /\ Goto("ssh-keygen", IF n < 1 THEN "ssh-keygen" ELSE "restart-again")
       /\ \E k \in {[type |-> NewKeys[n + 1], by |-> run]} :
            /\ machine' = [machine EXCEPT !.keys = @ \cup {k}]
            /\ made' = made \cup {k}
       /\ UNCHANGED <<applyChanges, differences, consent>>

\* ssh-keygen is called for one type after the other.
GenerateKeys ==
    LET n == Cardinality(machine.keys)
    IN /\ n < Len(NewKeys)
       /\ Goto("ssh-keygen",
               IF n + 1 < Len(NewKeys) THEN "ssh-keygen" ELSE "restart-again")
       /\ \E k \in {[type |-> NewKeys[n + 1], by |-> run]} :
            /\ machine' = [machine EXCEPT !.keys = @ \cup {k}]
            /\ made' = made \cup {k}
       /\ UNCHANGED <<applyChanges, differences, consent>>

\* Here a restart may fail, and rcctl is not tried.
RestartAgain ==
    \/ Skip("restart-again", "end")
    \/ /\ platform.restart = "service"
       /\ Set("restart-again", "end", "daemon", machine.sshd)

-----------------------------------------------------------------------------

Next ==
    \/ Start \/ Stop \/ Finish
    \/ CompareHostname \/ KeepHostname \/ ChangeHostname
    \/ SkipMachineID \/ OfferMachineID \/ ResetMachineID \/ ResetDBusID
    \/ ResetHostID
    \/ FindAgent \/ InstallAgent \/ KeepAgentOriginal \/ ConfigureAgent
    \/ CompareSSH \/ ConfigureSSH \/ CompareSSHD \/ ConfigureSSHD \/ RestartSSHD
    \/ OfferKeys \/ BackUpKeys \/ GenerateKeys \/ RestartAgain

Spec == Init /\ [][Next]_vars

-----------------------------------------------------------------------------

\* The sections of the script, with their commands.
HostnameSteps == {"hostname", "hostname?", "mv-hosts", "mv-hostname", "hostnamectl"}
IDSteps == {"machineID", "machineID?", "rm-machine-id", "dbus-uuidgen", "dbus",
            "ln-dbus", "popularity"}
AgentSteps == {"zabbix", "install?", "install", "zabbix.orig", "zabbix.new", "zabbix?",
               "cp-zabbix", "mv-zabbix"}
SSHSteps == {"ssh", "ssh?", "cp-ssh", "mv-ssh"}
SSHDSteps == {"sshd", "sshd?", "rm-cloud-init", "cp-sshd", "mv-sshd", "restart"}
KeysSteps == {"keys", "keys?", "mv-keys", "ssh-keygen", "restart-again"}

\* The machine's files hold what some version of the script's commands wrote;
\* the script is at one of its commands.
TypeOK ==
    /\ platform \in Platforms /\ opts \in Options
    /\ pc \in {"off", "end"} \cup HostnameSteps \cup IDSteps \cup AgentSteps
               \cup SSHSteps \cup SSHDSteps \cup KeysSteps
    /\ machine \in Machine
    /\ applyChanges \in {"", "yes", "no"} /\ differences \in 0 .. 2
    /\ run \in 0 .. MaxRuns /\ made \subseteq Key
    /\ stopped \in BOOLEAN

Changed(parts) == \E p \in parts : machine'[p] # machine[p]

\* What a step changes was agreed to in this run, in the question of this very
\* section.  Two changes come without: the agent is installed on the option
\* --install-zabbix-agent, whatever the answer (line 457), and the copy of its
\* original is made before the question (lines 471 to 473), of what is there.
Requested ==
    /\ Changed({"hosts", "hostname", "name"}) => "hostname?" \in consent
    /\ Changed({"machineID", "dbusID", "hostID"}) => "machineID?" \in consent
    /\ Changed({"zabbixOld"}) => "zabbix?" \in consent
    /\ Changed({"zabbix"}) =>
           "zabbix?" \in consent \/ (opts.install /\ machine.zabbix = None)
    /\ Changed({"zabbixOrig"}) =>
           /\ opts.zabbix # ""
           /\ machine.zabbixOrig = None /\ machine'.zabbixOrig = machine.zabbix
    /\ Changed({"ssh", "sshOld"}) => "ssh?" \in consent
    /\ Changed({"sshd", "sshdOld", "cloudInit"}) => "sshd?" \in consent
    /\ Changed({"daemon"}) => consent \cap {"sshd?", "keys?"} # {}
    /\ Changed({"keys", "backup"}) => "keys?" \in consent

\* Reset-Machine-ID.1: "The changes are made interactively on request".  One
\* variable serves all questions (applyChanges, line 246); still every file of
\* the machine, its name and its daemon change only as Requested, over runs
\* with different options on what the others have left.  The suggestions the
\* script writes beside a file (.new, .suggested) are no part of the machine.
OnlyOnRequest == [][Requested]_machine

\* Wherever the script stops, and however often it is started again, every
\* key is in place or in a backup (lines 690 to 715).
KeysKept == made = machine.keys \cup machine.backup

\* Wherever the script stops, the configuration the machine came with is
\* still in place or in the copy made of it (lines 471, 491, 570 and 660).
OriginalsKept ==
    /\ "ssh" \in platform.has => "old" \in {machine.ssh, machine.sshOld}
    /\ "sshd" \in platform.has => "old" \in {machine.sshd, machine.sshdOld}
    /\ machine.zabbix \in Servers =>
           machine.zabbixOrig = "default" \/ machine.zabbixOld = "default"

\* sshd is given no configuration that it has not accepted (line 652); so
\* is the daemon.
OnlyValidConfig ==
    "new" \in {machine.sshd, machine.daemon} => platform.accepts

\* A run that came to its end with a yes to every question has done what was
\* asked for (exit status 0), if no run before it was cut short.
Completed ==
    pc = "end" /\ opts.yes /\ ~stopped =>
        /\ opts.hostname =>
             machine.name = "new" /\ "old" \notin {machine.hosts, machine.hostname}
        /\ ~opts.skipID =>
             /\ machine.machineID # "old"
             /\ machine.machineID # None => machine.dbusID # "old"
        /\ opts.zabbix # "" => machine.zabbix = opts.zabbix
        /\ ~opts.skipSSH =>
             /\ "old" \notin {machine.ssh, machine.sshd}
             /\ "sshd" \in platform.has =>
                  /\ ~machine.cloudInit
                  /\ platform.restart # "nothing" => machine.daemon = "new"

\* If keys were asked for, a run that came to its end has made all of them and
\* left no others, whatever the runs before it left.
KeysReplaced ==
    pc = "end" /\ "keys?" \in consent =>
        machine.keys = [type : {NewKeys[i] : i \in DOMAIN NewKeys}, by : {run}]
=============================================================================
