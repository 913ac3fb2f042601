------------------------- MODULE ResetMachineIDProofs -------------------------
(***************************************************************************)
(* Proofs about Reset-Machine-ID, for all platforms, options, servers and  *)
(* key types, and for any number of runs each of which may stop anywhere.  *)
(***************************************************************************)
EXTENDS ResetMachineID, TLAPS, FiniteSetTheorems

-----------------------------------------------------------------------------
(* The invariant *)

\* The rest of the script, from a section on.
FromKeys == KeysSteps \cup {"end"}
FromSSHD == SSHDSteps \cup FromKeys
FromSSH == SSHSteps \cup FromSSHD
FromAgent == AgentSteps \cup FromSSH
FromID == IDSteps \cup FromAgent

\* The script is where it changes something only after a yes to the question
\* of that section; with --yes-to-all-... each answer is a yes.
ConsentInv ==
    /\ pc \in {"mv-hosts", "mv-hostname", "hostnamectl"} => "hostname?" \in consent
    /\ pc \in IDSteps \ {"machineID", "machineID?"} => "machineID?" \in consent
    /\ pc \in {"cp-zabbix", "mv-zabbix"} => "zabbix?" \in consent
    /\ pc \in {"cp-ssh", "mv-ssh"} => "ssh?" \in consent
    /\ pc \in {"rm-cloud-init", "cp-sshd", "mv-sshd", "restart"} => "sshd?" \in consent
    /\ pc \in {"mv-keys", "ssh-keygen", "restart-again"} => "keys?" \in consent
    /\ opts.yes /\ pc # "off" => applyChanges = "yes"

\* What the agent's section knows of the agent: that there is a server, that it
\* is installed where it is missing and on the option only, that there is then a
\* configuration, and a copy of the original.
AgentInv ==
    /\ pc \in AgentSteps \ {"zabbix"} => opts.zabbix # ""
    /\ pc \in {"install?", "install"} => opts.install /\ machine.zabbix = None
    /\ pc = "zabbix.orig" => machine.zabbix # None
    /\ machine.zabbixOrig \in {None, "default"}
    /\ machine.zabbix \in Servers => machine.zabbixOrig = "default"
    /\ pc \in {"zabbix.new", "zabbix?", "cp-zabbix", "mv-zabbix"} =>
         machine.zabbixOrig = "default"
    /\ opts.yes /\ opts.zabbix # "" /\ pc \in FromSSH => machine.zabbix = opts.zabbix

\* A configuration is copied only while it is the original: what is copied once
\* is never copied again.
SSHInv ==
    /\ pc \in {"ssh?", "cp-ssh"} => machine.ssh = "old"
    /\ pc = "mv-ssh" => machine.sshOld = "old"
    /\ "ssh" \in platform.has => "old" \in {machine.ssh, machine.sshOld}
    /\ opts.yes /\ ~opts.skipSSH /\ pc \in FromSSHD => machine.ssh # "old"

\* The same for sshd, whose configuration is accepted before it is offered;
\* that of Cloud-Init goes first.
SSHDInv ==
    /\ pc \in {"sshd?", "rm-cloud-init", "cp-sshd", "mv-sshd"} =>
         machine.sshd = "old" /\ platform.accepts
    /\ pc \in {"cp-sshd", "mv-sshd", "restart"} => ~machine.cloudInit
    /\ pc = "mv-sshd" => machine.sshdOld = "old"
    /\ pc = "restart" => machine.sshd = "new"
    /\ "sshd" \in platform.has <=> machine.sshd # None
    /\ "sshd" \in platform.has => "old" \in {machine.sshd, machine.sshdOld}
    /\ machine.sshd = "new" => platform.accepts /\ ~machine.cloudInit
    /\ machine.daemon = "new" => platform.accepts
    /\ ~stopped /\ machine.sshd = "new" /\ platform.restart # "nothing" =>
         pc = "restart" \/ machine.daemon = "new"
    /\ opts.yes /\ ~opts.skipSSH /\ pc \in FromKeys => machine.sshd # "old"

\* The name is set when the files are.  Without a run cut short no files are
\* new without the name.
NameInv ==
    /\ pc \in {"mv-hostname", "hostnamectl"} => machine.hosts = "new"
    /\ pc = "hostnamectl" => machine.hostname # "old"
    /\ machine.name = "new" => "old" \notin {machine.hosts, machine.hostname}
    /\ ~stopped /\ machine.name = "old" =>
         pc \in {"mv-hostname", "hostnamectl"} \/ machine.hosts = "old"
    /\ opts.yes /\ ~stopped /\ opts.hostname /\ pc \in FromID => machine.name = "new"

\* The IDs of this run's section are no longer the old ones.
IDInv ==
    /\ pc \in {"dbus-uuidgen", "dbus", "ln-dbus", "popularity"} =>
         machine.machineID # "old"
    /\ pc \in {"ln-dbus", "popularity"} => machine.dbusID # "old"
    /\ opts.yes /\ ~opts.skipID /\ pc \in FromAgent =>
         /\ machine.machineID # "old"
         /\ machine.machineID # None => machine.dbusID # "old"

\* The first n keys of a run.
MadeKeys(n) == {[type |-> NewKeys[i], by |-> run] : i \in 1 .. n}

\* No key is lost, and the keys in place are those this run has made so far.
KeysInv ==
    /\ KeysKept
    /\ pc \notin {"off", "end", "mv-keys", "ssh-keygen", "restart-again"} =>
         "keys?" \notin consent
    /\ pc = "ssh-keygen" => \E n \in 0 .. 2 : machine.keys = MadeKeys(n)
    /\ pc = "restart-again" => machine.keys = MadeKeys(3)
    /\ pc = "end" /\ "keys?" \in consent => machine.keys = MadeKeys(3)

IInv == /\ TypeOK /\ ConsentInv /\ AgentInv /\ SSHInv /\ SSHDInv /\ NameInv /\ IDInv
        /\ KeysInv

-----------------------------------------------------------------------------
(* What a step does *)

\* A step leaves these parts of the machine alone.
Keeps(parts) == \A p \in parts : machine'[p] = machine[p]

\* What no step does outside of a section, and where a step leads.
Frame ==
    /\ platform' = platform
    /\ pc # "off" => opts' = opts /\ run' = run
    /\ stopped => stopped'
    /\ pc \notin HostnameSteps => Keeps({"hosts", "hostname", "name"})
    /\ pc \notin IDSteps => Keeps({"machineID", "dbusID", "hostID"})
    /\ pc \notin AgentSteps => Keeps({"zabbix", "zabbixOrig", "zabbixOld"})
    /\ pc \notin SSHSteps => Keeps({"ssh", "sshOld"})
    /\ pc \notin SSHDSteps => Keeps({"sshd", "sshdOld", "cloudInit"})
    /\ machine'.daemon \in {machine.daemon, machine.sshd}
    /\ pc \notin {"restart", "restart-again"} => Keeps({"daemon"})
    /\ pc \notin KeysSteps => Keeps({"keys", "backup"}) /\ made' = made
    /\ consent' \subseteq consent \cup {pc}
    /\ pc = "off" => pc' = "off" \/ (pc' = "hostname" /\ consent' = {})
    /\ pc \in HostnameSteps => pc' \in HostnameSteps \cup {"off", "machineID"}
    /\ pc \in IDSteps => pc' \in IDSteps \cup {"off", "zabbix"}
    /\ pc \in AgentSteps => pc' \in AgentSteps \cup {"off", "ssh"}
    /\ pc \in SSHSteps =>
         pc' \in SSHSteps \cup {"off", "sshd"} \/ (opts.skipSSH /\ pc' = "keys")
    /\ pc \in SSHDSteps => pc' \in SSHDSteps \cup {"off", "keys"}
    /\ pc \in KeysSteps => pc' \in KeysSteps \cup {"off", "end"}
    /\ pc = "end" => pc' \in {"off", "end"}

\* Every step keeps to this.
LEMMA FrameStep ==
    ASSUME TypeOK, [Next]_vars
    PROVE  Frame
<1> USE DEF TypeOK, Machine, Set, Ask, Skip, Goto, HostnameSteps, IDSteps,
   AgentSteps, SSHSteps, SSHDSteps, KeysSteps, Frame, Keeps
<1>0. CASE UNCHANGED vars
  BY <1>0 DEF vars
<1>1. CASE Start
  BY <1>1 DEF Start
<1>2. CASE Stop
  BY <1>2 DEF Stop
<1>3. CASE Finish
  BY <1>3 DEF Finish
<1>4. CASE CompareHostname
  BY <1>4 DEF CompareHostname
<1>5. CASE KeepHostname
  BY <1>5 DEF KeepHostname
<1>6. CASE ChangeHostname
  BY <1>6 DEF ChangeHostname
<1>7. CASE SkipMachineID
  BY <1>7 DEF SkipMachineID
<1>8. CASE OfferMachineID
  BY <1>8 DEF OfferMachineID
<1>9. CASE ResetMachineID
  BY <1>9 DEF ResetMachineID
<1>10. CASE ResetDBusID
  BY <1>10 DEF ResetDBusID
<1>11. CASE ResetHostID
  BY <1>11 DEF ResetHostID
<1>12. CASE FindAgent
  BY <1>12 DEF FindAgent
<1>13. CASE InstallAgent
  BY <1>13 DEF InstallAgent
<1>14. CASE KeepAgentOriginal
  BY <1>14 DEF KeepAgentOriginal
<1>15. CASE ConfigureAgent
  BY <1>15 DEF ConfigureAgent
<1>16. CASE CompareSSH
  BY <1>16 DEF CompareSSH
<1>17. CASE ConfigureSSH
  BY <1>17 DEF ConfigureSSH
<1>18. CASE CompareSSHD
  BY <1>18 DEF CompareSSHD
<1>19. CASE ConfigureSSHD
  BY <1>19 DEF ConfigureSSHD
<1>20. CASE RestartSSHD
  BY <1>20 DEF RestartSSHD
<1>21. CASE OfferKeys
  BY <1>21 DEF OfferKeys
<1>22. CASE BackUpKeys
  BY <1>22 DEF BackUpKeys
<1>23. CASE GenerateKeys
  BY <1>23 DEF GenerateKeys
<1>24. CASE RestartAgain
  BY <1>24 DEF RestartAgain
<1> QED
  BY <1>0, <1>1, <1>2, <1>3, <1>4, <1>5, <1>6, <1>7, <1>8, <1>9, <1>10,
     <1>11, <1>12, <1>13, <1>14, <1>15, <1>16, <1>17, <1>18, <1>19, <1>20,
     <1>21, <1>22, <1>23, <1>24 DEF Next

\* In a section only its own commands are run, or the script stops.
LEMMA SectionActions ==
    ASSUME [Next]_vars
    PROVE  /\ pc \in HostnameSteps =>
               UNCHANGED vars \/ Stop \/ CompareHostname \/ KeepHostname
               \/ ChangeHostname
           /\ pc \in IDSteps =>
               UNCHANGED vars \/ Stop \/ SkipMachineID \/ OfferMachineID
               \/ ResetMachineID \/ ResetDBusID \/ ResetHostID
           /\ pc \in AgentSteps =>
               UNCHANGED vars \/ Stop \/ FindAgent \/ InstallAgent
               \/ KeepAgentOriginal \/ ConfigureAgent
           /\ pc \in SSHSteps =>
               UNCHANGED vars \/ Stop \/ CompareSSH \/ ConfigureSSH
           /\ pc \in SSHDSteps =>
               UNCHANGED vars \/ Stop \/ CompareSSHD \/ ConfigureSSHD \/ RestartSSHD
           /\ pc \in KeysSteps =>
               UNCHANGED vars \/ Stop \/ OfferKeys \/ BackUpKeys \/ GenerateKeys
               \/ RestartAgain
BY DEF Next, Start, Finish, Set, Ask, Skip, Goto, HostnameSteps, IDSteps,
   AgentSteps, SSHSteps, SSHDSteps, KeysSteps, CompareHostname, KeepHostname,
   ChangeHostname, SkipMachineID, OfferMachineID, ResetMachineID, ResetDBusID,
   ResetHostID, FindAgent, InstallAgent, KeepAgentOriginal, ConfigureAgent,
   CompareSSH, ConfigureSSH, CompareSSHD, ConfigureSSHD, RestartSSHD, OfferKeys,
   BackUpKeys, GenerateKeys, RestartAgain

\* Only the steps of a section lead to what comes after it.
LEMMA Order ==
    ASSUME TypeOK, [Next]_vars
    PROVE  /\ pc' \in FromKeys => pc \in FromKeys \cup SSHDSteps \cup SSHSteps
           /\ pc' \in FromSSHD => pc \in FromSSHD \cup SSHSteps
           /\ pc' \in FromSSH => pc \in FromSSH \cup AgentSteps
           /\ pc' \in FromAgent => pc \in FromAgent \cup IDSteps
           /\ pc' \in FromID => pc \in FromID \cup HostnameSteps
BY FrameStep DEF Frame, TypeOK, FromKeys, FromSSHD, FromSSH, FromAgent, FromID,
   HostnameSteps, IDSteps, AgentSteps, SSHSteps, SSHDSteps, KeysSteps

\* A section is not part of what comes after it.
LEMMA Before ==
    /\ HostnameSteps \cap FromID = {} /\ IDSteps \cap FromAgent = {}
    /\ AgentSteps \cap FromSSH = {} /\ SSHSteps \cap FromSSHD = {}
    /\ SSHDSteps \cap FromKeys = {}
    /\ "off" \notin FromID
    /\ FromKeys \subseteq FromSSHD /\ FromSSHD \subseteq FromSSH
    /\ FromSSH \subseteq FromAgent /\ FromAgent \subseteq FromID
<1>1. HostnameSteps \cap FromID = {} /\ "off" \notin FromID
  BY DEF FromKeys, FromSSHD, FromSSH, FromAgent, FromID,
     HostnameSteps, IDSteps, AgentSteps, SSHSteps, SSHDSteps, KeysSteps
<1>2. IDSteps \cap FromAgent = {}
  BY DEF FromKeys, FromSSHD, FromSSH, FromAgent,
     IDSteps, AgentSteps, SSHSteps, SSHDSteps, KeysSteps
<1>3. AgentSteps \cap FromSSH = {}
  BY DEF FromKeys, FromSSHD, FromSSH, AgentSteps, SSHSteps, SSHDSteps, KeysSteps
<1>4. SSHSteps \cap FromSSHD = {} /\ SSHDSteps \cap FromKeys = {}
  BY DEF FromKeys, FromSSHD, SSHSteps, SSHDSteps, KeysSteps
<1>5. /\ FromKeys \subseteq FromSSHD /\ FromSSHD \subseteq FromSSH
      /\ FromSSH \subseteq FromAgent /\ FromAgent \subseteq FromID
  BY DEF FromSSHD, FromSSH, FromAgent, FromID
<1> QED BY <1>1, <1>2, <1>3, <1>4, <1>5

-----------------------------------------------------------------------------
(* The name *)

\* Two files are compared; if hosts is old there is something to be replaced.
LEMMA HostsDiffer ==
    LET n == Cardinality({f \in {"hosts", "hostname"} : machine[f] = "old"})
    IN n \in 0 .. 2 /\ (machine.hosts = "old" => n > 0)
<1> DEFINE S == {f \in {"hosts", "hostname"} : machine[f] = "old"}
<1>1. IsFiniteSet({"hosts", "hostname"}) /\ Cardinality({"hosts", "hostname"}) = 2
  <2>1. IsFiniteSet({"hosts"}) /\ Cardinality({"hosts"}) = 1
    BY FS_Singleton
  <2>2. /\ IsFiniteSet({"hosts"} \cup {"hostname"})
        /\ Cardinality({"hosts"} \cup {"hostname"}) = 2
    BY <2>1, FS_AddElement
  <2>3. {"hosts"} \cup {"hostname"} = {"hosts", "hostname"}
    OBVIOUS
  <2> QED BY <2>2, <2>3
<1>2. S \subseteq {"hosts", "hostname"} /\ (machine.hosts = "old" => "hosts" \in S)
  OBVIOUS
<1> HIDE DEF S
<1>3. IsFiniteSet(S) /\ Cardinality(S) <= 2
  BY <1>1, <1>2, FS_Subset
<1>4. Cardinality(S) \in Nat /\ (S # {} => Cardinality(S) # 0)
  BY <1>3, FS_CardinalityType, FS_EmptySet
<1>5. Cardinality(S) \in 0 .. 2 /\ (machine.hosts = "old" => Cardinality(S) > 0)
  BY <1>2, <1>3, <1>4
<1> QED BY <1>5 DEF S

\* The section of the host name keeps its invariant, and no other touches it.
LEMMA NameStep ==
    ASSUME TypeOK, ConsentInv, NameInv, [Next]_vars
    PROVE  NameInv'
<1>1. CASE pc \notin HostnameSteps
  <2>1. Keeps({"hosts", "hostname", "name"}) /\ pc' \notin {"mv-hostname", "hostnamectl"}
    BY <1>1, FrameStep DEF Frame, TypeOK, HostnameSteps, IDSteps, AgentSteps,
       SSHSteps, SSHDSteps, KeysSteps
  <2>2. pc' \in FromID => pc \in FromID /\ opts' = opts
    BY <1>1, FrameStep, Order, Before DEF Frame
  <2>3. ~stopped' => ~stopped /\ pc \notin {"mv-hostname", "hostnamectl"}
    BY <1>1, FrameStep DEF Frame, HostnameSteps
  <2> QED BY <2>1, <2>2, <2>3 DEF Keeps, NameInv
<1>2. CASE UNCHANGED vars
  BY <1>2 DEF vars, NameInv
<1>3. CASE Stop
  BY <1>3, Before DEF Stop, NameInv
<1>4. CASE CompareHostname
  <2>1. machine' = machine /\ stopped' = stopped /\ opts' = opts /\ pc = "hostname"
    BY <1>4 DEF CompareHostname, Goto
  <2>2. pc' = "hostname?" \/ (pc' = "machineID" /\ machine.hosts # "old")
    BY <1>4, HostsDiffer DEF CompareHostname, Goto
  <2>3. machine.name # "new"
    BY <1>4 DEF CompareHostname
  <2>4. machine.name = "old"
    BY <2>3 DEF TypeOK, Machine
  <2>5. pc' \notin FromID \/ machine.hosts # "old"
    BY <2>2, Before DEF HostnameSteps
  <2> QED BY <2>1, <2>2, <2>4, <2>5 DEF NameInv
<1>5. CASE KeepHostname
  BY <1>5 DEF KeepHostname, Skip, Goto, NameInv
<1>6. CASE ChangeHostname
  <2>1. {"mv-hosts", "mv-hostname", "hostnamectl"} \cap FromID = {}
    BY Before DEF HostnameSteps
  <2> USE <2>1 DEF NameInv
  <2>2. CASE Ask("hostname?", "mv-hosts", "machineID")
    BY <2>2 DEF Ask, Goto, ConsentInv
  <2>3. CASE Set("mv-hosts", "mv-hostname", "hosts", "new")
    BY <2>3 DEF Set, Goto, TypeOK, Machine
  <2>4. CASE Set("mv-hostname", "hostnamectl", "hostname", "new")
    BY <2>4 DEF Set, Goto, TypeOK, Machine
  <2>5. CASE machine.hostname = None /\ Skip("mv-hostname", "hostnamectl")
    BY <2>5, NoneAssumption DEF Skip, Goto
  <2>6. CASE Set("hostnamectl", "machineID", "name", "new")
    BY <2>6 DEF Set, Goto, TypeOK, Machine
  <2> QED BY <1>6, <2>2, <2>3, <2>4, <2>5, <2>6 DEF ChangeHostname
<1> QED BY <1>1, <1>2, <1>3, <1>4, <1>5, <1>6, SectionActions

-----------------------------------------------------------------------------
(* The machine ID *)

\* So does the section of the machine ID.
LEMMA IDStep ==
    ASSUME TypeOK, ConsentInv, IDInv, [Next]_vars
    PROVE  IDInv'
<1> DEFINE Removed == {"dbus-uuidgen", "dbus", "ln-dbus", "popularity"}
<1>1. CASE pc \notin IDSteps
  <2>1. Keeps({"machineID", "dbusID"}) /\ pc' \notin Removed
    BY <1>1, FrameStep DEF Frame, Keeps, TypeOK, HostnameSteps, IDSteps, AgentSteps,
       SSHSteps, SSHDSteps, KeysSteps
  <2>2. pc' \in FromAgent => pc \in FromAgent /\ opts' = opts
    BY <1>1, FrameStep, Order, Before DEF Frame
  <2> QED BY <2>1, <2>2 DEF Keeps, IDInv
<1>2. CASE UNCHANGED vars
  BY <1>2 DEF vars, IDInv
<1>3. CASE Stop
  BY <1>3, Before DEF Stop, IDInv
<1>4. IDSteps \cap FromAgent = {} /\ opts \in Option
  BY Before, OptionAssumption DEF TypeOK
<1> USE <1>4, NoneAssumption DEF IDInv, Goto, IDSteps
<1>5. CASE SkipMachineID
  BY <1>5 DEF SkipMachineID, Skip
<1>6. CASE OfferMachineID
  BY <1>6 DEF OfferMachineID, Skip
<1>7. CASE ResetMachineID
  <2>1. CASE Ask("machineID?", "rm-machine-id", "zabbix")
    BY <2>1 DEF Ask, ConsentInv
  <2>2. CASE Set("rm-machine-id", "dbus-uuidgen", "machineID", None)
    BY <2>2 DEF Set, TypeOK, Machine
  <2>3. CASE Set("rm-machine-id", "dbus", "machineID", "empty")
    BY <2>3 DEF Set, TypeOK, Machine
  <2>4. CASE Set("dbus-uuidgen", "dbus", "machineID", "new")
    BY <2>4 DEF Set, TypeOK, Machine
  <2> QED BY <1>7, <2>1, <2>2, <2>3, <2>4 DEF ResetMachineID
<1>8. CASE ResetDBusID
  <2>1. CASE machine.dbusID = None /\ Skip("dbus", "popularity")
    BY <2>1 DEF Skip
  <2>2. CASE Set("dbus", "ln-dbus", "dbusID", None)
    BY <2>2 DEF Set, TypeOK, Machine
  <2>3. CASE Set("ln-dbus", "popularity", "dbusID", "link")
    BY <2>3 DEF Set, TypeOK, Machine
  <2> QED BY <1>8, <2>1, <2>2, <2>3 DEF ResetDBusID
<1>9. CASE ResetHostID
  <2>1. CASE machine.hostID = None /\ Skip("popularity", "zabbix")
    BY <2>1 DEF Skip
  <2>2. CASE Set("popularity", "zabbix", "hostID", "new")
    BY <2>2 DEF Set, TypeOK, Machine
  <2> QED BY <1>9, <2>1, <2>2 DEF ResetHostID
<1> QED BY <1>1, <1>2, <1>3, <1>5, <1>6, <1>7, <1>8, <1>9, SectionActions

-----------------------------------------------------------------------------
(* The agent *)

\* So does the section of the Zabbix agent.
LEMMA AgentStep ==
    ASSUME TypeOK, ConsentInv, AgentInv, [Next]_vars
    PROVE  AgentInv'
<1>1. CASE pc \notin AgentSteps
  <2>1. Keeps({"zabbix", "zabbixOrig"})
    BY <1>1, FrameStep DEF Frame, Keeps
  <2>2. pc' \in AgentSteps => pc' = "zabbix"
    BY <1>1, FrameStep DEF Frame, TypeOK, HostnameSteps, IDSteps, AgentSteps,
       SSHSteps, SSHDSteps, KeysSteps
  <2>3. pc' \in FromSSH => pc \in FromSSH /\ opts' = opts
    BY <1>1, FrameStep, Order, Before DEF Frame
  <2>4. {"install?", "install", "zabbix.orig", "zabbix.new", "zabbix?",
         "cp-zabbix", "mv-zabbix"} \subseteq AgentSteps \ {"zabbix"}
    BY DEF AgentSteps
  <2> QED BY <2>1, <2>2, <2>3, <2>4 DEF Keeps, AgentInv
<1>2. CASE UNCHANGED vars
  BY <1>2 DEF vars, AgentInv
<1>3. CASE Stop
  BY <1>3, Before DEF Stop, AgentInv, AgentSteps
<1>4. AgentSteps \cap FromSSH = {} /\ opts \in Option
  BY Before, OptionAssumption DEF TypeOK
<1>5. /\ machine.zabbix \in {"default", None} \cup Servers
      /\ opts.zabbix \in Servers \cup {""} /\ opts.yes \in BOOLEAN
  BY <1>4 DEF TypeOK, Machine, Configs, Option
<1> USE <1>4, <1>5, NoneAssumption, ServersAssumption DEF AgentInv, Goto, AgentSteps
<1>6. CASE FindAgent
  BY <1>6 DEF FindAgent, Skip
<1>7. CASE InstallAgent
  <2>1. CASE Ask("install?", "install", "install")
    BY <2>1 DEF Ask
  <2>2. CASE Set("install", "zabbix.orig", "zabbix", "default")
    <3>1. machine'.zabbix = "default" /\ machine'.zabbixOrig = machine.zabbixOrig
      BY <2>2 DEF Set, TypeOK, Machine
    <3> QED BY <2>2, <3>1 DEF Set
  <2> QED BY <1>7, <2>1, <2>2 DEF InstallAgent
<1>8. CASE KeepAgentOriginal
  <2>1. CASE machine.zabbixOrig # None /\ Skip("zabbix.orig", "zabbix.new")
    BY <2>1 DEF Skip
  <2>2. CASE /\ machine.zabbixOrig = None
             /\ Set("zabbix.orig", "zabbix.new", "zabbixOrig", machine.zabbix)
    <3>1. machine'.zabbix = machine.zabbix /\ machine'.zabbixOrig = machine.zabbix
      BY <2>2 DEF Set, TypeOK, Machine
    <3>2. machine.zabbix = "default"
      BY <2>2 DEF Set
    <3> QED BY <2>2, <3>1, <3>2 DEF Set
  <2> QED BY <1>8, <2>1, <2>2 DEF KeepAgentOriginal
<1>9. CASE ConfigureAgent
  <2>1. CASE machine.zabbix = opts.zabbix /\ Skip("zabbix.new", "ssh")
    BY <2>1 DEF Skip
  <2>2. CASE Skip("zabbix.new", "zabbix?")
    BY <2>2 DEF Skip
  <2>3. CASE Ask("zabbix?", "cp-zabbix", "ssh")
    BY <2>3 DEF Ask, ConsentInv
  <2>4. CASE Set("cp-zabbix", "mv-zabbix", "zabbixOld", machine.zabbix)
    <3>1. machine'.zabbix = machine.zabbix /\ machine'.zabbixOrig = machine.zabbixOrig
      BY <2>4 DEF Set, TypeOK, Machine
    <3> QED BY <2>4, <3>1 DEF Set
  <2>5. CASE Set("mv-zabbix", "ssh", "zabbix", opts.zabbix)
    <3>1. machine'.zabbix = opts.zabbix /\ machine'.zabbixOrig = machine.zabbixOrig
      BY <2>5 DEF Set, TypeOK, Machine
    <3> QED BY <2>5, <3>1 DEF Set
  <2> QED BY <1>9, <2>1, <2>2, <2>3, <2>4, <2>5 DEF ConfigureAgent
<1> QED BY <1>1, <1>2, <1>3, <1>6, <1>7, <1>8, <1>9, SectionActions

-----------------------------------------------------------------------------
(* SSH *)

\* So does the section of the SSH client.
LEMMA SSHStep ==
    ASSUME TypeOK, ConsentInv, SSHInv, [Next]_vars
    PROVE  SSHInv'
<1>0. platform' = platform
  BY FrameStep DEF Frame
<1>1. CASE pc \notin SSHSteps
  <2>1. Keeps({"ssh", "sshOld"})
    BY <1>1, FrameStep DEF Frame
  <2>2. pc' \notin SSHSteps \ {"ssh"}
    BY <1>1, FrameStep DEF Frame, TypeOK, HostnameSteps, IDSteps, AgentSteps,
       SSHSteps, SSHDSteps, KeysSteps
  <2>3. pc' \in FromSSHD => pc \in FromSSHD /\ opts' = opts
    BY <1>1, FrameStep, Order, Before DEF Frame
  <2>4. {"ssh?", "cp-ssh", "mv-ssh"} \subseteq SSHSteps \ {"ssh"}
    BY DEF SSHSteps
  <2> QED BY <1>0, <2>1, <2>2, <2>3, <2>4 DEF Keeps, SSHInv
<1>2. CASE UNCHANGED vars
  BY <1>2 DEF vars, SSHInv
<1>3. CASE Stop
  BY <1>0, <1>3, Before DEF Stop, SSHInv
<1>4. SSHSteps \cap FromSSHD = {}
  BY Before
<1>5. machine.ssh \in {"old", "new", None} /\ opts \in Option
  BY OptionAssumption DEF TypeOK, Machine, Texts
<1> USE <1>0, <1>4, <1>5, NoneAssumption DEF SSHInv, Goto, SSHSteps
<1>6. CASE CompareSSH
  BY <1>6 DEF CompareSSH, Skip
<1>7. CASE ConfigureSSH
  <2>1. CASE Ask("ssh?", "cp-ssh", "sshd")
    BY <2>1 DEF Ask, ConsentInv
  <2>2. CASE Set("cp-ssh", "mv-ssh", "sshOld", machine.ssh)
    <3>1. machine'.ssh = machine.ssh /\ machine'.sshOld = machine.ssh
      BY <2>2 DEF Set, TypeOK, Machine
    <3> QED BY <2>2, <3>1 DEF Set
  <2>3. CASE Set("mv-ssh", "sshd", "ssh", "new")
    <3>1. machine'.ssh = "new" /\ machine'.sshOld = machine.sshOld
      BY <2>3 DEF Set, TypeOK, Machine
    <3> QED BY <2>3, <3>1 DEF Set
  <2> QED BY <1>7, <2>1, <2>2, <2>3 DEF ConfigureSSH
<1> QED BY <1>1, <1>2, <1>3, <1>6, <1>7, SectionActions

-----------------------------------------------------------------------------
(* sshd *)

\* There is a difference if the configuration is old, or that of Cloud-Init is
\* there.
LEMMA SSHDDiffer ==
    /\ SSHDDifferences \in 0 .. 2
    /\ SSHDDifferences > 0 <=> machine.cloudInit \/ machine.sshd = "old"
<1>1. CASE machine.cloudInit
  BY <1>1 DEF SSHDDifferences
<1>2. CASE ~machine.cloudInit
  BY <1>2 DEF SSHDDifferences
<1> QED BY <1>1, <1>2

\* So does the section of sshd, given only configurations it accepts.
LEMMA SSHDStep ==
    ASSUME TypeOK, ConsentInv, SSHDInv, [Next]_vars
    PROVE  SSHDInv'
<1>0. platform' = platform
  BY FrameStep DEF Frame
<1>1. CASE pc \notin SSHDSteps
  <2>1. Keeps({"sshd", "sshdOld", "cloudInit"})
    BY <1>1, FrameStep DEF Frame
  <2>2. pc' \notin SSHDSteps \ {"sshd"}
    BY <1>1, FrameStep DEF Frame, TypeOK, HostnameSteps, IDSteps, AgentSteps,
       SSHSteps, SSHDSteps, KeysSteps
  <2>3. pc' \in FromKeys => (pc \in FromKeys \/ pc \in SSHSteps) /\ opts' = opts
    BY <1>1, FrameStep, Order, Before DEF Frame
  <2>4. {"sshd?", "rm-cloud-init", "cp-sshd", "mv-sshd", "restart"}
          \subseteq SSHDSteps \ {"sshd"}
    BY DEF SSHDSteps
  <2>5. pc' \in FromKeys /\ pc \notin FromKeys => opts.skipSSH
    BY <1>1, <2>3, FrameStep, Before DEF Frame, FromKeys, KeysSteps, SSHSteps
  <2>6. machine'.daemon \in {machine.daemon, machine.sshd}
    BY FrameStep DEF Frame
  <2>7. pc # "restart" /\ (~stopped' => ~stopped)
    BY <1>1, FrameStep DEF Frame, SSHDSteps
  <2> QED BY <1>0, <2>1, <2>2, <2>3, <2>4, <2>5, <2>6, <2>7 DEF Keeps, SSHDInv
<1>2. CASE UNCHANGED vars
  BY <1>2 DEF vars, SSHDInv
<1>3. CASE Stop
  BY <1>0, <1>3, Before DEF Stop, SSHDInv
<1>4. SSHDSteps \cap FromKeys = {}
  BY Before
<1>5. /\ machine.sshd \in {"old", "new", None} /\ machine.daemon \in {"old", "new", None}
      /\ opts \in Option /\ platform \in Platform
  BY OptionAssumption, PlatformAssumption DEF TypeOK, Machine, Texts
<1> USE <1>0, <1>4, <1>5, NoneAssumption DEF SSHDInv, Goto, SSHDSteps
<1>6. CASE CompareSSHD
  <2>1. CASE machine.sshd = None /\ Skip("sshd", "keys")
    BY <2>1 DEF Skip
  <2>2. CASE machine.sshd # None /\ Valid /\ pc = "sshd" /\ machine' = machine
    <3>1. pc' = (IF SSHDDifferences > 0 THEN "sshd?" ELSE "keys")
      BY <1>6, <2>2 DEF CompareSSHD, Skip
    <3>2. IF machine.sshd = "old" THEN pc' = "sshd?" ELSE pc' = "keys"
      BY <2>2, <3>1, SSHDDiffer
    <3> QED BY <1>6, <2>2, <3>2 DEF CompareSSHD, Valid, Skip
  <2> QED BY <1>6, <2>1, <2>2 DEF CompareSSHD
<1>7. CASE ConfigureSSHD
  <2>1. CASE Ask("sshd?", "rm-cloud-init", "keys")
    BY <2>1 DEF Ask, ConsentInv
  <2>2. CASE Set("rm-cloud-init", "cp-sshd", "cloudInit", FALSE)
    <3>1. /\ machine'.sshd = machine.sshd /\ machine'.sshdOld = machine.sshdOld
          /\ machine'.daemon = machine.daemon /\ ~machine'.cloudInit
      BY <2>2 DEF Set, TypeOK, Machine
    <3> QED BY <2>2, <3>1 DEF Set
  <2>3. CASE Set("cp-sshd", "mv-sshd", "sshdOld", machine.sshd)
    <3>1. /\ machine'.sshd = machine.sshd /\ machine'.sshdOld = machine.sshd
          /\ machine'.daemon = machine.daemon /\ machine'.cloudInit = machine.cloudInit
      BY <2>3 DEF Set, TypeOK, Machine
    <3> QED BY <2>3, <3>1 DEF Set
  <2>4. CASE Set("mv-sshd", "restart", "sshd", "new")
    <3>1. /\ machine'.sshd = "new" /\ machine'.sshdOld = machine.sshdOld
          /\ machine'.daemon = machine.daemon /\ machine'.cloudInit = machine.cloudInit
      BY <2>4 DEF Set, TypeOK, Machine
    <3> QED BY <2>4, <3>1 DEF Set
  <2> QED BY <1>7, <2>1, <2>2, <2>3, <2>4 DEF ConfigureSSHD
<1>8. CASE RestartSSHD
  <2>1. CASE platform.restart = "nothing" /\ Skip("restart", "keys")
    BY <2>1 DEF Skip
  <2>2. CASE Set("restart", "keys", "daemon", machine.sshd)
    <3>1. /\ machine'.sshd = machine.sshd /\ machine'.sshdOld = machine.sshdOld
          /\ machine'.daemon = machine.sshd /\ machine'.cloudInit = machine.cloudInit
      BY <2>2 DEF Set, TypeOK, Machine
    <3> QED BY <2>2, <3>1 DEF Set
  <2> QED BY <1>8, <2>1, <2>2 DEF RestartSSHD
<1> QED BY <1>1, <1>2, <1>3, <1>6, <1>7, <1>8, SectionActions

-----------------------------------------------------------------------------
(* The keys *)

\* The keys of a run are made one after the other, each of another type.
LEMMA MadeKeysGrow ==
    /\ MadeKeys(0) = {}
    /\ \A n \in 0 .. 2 :
         /\ MadeKeys(n + 1) = MadeKeys(n) \cup {[type |-> NewKeys[n + 1], by |-> run]}
         /\ [type |-> NewKeys[n + 1], by |-> run] \notin MadeKeys(n)
<1>1. MadeKeys(0) = {}
  BY DEF MadeKeys
<1>2. ASSUME NEW n \in 0 .. 2
      PROVE  MadeKeys(n + 1) = MadeKeys(n) \cup {[type |-> NewKeys[n + 1], by |-> run]}
  <2>1. 1 .. n + 1 = (1 .. n) \cup {n + 1}
    OBVIOUS
  <2> QED BY <2>1 DEF MadeKeys
<1>3. ASSUME NEW n \in 0 .. 2
      PROVE  [type |-> NewKeys[n + 1], by |-> run] \notin MadeKeys(n)
  <2>1. \A i \in 1 .. n : NewKeys[i] # NewKeys[n + 1]
    BY DEF NewKeys
  <2> QED BY <2>1 DEF MadeKeys
<1> QED BY <1>1, <1>2, <1>3

\* So the number of them tells which is the next.
LEMMA MadeKeysCount ==
    \A n \in 0 .. 2 : IsFiniteSet(MadeKeys(n)) /\ Cardinality(MadeKeys(n)) = n
<1>0. IsFiniteSet(MadeKeys(0)) /\ Cardinality(MadeKeys(0)) = 0
  BY MadeKeysGrow, FS_EmptySet
<1>1. IsFiniteSet(MadeKeys(1)) /\ Cardinality(MadeKeys(1)) = 1
  <2>1. /\ MadeKeys(0 + 1) = MadeKeys(0) \cup {[type |-> NewKeys[0 + 1], by |-> run]}
        /\ [type |-> NewKeys[0 + 1], by |-> run] \notin MadeKeys(0)
    BY MadeKeysGrow
  <2> QED BY <1>0, <2>1, FS_AddElement
<1>2. IsFiniteSet(MadeKeys(2)) /\ Cardinality(MadeKeys(2)) = 2
  <2>1. /\ MadeKeys(1 + 1) = MadeKeys(1) \cup {[type |-> NewKeys[1 + 1], by |-> run]}
        /\ [type |-> NewKeys[1 + 1], by |-> run] \notin MadeKeys(1)
    BY MadeKeysGrow
  <2> QED BY <1>1, <2>1, FS_AddElement
<1>3. ASSUME NEW n \in 0 .. 2  PROVE n = 0 \/ n = 1 \/ n = 2
  OBVIOUS
<1> QED BY <1>0, <1>1, <1>2, <1>3

\* Moving a key keeps it in the backup; the next key made is of the next type.
LEMMA KeysStep ==
    ASSUME TypeOK, KeysInv, [Next]_vars
    PROVE  KeysInv'
<1>1. CASE pc \notin KeysSteps
  <2>1. Keeps({"keys", "backup"}) /\ made' = made
    BY <1>1, FrameStep DEF Frame
  <2>2. /\ pc' \notin {"mv-keys", "ssh-keygen", "restart-again"}
        /\ pc' = "end" => pc = "end"
    BY <1>1, FrameStep DEF Frame, TypeOK, HostnameSteps, IDSteps, AgentSteps,
       SSHSteps, SSHDSteps, KeysSteps
  <2>3. pc' \notin {"off", "end"} => "keys?" \notin consent'
    <3>1. CASE pc = "off"
      BY <3>1, FrameStep DEF Frame
    <3>2. CASE pc = "end"
      BY <3>2, FrameStep DEF Frame
    <3>3. CASE pc \notin {"off", "end"}
      BY <1>1, <3>3, FrameStep DEF Frame, KeysInv, KeysSteps
    <3> QED BY <3>1, <3>2, <3>3
  <2>4. pc = "end" /\ "keys?" \in consent' => "keys?" \in consent /\ run' = run
    BY FrameStep DEF Frame
  <2> QED BY <2>1, <2>2, <2>3, <2>4 DEF Keeps, KeysInv, KeysKept, MadeKeys
<1>2. CASE UNCHANGED vars
  BY <1>2 DEF vars, KeysInv, KeysKept, MadeKeys
<1>3. CASE Stop
  BY <1>3 DEF Stop, KeysInv, KeysKept
<1> USE DEF Goto
<1>4. CASE OfferKeys
  BY <1>4 DEF OfferKeys, Ask, Skip, KeysInv, KeysKept
<1>5. CASE BackUpKeys
  <2>1. ASSUME NEW k \in machine.keys, pc = "mv-keys", pc' = "mv-keys",
               machine' = [machine EXCEPT !.keys = @ \ {k}, !.backup = @ \cup {k}],
               made' = made
        PROVE  KeysInv'
    <3>1. machine'.keys = machine.keys \ {k} /\ machine'.backup = machine.backup \cup {k}
      BY <2>1 DEF TypeOK, Machine
    <3> QED BY <2>1, <3>1 DEF KeysInv, KeysKept
  <2>2. CASE machine.keys = {} /\ Skip("mv-keys", "ssh-keygen")
    BY <2>2, MadeKeysGrow DEF Skip, KeysInv, KeysKept, MadeKeys
  <2> QED BY <1>5, <2>1, <2>2 DEF BackUpKeys
<1>6. CASE GenerateKeys
  <2>1. PICK n \in 0 .. 2 : machine.keys = MadeKeys(n)
    BY <1>6 DEF GenerateKeys, KeysInv
  <2>2. Cardinality(machine.keys) = n
    BY <2>1, MadeKeysCount
  <2> DEFINE k == [type |-> NewKeys[n + 1], by |-> run]
  <2>3. /\ machine' = [machine EXCEPT !.keys = @ \cup {k}] /\ made' = made \cup {k}
        /\ pc' = (IF n + 1 < 3 THEN "ssh-keygen" ELSE "restart-again") /\ run' = run
    BY <1>6, <2>2 DEF GenerateKeys, NewKeys
  <2>4. machine'.keys = machine.keys \cup {k} /\ machine'.backup = machine.backup
    BY <2>3 DEF TypeOK, Machine
  <2>5. machine'.keys = MadeKeys(n + 1)
    BY <2>1, <2>4, MadeKeysGrow
  <2>6. MadeKeys(n + 1) = MadeKeys(n + 1)'
    BY <2>3 DEF MadeKeys
  <2>7. CASE n + 1 < 3
    <3>1. n + 1 \in 0 .. 2 /\ pc' = "ssh-keygen"
      BY <2>3, <2>7
    <3>2. \E m \in 0 .. 2 : machine'.keys = MadeKeys(m)'
      BY <2>5, <2>6, <3>1
    <3> QED BY <2>3, <2>4, <3>1, <3>2 DEF KeysInv, KeysKept
  <2>8. CASE ~(n + 1 < 3)
    <3>1. n + 1 = 3 /\ pc' = "restart-again"
      BY <2>3, <2>8
    <3>2. machine'.keys = MadeKeys(3)'
      BY <2>5, <2>6, <3>1
    <3> QED BY <2>3, <2>4, <3>1, <3>2 DEF KeysInv, KeysKept
  <2> QED BY <2>7, <2>8
<1>7. CASE RestartAgain
  <2>1. /\ machine'.keys = machine.keys /\ machine'.backup = machine.backup
        /\ made' = made /\ pc = "restart-again" /\ pc' = "end" /\ run' = run
    BY <1>7 DEF RestartAgain, Skip, Set, TypeOK, Machine
  <2> QED BY <2>1 DEF KeysInv, KeysKept, MadeKeys
<1> QED BY <1>1, <1>2, <1>3, <1>4, <1>5, <1>6, <1>7, SectionActions

-----------------------------------------------------------------------------
(* The types *)

\* Every step keeps the types.
LEMMA TypeStep ==
    ASSUME TypeOK, AgentInv, KeysInv, [Next]_vars
    PROVE  TypeOK'
<1>1. platform' \in Platforms
  BY FrameStep DEF Frame, TypeOK
<1>2. pc' \in {"off", "end"} \cup HostnameSteps \cup IDSteps \cup AgentSteps
              \cup SSHSteps \cup SSHDSteps \cup KeysSteps
  BY FrameStep DEF Frame, TypeOK, HostnameSteps, IDSteps, AgentSteps, SSHSteps,
     SSHDSteps, KeysSteps
<1>3. opts' \in Options /\ run' \in 0 .. MaxRuns
  <2>1. CASE Start
    <3>1. run \in 0 .. MaxRuns /\ run < MaxRuns /\ run' = run + 1 /\ opts' \in Options
      BY <2>1 DEF Start, TypeOK
    <3>2. \A r \in 0 .. MaxRuns : r < MaxRuns => r + 1 \in 0 .. MaxRuns
      BY RunsAssumption
    <3> QED BY <3>1, <3>2
  <2> USE DEF TypeOK, Set, Ask, Skip, Goto
  <2>0. CASE UNCHANGED vars
    BY <2>0 DEF vars
  <2>2. CASE Stop
    BY <2>2 DEF Stop
  <2>3. CASE Finish
    BY <2>3 DEF Finish
  <2>4. CASE CompareHostname
    BY <2>4 DEF CompareHostname
  <2>5. CASE KeepHostname
    BY <2>5 DEF KeepHostname
  <2>6. CASE ChangeHostname
    BY <2>6 DEF ChangeHostname
  <2>7. CASE SkipMachineID
    BY <2>7 DEF SkipMachineID
  <2>8. CASE OfferMachineID
    BY <2>8 DEF OfferMachineID
  <2>9. CASE ResetMachineID
    BY <2>9 DEF ResetMachineID
  <2>10. CASE ResetDBusID
    BY <2>10 DEF ResetDBusID
  <2>11. CASE ResetHostID
    BY <2>11 DEF ResetHostID
  <2>12. CASE FindAgent
    BY <2>12 DEF FindAgent
  <2>13. CASE InstallAgent
    BY <2>13 DEF InstallAgent
  <2>14. CASE KeepAgentOriginal
    BY <2>14 DEF KeepAgentOriginal
  <2>15. CASE ConfigureAgent
    BY <2>15 DEF ConfigureAgent
  <2>16. CASE CompareSSH
    BY <2>16 DEF CompareSSH
  <2>17. CASE ConfigureSSH
    BY <2>17 DEF ConfigureSSH
  <2>18. CASE CompareSSHD
    BY <2>18 DEF CompareSSHD
  <2>19. CASE ConfigureSSHD
    BY <2>19 DEF ConfigureSSHD
  <2>20. CASE RestartSSHD
    BY <2>20 DEF RestartSSHD
  <2>21. CASE OfferKeys
    BY <2>21 DEF OfferKeys
  <2>22. CASE BackUpKeys
    BY <2>22 DEF BackUpKeys
  <2>23. CASE GenerateKeys
    BY <2>23 DEF GenerateKeys
  <2>24. CASE RestartAgain
    BY <2>24 DEF RestartAgain
  <2> QED
    BY <2>0, <2>1, <2>2, <2>3, <2>4, <2>5, <2>6, <2>7, <2>8, <2>9, <2>10,
       <2>11, <2>12, <2>13, <2>14, <2>15, <2>16, <2>17, <2>18, <2>19, <2>20,
       <2>21, <2>22, <2>23, <2>24 DEF Next
<1>4. applyChanges' \in {"", "yes", "no"} /\ differences' \in 0 .. 2
  <2>1. CASE Start
    <3>1. applyChanges' \in {"", "yes", "no"}
      BY <2>1 DEF Start
    <3>2. differences' = 0
      BY <2>1 DEF Start
    <3>3. differences' \in 0 .. 2
      BY <3>2
    <3> QED BY <3>1, <3>3
  <2> USE DEF TypeOK, Set, Ask, Skip, Goto
  <2>0. CASE UNCHANGED vars
    BY <2>0 DEF vars
  <2>2. CASE Stop
    BY <2>2 DEF Stop
  <2>3. CASE Finish
    BY <2>3 DEF Finish
  <2>4. CASE CompareHostname
    BY <2>4, HostsDiffer DEF CompareHostname
  <2>5. CASE KeepHostname
    BY <2>5 DEF KeepHostname
  <2>6. CASE ChangeHostname
    BY <2>6 DEF ChangeHostname
  <2>7. CASE SkipMachineID
    BY <2>7 DEF SkipMachineID
  <2>8. CASE OfferMachineID
    BY <2>8 DEF OfferMachineID
  <2>9. CASE ResetMachineID
    BY <2>9 DEF ResetMachineID
  <2>10. CASE ResetDBusID
    BY <2>10 DEF ResetDBusID
  <2>11. CASE ResetHostID
    BY <2>11 DEF ResetHostID
  <2>12. CASE FindAgent
    BY <2>12 DEF FindAgent
  <2>13. CASE InstallAgent
    BY <2>13 DEF InstallAgent
  <2>14. CASE KeepAgentOriginal
    BY <2>14 DEF KeepAgentOriginal
  <2>15. CASE ConfigureAgent
    BY <2>15 DEF ConfigureAgent
  <2>16. CASE CompareSSH
    BY <2>16 DEF CompareSSH
  <2>17. CASE ConfigureSSH
    BY <2>17 DEF ConfigureSSH
  <2>18. CASE CompareSSHD
    BY <2>18, SSHDDiffer DEF CompareSSHD
  <2>19. CASE ConfigureSSHD
    BY <2>19 DEF ConfigureSSHD
  <2>20. CASE RestartSSHD
    BY <2>20 DEF RestartSSHD
  <2>21. CASE OfferKeys
    BY <2>21 DEF OfferKeys
  <2>22. CASE BackUpKeys
    BY <2>22 DEF BackUpKeys
  <2>23. CASE GenerateKeys
    BY <2>23 DEF GenerateKeys
  <2>24. CASE RestartAgain
    BY <2>24 DEF RestartAgain
  <2> QED
    BY <2>0, <2>1, <2>2, <2>3, <2>4, <2>5, <2>6, <2>7, <2>8, <2>9, <2>10,
       <2>11, <2>12, <2>13, <2>14, <2>15, <2>16, <2>17, <2>18, <2>19, <2>20,
       <2>21, <2>22, <2>23, <2>24 DEF Next
<1>5. stopped' \in BOOLEAN
  BY DEF TypeOK, Next, vars, Set, Ask, Skip, Goto, Start, Stop, Finish,
     CompareHostname, KeepHostname, ChangeHostname, SkipMachineID,
     OfferMachineID, ResetMachineID, ResetDBusID, ResetHostID, FindAgent,
     InstallAgent, KeepAgentOriginal, ConfigureAgent, CompareSSH, ConfigureSSH,
     CompareSSHD, ConfigureSSHD, RestartSSHD, OfferKeys, BackUpKeys,
     GenerateKeys, RestartAgain
<1>6. machine' \in Machine /\ made' \subseteq Key
  <2>0. CASE machine' = machine /\ made' = made
    BY <2>0 DEF TypeOK
  <2> USE DEF Set, Ask, Skip, Goto
  <2>1. CASE Start
    BY <2>0, <2>1 DEF Start
  <2>2. CASE Stop
    BY <2>0, <2>2 DEF Stop
  <2>3. CASE Finish
    BY <2>0, <2>3 DEF Finish
  <2>4. CASE CompareHostname
    BY <2>0, <2>4 DEF CompareHostname
  <2>5. CASE KeepHostname
    BY <2>0, <2>5 DEF KeepHostname
  <2>6. CASE ChangeHostname
    <3>1. CASE Set("mv-hosts", "mv-hostname", "hosts", "new")
      BY <3>1 DEF TypeOK, Machine, Texts
    <3>2. CASE Set("mv-hostname", "hostnamectl", "hostname", "new")
      BY <3>2 DEF TypeOK, Machine, Texts
    <3>3. CASE Set("hostnamectl", "machineID", "name", "new")
      BY <3>3 DEF TypeOK, Machine, Texts
    <3> QED BY <2>0, <2>6, <3>1, <3>2, <3>3 DEF ChangeHostname
  <2>7. CASE SkipMachineID
    BY <2>0, <2>7 DEF SkipMachineID
  <2>8. CASE OfferMachineID
    BY <2>0, <2>8 DEF OfferMachineID
  <2>9. CASE ResetMachineID
    <3>1. CASE Set("rm-machine-id", "dbus-uuidgen", "machineID", None)
      BY <3>1 DEF TypeOK, Machine, Texts
    <3>2. CASE Set("rm-machine-id", "dbus", "machineID", "empty")
      BY <3>2 DEF TypeOK, Machine, Texts
    <3>3. CASE Set("dbus-uuidgen", "dbus", "machineID", "new")
      BY <3>3 DEF TypeOK, Machine, Texts
    <3> QED BY <2>0, <2>9, <3>1, <3>2, <3>3 DEF ResetMachineID
  <2>10. CASE ResetDBusID
    <3>1. CASE Set("dbus", "ln-dbus", "dbusID", None)
      BY <3>1 DEF TypeOK, Machine, Texts
    <3>2. CASE Set("ln-dbus", "popularity", "dbusID", "link")
      BY <3>2 DEF TypeOK, Machine, Texts
    <3> QED BY <2>0, <2>10, <3>1, <3>2 DEF ResetDBusID
  <2>11. CASE ResetHostID
    <3>1. CASE Set("popularity", "zabbix", "hostID", "new")
      BY <3>1 DEF TypeOK, Machine, Texts
    <3> QED BY <2>0, <2>11, <3>1 DEF ResetHostID
  <2>12. CASE FindAgent
    BY <2>0, <2>12 DEF FindAgent
  <2>13. CASE InstallAgent
    <3>2. CASE Set("install", "zabbix.orig", "zabbix", "default")
      <4>1. "default" \in Configs
        BY DEF Configs
      <4> QED BY <3>2, <4>1 DEF TypeOK, Machine
    <3> QED BY <2>0, <2>13, <3>2 DEF InstallAgent
  <2>14. CASE KeepAgentOriginal
    <3>1. CASE Set("zabbix.orig", "zabbix.new", "zabbixOrig", machine.zabbix)
      BY <3>1 DEF TypeOK, Machine, Texts
    <3> QED BY <2>0, <2>14, <3>1 DEF KeepAgentOriginal
  <2>15. CASE ConfigureAgent
    <3>2. CASE Set("cp-zabbix", "mv-zabbix", "zabbixOld", machine.zabbix)
      BY <3>2 DEF TypeOK, Machine
    <3>3. CASE Set("mv-zabbix", "ssh", "zabbix", opts.zabbix)
      <4>1. opts.zabbix \in Configs
        BY <3>3, OptionAssumption DEF Option, Configs, AgentInv, AgentSteps, TypeOK
      <4> QED BY <3>3, <4>1 DEF TypeOK, Machine
    <3> QED BY <2>0, <2>15, <3>2, <3>3 DEF ConfigureAgent
  <2>16. CASE CompareSSH
    BY <2>0, <2>16 DEF CompareSSH
  <2>17. CASE ConfigureSSH
    <3>1. CASE Set("cp-ssh", "mv-ssh", "sshOld", machine.ssh)
      BY <3>1 DEF TypeOK, Machine, Texts
    <3>2. CASE Set("mv-ssh", "sshd", "ssh", "new")
      BY <3>2 DEF TypeOK, Machine, Texts
    <3> QED BY <2>0, <2>17, <3>1, <3>2 DEF ConfigureSSH
  <2>18. CASE CompareSSHD
    BY <2>0, <2>18 DEF CompareSSHD
  <2>19. CASE ConfigureSSHD
    <3>1. CASE Set("rm-cloud-init", "cp-sshd", "cloudInit", FALSE)
      BY <3>1 DEF TypeOK, Machine, Texts
    <3>2. CASE Set("cp-sshd", "mv-sshd", "sshdOld", machine.sshd)
      BY <3>2 DEF TypeOK, Machine, Texts
    <3>3. CASE Set("mv-sshd", "restart", "sshd", "new")
      BY <3>3 DEF TypeOK, Machine, Texts
    <3> QED BY <2>0, <2>19, <3>1, <3>2, <3>3 DEF ConfigureSSHD
  <2>20. CASE RestartSSHD
    <3>1. CASE Set("restart", "keys", "daemon", machine.sshd)
      BY <3>1 DEF TypeOK, Machine, Texts
    <3> QED BY <2>0, <2>20, <3>1 DEF RestartSSHD
  <2>21. CASE OfferKeys
    BY <2>0, <2>21 DEF OfferKeys
  <2>22. CASE BackUpKeys
    <3>1. ASSUME NEW k \in machine.keys,
                 machine' = [machine EXCEPT !.keys = @ \ {k}, !.backup = @ \cup {k}]
          PROVE  machine' \in Machine
      BY <3>1 DEF TypeOK, Machine
    <3> QED BY <2>0, <2>22, <3>1 DEF BackUpKeys, TypeOK
  <2>23. CASE GenerateKeys
    <3>1. PICK n \in 0 .. 2 : machine.keys = MadeKeys(n)
      BY <2>23 DEF GenerateKeys, KeysInv
    <3>2. Cardinality(machine.keys) = n
      BY <3>1, MadeKeysCount
    <3> DEFINE k == [type |-> NewKeys[n + 1], by |-> run]
    <3>3. machine' = [machine EXCEPT !.keys = @ \cup {k}] /\ made' = made \cup {k}
      BY <2>23, <3>2 DEF GenerateKeys
    <3>4. NewKeys[n + 1] \in KeyTypes
      <4>1. n + 1 \in DOMAIN NewKeys
        BY DEF NewKeys
      <4> QED BY <4>1, KeysAssumption
    <3>5. k \in Key
      BY <3>4 DEF Key, TypeOK
    <3> HIDE DEF k
    <3> QED BY <3>3, <3>5 DEF TypeOK, Machine
  <2>24. CASE RestartAgain
    <3>1. CASE Set("restart-again", "end", "daemon", machine.sshd)
      BY <3>1 DEF TypeOK, Machine, Texts
    <3> QED BY <2>0, <2>24, <3>1 DEF RestartAgain
  <2>25. CASE UNCHANGED vars
    BY <2>0, <2>25 DEF vars
  <2> QED
    BY <2>1, <2>2, <2>3, <2>4, <2>5, <2>6, <2>7, <2>8, <2>9, <2>10, <2>11,
       <2>12, <2>13, <2>14, <2>15, <2>16, <2>17, <2>18, <2>19, <2>20, <2>21,
       <2>22, <2>23, <2>24, <2>25 DEF Next
<1> QED BY <1>1, <1>2, <1>3, <1>4, <1>5, <1>6 DEF TypeOK

-----------------------------------------------------------------------------
(* The questions *)

\* Every command of a section comes after a yes to its question.
LEMMA ConsentStep ==
    ASSUME TypeOK, ConsentInv, [Next]_vars
    PROVE  ConsentInv'
<1> USE DEF ConsentInv, TypeOK, Set, Ask, Skip, Goto, HostnameSteps, IDSteps,
            AgentSteps, SSHSteps, SSHDSteps, KeysSteps
<1>0. CASE UNCHANGED vars
  BY <1>0 DEF vars
<1>1. CASE Start
  BY <1>1 DEF Start
<1>2. CASE Stop
  BY <1>2 DEF Stop
<1>3. CASE Finish
  BY <1>3 DEF Finish
<1>4. CASE CompareHostname
  BY <1>4 DEF CompareHostname
<1>5. CASE KeepHostname
  BY <1>5 DEF KeepHostname
<1>6. CASE ChangeHostname
  BY <1>6 DEF ChangeHostname
<1>7. CASE SkipMachineID
  BY <1>7 DEF SkipMachineID
<1>8. CASE OfferMachineID
  BY <1>8 DEF OfferMachineID
<1>9. CASE ResetMachineID
  BY <1>9 DEF ResetMachineID
<1>10. CASE ResetDBusID
  BY <1>10 DEF ResetDBusID
<1>11. CASE ResetHostID
  BY <1>11 DEF ResetHostID
<1>12. CASE FindAgent
  BY <1>12 DEF FindAgent
<1>13. CASE InstallAgent
  BY <1>13 DEF InstallAgent
<1>14. CASE KeepAgentOriginal
  BY <1>14 DEF KeepAgentOriginal
<1>15. CASE ConfigureAgent
  BY <1>15 DEF ConfigureAgent
<1>16. CASE CompareSSH
  BY <1>16 DEF CompareSSH
<1>17. CASE ConfigureSSH
  BY <1>17 DEF ConfigureSSH
<1>18. CASE CompareSSHD
  BY <1>18 DEF CompareSSHD
<1>19. CASE ConfigureSSHD
  BY <1>19 DEF ConfigureSSHD
<1>20. CASE RestartSSHD
  BY <1>20 DEF RestartSSHD
<1>21. CASE OfferKeys
  BY <1>21 DEF OfferKeys
<1>22. CASE BackUpKeys
  BY <1>22 DEF BackUpKeys
<1>23. CASE GenerateKeys
  BY <1>23 DEF GenerateKeys
<1>24. CASE RestartAgain
  BY <1>24 DEF RestartAgain
<1> QED
  BY <1>0, <1>1, <1>2, <1>3, <1>4, <1>5, <1>6, <1>7, <1>8, <1>9, <1>10,
     <1>11, <1>12, <1>13, <1>14, <1>15, <1>16, <1>17, <1>18, <1>19, <1>20,
     <1>21, <1>22, <1>23, <1>24 DEF Next

\* What a step changes has been agreed to in the question of its section.
LEMMA RequestStep ==
    ASSUME TypeOK, ConsentInv, AgentInv, [Next]_vars
    PROVE  Requested
<1>1. ASSUME Changed({"hosts", "hostname", "name"})  PROVE "hostname?" \in consent
  <2>1. pc \in HostnameSteps /\ machine' # machine
    BY <1>1, FrameStep DEF Frame, Keeps, Changed
  <2> USE <1>1, <2>1 DEF ConsentInv, TypeOK, Machine, Changed, Set, Ask,
     Skip, Goto, HostnameSteps
  <2>2. CASE CompareHostname
    BY <2>2 DEF CompareHostname
  <2>3. CASE KeepHostname
    BY <2>3 DEF KeepHostname
  <2>4. CASE ChangeHostname
    BY <2>4 DEF ChangeHostname
  <2> QED BY <2>2, <2>3, <2>4, SectionActions DEF Stop, vars
<1>2. ASSUME Changed({"machineID", "dbusID", "hostID"})  PROVE "machineID?" \in consent
  <2>1. pc \in IDSteps /\ machine' # machine
    BY <1>2, FrameStep DEF Frame, Keeps, Changed
  <2> USE <1>2, <2>1 DEF ConsentInv, TypeOK, Machine, Changed, Set, Ask,
     Skip, Goto, IDSteps
  <2>2. CASE SkipMachineID
    BY <2>2 DEF SkipMachineID
  <2>3. CASE OfferMachineID
    BY <2>3 DEF OfferMachineID
  <2>4. CASE ResetMachineID
    BY <2>4 DEF ResetMachineID
  <2>5. CASE ResetDBusID
    BY <2>5 DEF ResetDBusID
  <2>6. CASE ResetHostID
    BY <2>6 DEF ResetHostID
  <2> QED BY <2>2, <2>3, <2>4, <2>5, <2>6, SectionActions DEF Stop, vars
<1>3. ASSUME Changed({"zabbixOld"})  PROVE "zabbix?" \in consent
  <2>1. pc \in AgentSteps /\ machine' # machine
    BY <1>3, FrameStep DEF Frame, Keeps, Changed
  <2> USE <1>3, <2>1 DEF ConsentInv, TypeOK, Machine, Changed, Set, Ask,
     Skip, Goto, AgentSteps
  <2>2. CASE FindAgent
    BY <2>2 DEF FindAgent
  <2>3. CASE InstallAgent
    BY <2>3 DEF InstallAgent
  <2>4. CASE KeepAgentOriginal
    BY <2>4 DEF KeepAgentOriginal
  <2>5. CASE ConfigureAgent
    BY <2>5 DEF ConfigureAgent
  <2> QED BY <2>2, <2>3, <2>4, <2>5, SectionActions DEF Stop, vars
<1>7. ASSUME Changed({"zabbix"})
      PROVE "zabbix?" \in consent \/ (opts.install /\ machine.zabbix = None)
  <2>1. pc \in AgentSteps /\ machine' # machine
    BY <1>7, FrameStep DEF Frame, Keeps, Changed
  <2> USE <1>7, <2>1 DEF ConsentInv, AgentInv, TypeOK, Machine, Changed, Set, Ask,
     Skip, Goto, AgentSteps
  <2>2. CASE FindAgent
    BY <2>2 DEF FindAgent
  <2>3. CASE InstallAgent
    BY <2>3 DEF InstallAgent
  <2>4. CASE KeepAgentOriginal
    BY <2>4 DEF KeepAgentOriginal
  <2>5. CASE ConfigureAgent
    BY <2>5 DEF ConfigureAgent
  <2> QED BY <2>2, <2>3, <2>4, <2>5, SectionActions DEF Stop, vars
<1>8. ASSUME Changed({"zabbixOrig"})
      PROVE  /\ opts.zabbix # ""
             /\ machine.zabbixOrig = None /\ machine'.zabbixOrig = machine.zabbix
  <2>1. pc \in AgentSteps /\ machine' # machine
    BY <1>8, FrameStep DEF Frame, Keeps, Changed
  <2> USE <1>8, <2>1 DEF TypeOK, Machine, Changed, Set, Ask, Skip, Goto, AgentSteps
  <2>2. CASE FindAgent
    BY <2>2 DEF FindAgent
  <2>3. CASE InstallAgent
    BY <2>3 DEF InstallAgent
  <2>4. CASE KeepAgentOriginal
    <3>1. pc = "zabbix.orig" /\ opts.zabbix # ""
      BY <2>4 DEF KeepAgentOriginal, AgentInv
    <3> QED BY <2>4, <3>1 DEF KeepAgentOriginal
  <2>5. CASE ConfigureAgent
    BY <2>5 DEF ConfigureAgent
  <2> QED BY <2>2, <2>3, <2>4, <2>5, SectionActions DEF Stop, vars
<1>9. ASSUME Changed({"daemon"})  PROVE consent \cap {"sshd?", "keys?"} # {}
  <2>1. pc \in {"restart", "restart-again"}
    BY <1>9, FrameStep DEF Frame, Keeps, Changed
  <2> QED BY <2>1 DEF ConsentInv
<1>4. ASSUME Changed({"ssh", "sshOld"})  PROVE "ssh?" \in consent
  <2>1. pc \in SSHSteps /\ machine' # machine
    BY <1>4, FrameStep DEF Frame, Keeps, Changed
  <2> USE <1>4, <2>1 DEF ConsentInv, TypeOK, Machine, Changed, Set, Ask,
     Skip, Goto, SSHSteps
  <2>2. CASE CompareSSH
    BY <2>2 DEF CompareSSH
  <2>3. CASE ConfigureSSH
    BY <2>3 DEF ConfigureSSH
  <2> QED BY <2>2, <2>3, SectionActions DEF Stop, vars
<1>5. ASSUME Changed({"sshd", "sshdOld", "cloudInit"})  PROVE "sshd?" \in consent
  <2>1. pc \in SSHDSteps /\ machine' # machine
    BY <1>5, FrameStep DEF Frame, Keeps, Changed
  <2> USE <1>5, <2>1 DEF ConsentInv, TypeOK, Machine, Changed, Set, Ask,
     Skip, Goto, SSHDSteps
  <2>2. CASE CompareSSHD
    BY <2>2 DEF CompareSSHD
  <2>3. CASE ConfigureSSHD
    BY <2>3 DEF ConfigureSSHD
  <2>4. CASE RestartSSHD
    BY <2>4 DEF RestartSSHD
  <2> QED BY <2>2, <2>3, <2>4, SectionActions DEF Stop, vars
<1>6. ASSUME Changed({"keys", "backup"})  PROVE "keys?" \in consent
  <2>1. pc \in KeysSteps /\ machine' # machine
    BY <1>6, FrameStep DEF Frame, Keeps, Changed
  <2> USE <1>6, <2>1 DEF ConsentInv, TypeOK, Machine, Changed, Set, Ask,
     Skip, Goto, KeysSteps
  <2>2. CASE OfferKeys
    BY <2>2 DEF OfferKeys
  <2>3. CASE BackUpKeys
    BY <2>3 DEF BackUpKeys
  <2>4. CASE GenerateKeys
    BY <2>4 DEF GenerateKeys
  <2>5. CASE RestartAgain
    BY <2>5 DEF RestartAgain
  <2> QED BY <2>2, <2>3, <2>4, <2>5, SectionActions DEF Stop, vars
<1> QED BY <1>1, <1>2, <1>3, <1>4, <1>5, <1>6, <1>7, <1>8, <1>9 DEF Requested

-----------------------------------------------------------------------------
(* The invariant holds *)

\* A machine is as it came: what there is is old, and none of it was made here.
LEMMA InitInv == Init => IInv
<1> SUFFICES ASSUME Init  PROVE IInv
  OBVIOUS
<1>1. \A file : Original(file) \in {"old", None}
  BY DEF Original
<1>2. /\ machine.hosts = "old" /\ machine.name = "old"
      /\ machine.hostname = Original("hostname")
      /\ machine.machineID = Original("machineID")
      /\ machine.dbusID = Original("dbusID") /\ machine.hostID = Original("hostID")
      /\ machine.zabbix \in {"default", None} /\ machine.zabbixOrig = None
      /\ machine.zabbixOld = None
      /\ machine.ssh = Original("ssh") /\ machine.sshOld = None
      /\ machine.sshd = Original("sshd") /\ machine.sshdOld = None
      /\ machine.daemon = Original("sshd")
      /\ machine.cloudInit = ("cloudInit" \in platform.has)
      /\ machine.keys = [type : KeyTypes, by : {0}] /\ machine.backup = {}
  BY DEF Init
<1>3. machine \in Machine
  <2>1. machine.keys \in SUBSET Key
    <3>1. 0 \in 0 .. MaxRuns
      BY RunsAssumption
    <3> QED BY <1>2, <3>1 DEF Key
  <2>2. machine = [hosts |-> machine.hosts, hostname |-> machine.hostname,
                   name |-> machine.name, machineID |-> machine.machineID,
                   dbusID |-> machine.dbusID, hostID |-> machine.hostID,
                   zabbix |-> machine.zabbix, zabbixOrig |-> machine.zabbixOrig,
                   zabbixOld |-> machine.zabbixOld, ssh |-> machine.ssh,
                   sshOld |-> machine.sshOld, sshd |-> machine.sshd,
                   sshdOld |-> machine.sshdOld, cloudInit |-> machine.cloudInit,
                   daemon |-> machine.daemon, keys |-> machine.keys,
                   backup |-> machine.backup]
    BY DEF Init
  <2>3. machine.cloudInit \in BOOLEAN
    BY <1>2
  <2>4. /\ machine.hosts \in Texts /\ machine.hostname \in Texts
        /\ machine.machineID \in Texts \cup {"empty"}
        /\ machine.dbusID \in {"old", "link", None} /\ machine.hostID \in Texts
        /\ machine.ssh \in Texts /\ machine.sshOld \in Texts
        /\ machine.sshd \in Texts /\ machine.sshdOld \in Texts
        /\ machine.daemon \in Texts
    BY <1>1, <1>2 DEF Texts
  <2>5. /\ machine.zabbix \in Configs /\ machine.zabbixOrig \in Configs
        /\ machine.zabbixOld \in Configs
    BY <1>2 DEF Configs
  <2>6. machine.name \in {"old", "new"} /\ machine.backup \in SUBSET Key
    BY <1>2
  <2> QED BY <2>1, <2>2, <2>3, <2>4, <2>5, <2>6 DEF Machine
<1>4. /\ pc = "off" /\ applyChanges = "" /\ differences = 0 /\ run = 0
      /\ consent = {} /\ made = machine.keys /\ stopped = FALSE
      /\ platform \in Platforms /\ opts \in Options
  BY DEF Init
<1>5. TypeOK
  <2>1. run \in 0 .. MaxRuns /\ differences \in 0 .. 2
    <3>1. 0 \in 0 .. MaxRuns /\ 0 \in 0 .. 2
      BY RunsAssumption
    <3>2. run = 0 /\ differences = 0
      BY <1>4
    <3> QED BY <3>1, <3>2
  <2>2. made \subseteq Key
    BY <1>3, <1>4 DEF Machine
  <2> QED BY <1>3, <1>4, <2>1, <2>2 DEF TypeOK
<1>6. "off" \notin FromKeys /\ "off" \notin FromSSHD /\ "off" \notin FromSSH
      /\ "off" \notin FromAgent /\ "off" \notin FromID
  BY Before
<1>7. ConsentInv
  BY <1>4 DEF ConsentInv, IDSteps
<1>8. AgentInv
  BY <1>2, <1>4, <1>6, NoneAssumption, ServersAssumption DEF AgentInv, AgentSteps
<1>9. SSHInv
  BY <1>2, <1>4, <1>6 DEF SSHInv, Original
<1>10. SSHDInv
  BY <1>2, <1>4, <1>6, NoneAssumption DEF SSHDInv, Original
<1>11. NameInv
  BY <1>2, <1>4, <1>6, NoneAssumption DEF NameInv
<1>12. IDInv
  BY <1>4, <1>6 DEF IDInv
<1>13. KeysInv
  BY <1>2, <1>4 DEF KeysInv, KeysKept
<1> QED BY <1>5, <1>7, <1>8, <1>9, <1>10, <1>11, <1>12, <1>13 DEF IInv

\* No step of the script violates the invariant.
LEMMA InvStep == IInv /\ [Next]_vars => IInv'
BY TypeStep, ConsentStep, AgentStep, SSHStep, SSHDStep, NameStep, IDStep, KeysStep
   DEF IInv

\* So it always holds, in every run.
LEMMA Invariance == Spec => []IInv
BY InitInv, InvStep, PTL DEF Spec

-----------------------------------------------------------------------------
(* What it implies *)

\* The machine's files, the answers and the counters have their types, and the
\* script is at one of its commands (lines 188 to 733).
THEOREM TypeCorrect == Spec => []TypeOK
<1>1. IInv => TypeOK
  BY DEF IInv
<1> QED BY <1>1, Invariance, PTL

\* In however many runs, and wherever they stop, no SSH host key is lost: each
\* is in /etc/ssh or in the backup of a run (lines 690 to 715).
THEOREM KeysAreKept == Spec => []KeysKept
<1>1. IInv => KeysKept
  BY DEF IInv, KeysInv
<1> QED BY <1>1, Invariance, PTL

\* In however many runs, and wherever they stop, the configuration the machine
\* came with is there, or a copy of it (lines 471, 491, 570 and 660).
THEOREM OriginalsAreKept == Spec => []OriginalsKept
<1>1. IInv => OriginalsKept
  BY DEF IInv, SSHInv, SSHDInv, AgentInv, OriginalsKept
<1> QED BY <1>1, Invariance, PTL

\* sshd is given, and started with, no configuration it has not accepted (line
\* 652).
THEOREM ConfigIsValid == Spec => []OnlyValidConfig
<1>1. IInv => OnlyValidConfig
  BY DEF IInv, SSHDInv, OnlyValidConfig
<1> QED BY <1>1, Invariance, PTL

\* A run that ends by itself, with a yes to every question, has done all that
\* its options ask for, unless a run was cut short before.
THEOREM RunCompletes == Spec => []Completed
<1>1. ASSUME IInv  PROVE Completed
  <2>1. ASSUME pc = "end"
        PROVE  /\ pc \in FromKeys /\ pc \in FromSSHD /\ pc \in FromSSH
               /\ pc \in FromAgent /\ pc \in FromID /\ pc # "restart"
    BY <2>1, Before DEF FromKeys
  <2>2. /\ TypeOK /\ NameInv /\ IDInv /\ AgentInv /\ SSHInv /\ SSHDInv
    BY <1>1 DEF IInv
  <2>3. machine.sshd \in {"old", "new", None}
    BY <2>2 DEF TypeOK, Machine, Texts
  <2> SUFFICES ASSUME pc = "end", opts.yes, ~stopped
               PROVE  Completed
    BY DEF Completed
  <2>4. opts.hostname =>
          machine.name = "new" /\ "old" \notin {machine.hosts, machine.hostname}
    BY <2>1, <2>2 DEF NameInv
  <2>5. ~opts.skipID => /\ machine.machineID # "old"
                        /\ machine.machineID # None => machine.dbusID # "old"
    BY <2>1, <2>2 DEF IDInv
  <2>6. opts.zabbix # "" => machine.zabbix = opts.zabbix
    BY <2>1, <2>2 DEF AgentInv
  <2>7. ~opts.skipSSH => machine.ssh # "old" /\ machine.sshd # "old"
    BY <2>1, <2>2 DEF SSHInv, SSHDInv
  <2>8. ~opts.skipSSH /\ "sshd" \in platform.has =>
          /\ ~machine.cloudInit
          /\ platform.restart # "nothing" => machine.daemon = "new"
    BY <2>1, <2>2, <2>3, <2>7 DEF SSHDInv
  <2> QED BY <2>4, <2>5, <2>6, <2>7, <2>8 DEF Completed
<1>2. IInv => Completed
  BY <1>1
<1> QED BY <1>2, Invariance, PTL

\* If new keys were asked for, a run that ends by itself leaves those it has
\* made and no others (lines 690 to 731).
THEOREM KeysAreReplaced == Spec => []KeysReplaced
<1>1. ASSUME IInv  PROVE KeysReplaced
  <2>1. MadeKeys(3) = [type : {NewKeys[i] : i \in DOMAIN NewKeys}, by : {run}]
    <3>1. DOMAIN NewKeys = 1 .. 3
      BY DEF NewKeys
    <3>2. ASSUME NEW k
          PROVE  k \in MadeKeys(3)
                   <=> k \in [type : {NewKeys[i] : i \in DOMAIN NewKeys}, by : {run}]
      BY <3>1 DEF MadeKeys
    <3> QED BY <3>2
  <2> QED BY <1>1, <2>1 DEF IInv, KeysInv, KeysReplaced
<1>2. IInv => KeysReplaced
  BY <1>1
<1> QED BY <1>2, Invariance, PTL

\* No file of the machine, nor its name, nor its daemon, changes without a yes,
\* in this run, to the question of the section (line 246); but the agent may be
\* installed by the option for it (line 457), and its original is copied, once,
\* before the question (lines 471 to 473).
THEOREM OnlyOnRequestHolds == Spec => OnlyOnRequest
<1>1. IInv /\ [Next]_vars => Requested
  BY RequestStep DEF IInv
<1> QED BY <1>1, Invariance, PTL DEF Spec, OnlyOnRequest

====
