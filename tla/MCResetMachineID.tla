--------------------------- MODULE MCResetMachineID ---------------------------
(***************************************************************************)
(* A small instance of ResetMachineID: two runs of the script, two         *)
(* Zabbix servers, and a host key of a type that is no longer made.        *)
(***************************************************************************)
EXTENDS ResetMachineID, TLC

MCServers == {"server1", "server2"}
MCKeyTypes == {"ed25519", "ecdsa", "rsa", "dsa"}

All == {"hostname", "machineID", "dbusID", "hostID", "zabbix", "ssh", "sshd",
        "cloudInit"}

\* A Debian without the agent, an Alpine without dbus-uuidgen, an OpenBSD
\* without a machine ID, one whose sshd is too old, and one without sshd.
MCPlatforms ==
    {[uuidgen |-> u, algorithms |-> TRUE, accepts |-> a, restart |-> r,
      has |-> All \ lacks] :
        <<u, a, r, lacks>> \in
          {<<TRUE, TRUE, "service", {"zabbix"}>>,
           <<FALSE, TRUE, "nothing", {"cloudInit", "hostID"}>>,
           <<TRUE, TRUE, "rcctl", {"hostname", "machineID", "hostID"}>>,
           <<TRUE, FALSE, "service", {"cloudInit"}>>,
           <<TRUE, TRUE, "service", {"sshd", "dbusID", "zabbix"}>>}}

\* Everything, with and without questions, and two parts of it.
MCOptions ==
    {[hostname |-> TRUE, skipID |-> FALSE, skipSSH |-> FALSE,
      skipKeys |-> FALSE, zabbix |-> "server1", install |-> TRUE, yes |-> y] :
        y \in BOOLEAN}
    \cup
    {[hostname |-> FALSE, skipID |-> TRUE, skipSSH |-> s, skipKeys |-> ~s,
      zabbix |-> IF s THEN "" ELSE "server2", install |-> FALSE, yes |-> TRUE] :
        s \in BOOLEAN}
=============================================================================
