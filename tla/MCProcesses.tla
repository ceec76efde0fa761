------------------------------ MODULE MCProcesses ------------------------------
(* The ts processes of one user: the daemon commands, the client commands, the  *)
(* edits of the config file and those of the hook list.  They share no process  *)
(* and no file, so each behaviour is of one kind only.                          *)
EXTENDS DaemonProcess, ClientProcess, ConfigStore, HookStore, TLC

VARIABLE part      \* which kind

\* A name with a space before it, a blank one and one of two lines.
MCTrimmed == [n \in Names |-> CASE n = " plugin-local" -> "plugin-local"
                                [] n = " " -> ""
                                [] OTHER -> n]

ProcessesInit ==
    /\ ProcessInit
    /\ ClientInit
    /\ HookInit
    /\ part \in {"daemon", "client", "config", "hooks"}
    /\ ConfigInit
    /\ part # "config" => file = NoFile

ProcessesNext ==
    /\ UNCHANGED part
    /\ \/ part = "daemon" /\ ProcessNext
          /\ UNCHANGED <<clientVars, configVars, hookVars>>
       \/ part = "client" /\ ClientNext
          /\ UNCHANGED <<processVars, configVars, hookVars>>
       \/ part = "config" /\ ConfigNext
          /\ UNCHANGED <<processVars, clientVars, hookVars>>
       \/ part = "hooks" /\ HookNext
          /\ UNCHANGED <<processVars, clientVars, configVars>>

ProcessesSpec ==
    ProcessesInit
    /\ [][ProcessesNext]_<<processVars, clientVars, configVars, hookVars, part>>

\* The daemon and the client part number their processes with Pids.
ProcessesSymmetry == Permutations(Pids)

\* A stop or a status that says no daemon, or no client, runs is right; and the
\* files, the process tables and the commands hold what their modules say.
NotDenied ==
    /\ part = "daemon" => DaemonProcessTypeOK /\ DaemonNotDenied
    /\ part = "client" => ClientTypeOK /\ ClientNotDenied
    /\ part = "config" => ConfigTypeOK
    /\ part = "hooks" => HookTypeOK

================================================================================
