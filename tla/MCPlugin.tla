------------------------------- MODULE MCPlugin -------------------------------
(* The plugin, from its installation to a command it executes, each behaviour one  *)
(* of these: the runs that install, update and remove it with the rest of ts, the  *)
(* TeamSpeak clients that load and unload it, the media bridge of one loaded       *)
(* plugin with its consumers, and the exchange of one command with it.  The four   *)
(* share no state.                                                                 *)
EXTENDS MediaBridge, PluginLifecycle, BridgeProtocol, Installation, TLC

VARIABLE part      \* which one

PluginInit ==
    /\ part \in {"install", "lifecycle", "bridge", "exchange"}
    /\ Init /\ ProtocolInit
    /\ LifecycleInit /\ (part # "lifecycle" => files = [path \in Paths |-> "none"])
    /\ InstallInit /\ (part # "install" => userConfig = "none" /\ ~inside)

PluginNext ==
    /\ UNCHANGED part
    /\ \/ part = "install" /\ InstallNext /\ UNCHANGED <<vars, lifecycleVars, protocolVars>>
       \/ part = "lifecycle" /\ LifecycleNext /\ UNCHANGED <<vars, protocolVars, installVars>>
       \/ part = "bridge" /\ Next /\ UNCHANGED <<lifecycleVars, protocolVars, installVars>>
       \/ part = "exchange" /\ ProtocolNext /\ UNCHANGED <<vars, lifecycleVars, installVars>>

PluginSpec ==
    PluginInit /\ [][PluginNext]_<<vars, lifecycleVars, protocolVars, installVars, part>>

\* accept may return any descriptor that is not in use: their numbers are names.
FdSymmetry == Permutations(Fds)
===============================================================================
