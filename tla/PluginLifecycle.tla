--------------------------- MODULE PluginLifecycle ---------------------------
(***************************************************************************)
(* Loading and unloading the plugin in the TeamSpeak clients of one user:  *)
(* ts3plugin_init and ts3plugin_shutdown (plugin/plugin_exports.cpp),      *)
(* SocketBridgeServer::start and stop (bridge/socket_server.cpp) and       *)
(* MediaBridgeServer::start and stop as they run inside them.  The clients *)
(* share the two socket paths, which no lock guards, and a client that is  *)
(* killed leaves its socket files behind.  An action is what a plugin does *)
(* between two accesses to a path.                                         *)
(***************************************************************************)
EXTENDS Naturals

CONSTANTS
    Plugins,       \* the TeamSpeak clients that load the plugin
    MaxBacklog     \* bound: connections waiting for one accept thread

Paths == {"control", "media"}

\* What may be at a path: nothing, a file that is no socket, the socket file of
\* a closed socket, or the one a plugin's open socket is bound to.
NotBound == {"none", "regular", "stale"}

ASSUME PluginsAssumption == Plugins \cap NotBound = {}

ASSUME BacklogAssumption == MaxBacklog \in Nat

VARIABLES
    files,     \* what is at each path
    plugin     \* each plugin's progress, sockets, accept thread and backend

lifecycleVars == <<files, plugin>>

Pcs == {"unloaded", "media unlink", "media bind", "media listen", "initialize", "unlink", "bind",
        "listen", "cleanup", "cleanup media", "cleanup backend", "running", "wake", "join",
        "close", "stop backend", "stop media"}

\* Nothing of the plugin is left, or was there yet.
Unloaded ==
    [pc |-> "unloaded",
     open |-> {},               \* the paths it has a socket for
     accept |-> "off",          \* the accept thread of the control socket
     backlog |-> 0,             \* the connections that wait for it
     stop |-> FALSE,            \* its stop request
     handle |-> FALSE,          \* backend_handle() is not null
     initialized |-> FALSE,     \* the backend is
     bridgeSet |-> FALSE,       \* the backend has the media bridge
     crossed |-> FALSE]         \* history: another plugin touched the paths since

LifecycleInit ==
    /\ files \in [Paths -> {"none", "regular", "stale"}]
    /\ plugin = [p \in Plugins |-> Unloaded]

Loaded(p) == plugin[p].pc # "unloaded"

\* Plugin p is at r now; when it touches a path the others have been crossed.
Advances(p, r) == plugin' = [plugin EXCEPT ![p] = r]

Touches(p, r) ==
    plugin' = [q \in Plugins |-> IF q = p THEN r
                                 ELSE [plugin[q] EXCEPT !.crossed = Loaded(q)]]

\* unlink_socket_file: only a socket is removed, whoever is bound to it.
Unlinked(path) == [files EXCEPT ![path] = IF @ = "regular" THEN @ ELSE "none"]

\* p closes its sockets for some paths: a file bound to one stays behind.
Closed(fs, paths, p) ==
    [path \in Paths |-> IF path \in paths /\ fs[path] = p THEN "stale" ELSE fs[path]]

-----------------------------------------------------------------------------
(* ts3plugin_init: the media bridge is started before the backend          *)

\* The start failed before there was a backend to shut down: init returns 1.
MediaStartFailed(p) ==
    [plugin[p] EXCEPT !.pc = "unloaded", !.open = {}, !.bridgeSet = FALSE, !.handle = FALSE]

\* A plugin that is loaded already answers 0 and does nothing.
ts3plugin_init(p) ==
    /\ ~Loaded(p)
    /\ Advances(p, [plugin[p] EXCEPT !.pc = "media unlink", !.handle = TRUE, !.bridgeSet = TRUE,
                                    !.crossed = FALSE])
    /\ UNCHANGED files

\* Or the directory of the media path cannot be created.
MediaUnlink(p) ==
    /\ plugin[p].pc = "media unlink"
    /\ \/ /\ files' = Unlinked("media")
          /\ Touches(p, [plugin[p] EXCEPT !.pc = "media bind"])
       \/ Advances(p, MediaStartFailed(p)) /\ UNCHANGED files

\* bind fails on a path where there is anything, or for reasons of its own.
MediaBind(p) ==
    /\ plugin[p].pc = "media bind"
    /\ \/ /\ files["media"] = "none"
          /\ files' = [files EXCEPT !["media"] = p]
          /\ Touches(p, [plugin[p] EXCEPT !.pc = "media listen", !.open = {"media"}])
       \/ Advances(p, MediaStartFailed(p)) /\ UNCHANGED files

\* A socket that cannot listen is closed, and its file stays.
MediaListen(p) ==
    /\ plugin[p].pc = "media listen"
    /\ \/ Advances(p, [plugin[p] EXCEPT !.pc = "initialize"]) /\ UNCHANGED files
       \/ Touches(p, MediaStartFailed(p)) /\ files' = Closed(files, {"media"}, p)

\* The backend has no functions, or after it the directory is not created.
Initialize(p) ==
    /\ plugin[p].pc = "initialize"
    /\ \E initialized \in BOOLEAN, pc \in {"unlink", "cleanup"} :
        /\ ~initialized => pc = "cleanup"
        /\ Advances(p, [plugin[p] EXCEPT !.pc = pc, !.initialized = initialized])
    /\ UNCHANGED files

\* Mutant: a file that is there already is left to bind.
ControlUnlinkSkipped(p) ==
    /\ plugin[p].pc = "unlink"
    /\ Touches(p, [plugin[p] EXCEPT !.pc = "bind"])
    /\ UNCHANGED files

ControlUnlink(p) ==
    /\ plugin[p].pc = "unlink"
    /\ files' = Unlinked("control")
    /\ Touches(p, [plugin[p] EXCEPT !.pc = "bind"])

\* The path may also be too long for an address.
ControlBind(p) ==
    /\ plugin[p].pc = "bind"
    /\ \/ /\ files["control"] = "none"
          /\ files' = [files EXCEPT !["control"] = p]
          /\ Touches(p, [plugin[p] EXCEPT !.pc = "listen", !.open = @ \cup {"control"}])
       \/ Advances(p, [plugin[p] EXCEPT !.pc = "cleanup"]) /\ UNCHANGED files

\* Listening and starting the accept thread make the plugin loaded.
ControlListen(p) ==
    /\ plugin[p].pc = "listen"
    /\ \/ Advances(p, [plugin[p] EXCEPT !.pc = "running", !.accept = "check"])
       \/ Advances(p, [plugin[p] EXCEPT !.pc = "cleanup"])
    /\ UNCHANGED files

\* cleanup_start_failure: whatever socket is at the control path is unlinked.
CleanupControl(p) ==
    /\ plugin[p].pc = "cleanup"
    /\ files' = Unlinked("control")
    /\ Touches(p, [plugin[p] EXCEPT !.pc = "cleanup media"])

\* Mutant: the media bridge is left to its destructor.
CleanupForgetsMedia(p) ==
    /\ plugin[p].pc = "cleanup media"
    /\ Advances(p, [plugin[p] EXCEPT !.pc = "cleanup backend", !.bridgeSet = FALSE])
    /\ UNCHANGED files

\* MediaBridgeServer::stop closes its socket and unlinks its path.
CleanupMedia(p) ==
    /\ plugin[p].pc = "cleanup media"
    /\ files' = Unlinked("media")
    /\ Touches(p, [plugin[p] EXCEPT !.pc = "cleanup backend", !.open = @ \ {"media"},
                                    !.bridgeSet = FALSE])

\* The backend is shut down, the control socket goes with start's frame, and
\* ts3plugin_init returns 1.
CleanupBackend(p) ==
    /\ plugin[p].pc = "cleanup backend"
    /\ files' = Closed(files, {"control"}, p)
    /\ Touches(p, [plugin[p] EXCEPT !.pc = "unloaded", !.open = @ \ {"control"},
                                    !.initialized = FALSE, !.handle = FALSE])

-----------------------------------------------------------------------------
(* The accept thread of the control socket                                 *)

\* A ts process, or a plugin that stops, connects to the control path.
Listens(q) == q \in Plugins /\ plugin[q].accept # "off"

Command(q) ==
    /\ Listens(q) /\ files["control"] = q
    /\ plugin[q].backlog < MaxBacklog
    /\ Advances(q, [plugin[q] EXCEPT !.backlog = @ + 1])
    /\ UNCHANGED files

\* The stop request is looked at between two connections.
AcceptConnections(p) ==
    /\ \/ /\ plugin[p].accept = "check"
          /\ Advances(p, [plugin[p] EXCEPT !.accept = IF plugin[p].stop THEN "done" ELSE "accept"])
       \/ /\ plugin[p].accept = "accept" /\ plugin[p].backlog > 0
          /\ Advances(p, [plugin[p] EXCEPT !.accept = "check", !.backlog = @ - 1])
    /\ UNCHANGED files

-----------------------------------------------------------------------------
(* ts3plugin_shutdown: SocketBridgeServer::stop, and the backend is freed  *)

\* Mutant: the accept thread is woken, and not asked to stop.
ShutdownAsksLate(p) ==
    /\ plugin[p].pc = "running"
    /\ Advances(p, [plugin[p] EXCEPT !.pc = "wake", !.bridgeSet = FALSE])
    /\ UNCHANGED files

ts3plugin_shutdown(p) ==
    /\ plugin[p].pc = "running"
    /\ Advances(p, [plugin[p] EXCEPT !.pc = "wake", !.bridgeSet = FALSE, !.stop = TRUE])
    /\ UNCHANGED files

\* Whoever listens at the path gets the connection that is to wake p's thread.
Wake(p) ==
    /\ plugin[p].pc = "wake"
    /\ LET woken == files["control"]
           joins == [plugin EXCEPT ![p].pc = "join"]
       IN  plugin' = IF Listens(woken) THEN [joins EXCEPT ![woken].backlog = @ + 1] ELSE joins
    /\ UNCHANGED files

Join(p) ==
    /\ plugin[p].pc = "join" /\ plugin[p].accept = "done"
    /\ Advances(p, [plugin[p] EXCEPT !.pc = "close"])
    /\ UNCHANGED files

\* The listening socket is closed with what waits for it; the path is unlinked.
CloseControl(p) ==
    /\ plugin[p].pc = "close"
    /\ files' = Unlinked("control")
    /\ Touches(p, [plugin[p] EXCEPT !.pc = "stop backend", !.open = @ \ {"control"},
                                    !.accept = "off", !.backlog = 0])

StopBackend(p) ==
    /\ plugin[p].pc = "stop backend"
    /\ Advances(p, [plugin[p] EXCEPT !.pc = "stop media", !.initialized = FALSE])
    /\ UNCHANGED files

\* MediaBridgeServer::stop; then the server and with it the backend are freed.
StopMedia(p) ==
    /\ plugin[p].pc = "stop media"
    /\ files' = Unlinked("media")
    /\ Touches(p, [plugin[p] EXCEPT !.pc = "unloaded", !.open = @ \ {"media"}, !.stop = FALSE,
                                    !.handle = FALSE])

\* TeamSpeak is killed: the system closes the sockets.
Killed(p) ==
    /\ Loaded(p)
    /\ files' = Closed(files, Paths, p)
    /\ Touches(p, Unloaded)

-----------------------------------------------------------------------------
Loading(p) == ts3plugin_init(p) \/ MediaUnlink(p) \/ MediaBind(p) \/ MediaListen(p)
              \/ Initialize(p) \/ ControlUnlink(p) \/ ControlBind(p) \/ ControlListen(p)
              \/ CleanupControl(p) \/ CleanupMedia(p) \/ CleanupBackend(p)

Unloading(p) == ts3plugin_shutdown(p) \/ Wake(p) \/ Join(p) \/ CloseControl(p)
                \/ StopBackend(p) \/ StopMedia(p)

LifecycleNext == \E p \in Plugins : Loading(p) \/ Unloading(p) \/ AcceptConnections(p) \/ Command(p)
                                    \/ Killed(p)

LifecycleSpec == LifecycleInit /\ [][LifecycleNext]_lifecycleVars

-----------------------------------------------------------------------------
(* Properties                                                              *)

\* The variables have their types.
LifecycleTypeOK ==
    /\ files \in [Paths -> NotBound \cup Plugins]
    /\ plugin \in [Plugins -> [pc : Pcs, open : SUBSET Paths,
                               accept : {"off", "check", "accept", "done"}, backlog : Nat,
                               stop : BOOLEAN, handle : BOOLEAN, initialized : BOOLEAN,
                               bridgeSet : BOOLEAN, crossed : BOOLEAN]]

\* plugin_exports.cpp: a plugin whose start failed, at whatever step, or that was
\* stopped, has no socket, accept thread, media bridge or initialized backend
\* left, and no path leads to it.
UnloadedLeavesNothing ==
    \A p \in Plugins : ~Loaded(p) =>
        /\ plugin[p].open = {} /\ plugin[p].accept = "off" /\ plugin[p].backlog = 0
        /\ ~plugin[p].handle /\ ~plugin[p].initialized /\ ~plugin[p].bridgeSet
        /\ \A path \in Paths : files[path] # p

\* socket_server.cpp: unlink_socket_file before bind.  What a client that was
\* killed or a start that failed left behind never makes a start fail: unless
\* another client is at work on the paths, only a file that is no socket does.
LeftoversAreReplaced ==
    \A p \in Plugins : ~plugin[p].crossed =>
        /\ plugin[p].pc = "media bind" => files["media"] \in {"none", "regular"}
        /\ plugin[p].pc = "bind" => files["control"] \in {"none", "regular"}

\* A plugin that runs is reached at both paths, unless another client touched
\* them: neither the start of the control socket nor its accept loop disturbs
\* the media bridge started before it.
RunningIsReached ==
    \A p \in Plugins : plugin[p].pc = "running" /\ ~plugin[p].crossed =>
        \A path \in Paths : files[path] = p /\ path \in plugin[p].open

\* SocketBridgeServer::stop: an accept thread that stop joins will look at its
\* stop request again, at once or for the connection that wakes it, unless
\* another client took the path that connection went to.
StopWakesAccept ==
    \A p \in Plugins : plugin[p].pc = "join" /\ ~plugin[p].crossed =>
        plugin[p].accept # "accept" \/ plugin[p].backlog > 0
==============================================================================
