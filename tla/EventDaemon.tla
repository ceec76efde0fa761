------------------------------ MODULE EventDaemon ------------------------------
(* run_event_daemon: the process started by "ts daemon start", which takes     *)
(* events from the control socket one at a time, journals the messages, runs   *)
(* the matching hooks and rewrites its status file.  The other ts processes may *)
(* ask the same socket for anything at any time.                               *)
EXTENDS ControlSocket

CONSTANTS
    Daemon,       \* the daemon process
    HookKinds,    \* the events some hook matches
    MaxStarts     \* bound: how often the daemon is started

ASSUME DaemonAssumption == Daemon \in Clients /\ MaxStarts \in Nat

VARIABLES
    daemon,       \* the process: where its loop is, and the last event it took
    inbox,        \* the message journal on disk
    ran,          \* history: the events a hook was spawned for
    missed,       \* history: the events it took and failed to handle
    status        \* the status file

daemonVars == <<daemon, inbox, ran, missed, status>>

DaemonTypeOK ==
    /\ TypeOK
    /\ daemon \in [at : {"off", "loop", "journal", "hooks", "status", "error", "exit"},
                   event : 0..Len(raised), stop : BOOLEAN, starts : 0..MaxStarts]
    /\ daemon.at \in {"journal", "hooks", "status"} => daemon.event # 0
    /\ inbox \in Seq(Nat)
    /\ ran \in Seq(Nat)
    /\ missed \subseteq Nat
    /\ status \in [running : BOOLEAN, last : Nat]

DaemonInit ==
    /\ Init
    /\ daemon = [at |-> "off", event |-> 0, stop |-> FALSE, starts |-> 0]
    /\ inbox = <<>>
    /\ ran = <<>>
    /\ missed = {}
    /\ status = [running |-> FALSE, last |-> 0]

--------------------------------------------------------------------------------
DaemonGoes(at) == daemon' = [daemon EXCEPT !.at = at]

\* The first status is written before the loop.
DaemonStarts ==
    /\ daemon.at = "off"
    /\ daemon.starts < MaxStarts
    /\ daemon' = [at |-> "loop", event |-> 0, stop |-> FALSE, starts |-> daemon.starts + 1]
    /\ status' = [running |-> TRUE, last |-> 0]
    /\ UNCHANGED <<vars, inbox, ran, missed>>

\* SIGTERM or SIGINT sets g_daemon_stop_requested.
DaemonStopRequested ==
    /\ daemon.at # "off"
    /\ ~daemon.stop
    /\ daemon' = [daemon EXCEPT !.stop = TRUE]
    /\ UNCHANGED <<vars, inbox, ran, missed, status>>

\* The head of the loop.
DaemonAsks ==
    /\ daemon.at = "loop"
    /\ IF daemon.stop
       THEN call[Daemon].at = "idle" /\ DaemonGoes("exit") /\ UNCHANGED vars
       ELSE Ask(Daemon, "next_event") /\ UNCHANGED daemon
    /\ UNCHANGED <<inbox, ran, missed, status>>

DaemonGivesUp == GiveUp(Daemon) /\ UNCHANGED daemonVars

\* Mutant: a stop request is noticed before the event is handled.
DaemonReturnsOrStops ==
    /\ Receive(Daemon)
    /\ LET reply == call[Daemon].reply
       IN  \/ ~reply.ok /\ DaemonGoes("error")
           \/ reply.ok /\ reply.event = 0 /\ UNCHANGED daemon
           \/ reply.ok /\ reply.event # 0
              /\ daemon' = [daemon EXCEPT !.at = IF daemon.stop THEN "loop" ELSE "journal",
                                          !.event = reply.event]
    /\ UNCHANGED <<inbox, ran, missed, status>>

\* next_event returns an error, nothing, or an event.
DaemonReturns ==
    /\ Receive(Daemon)
    /\ LET reply == call[Daemon].reply
       IN  \/ ~reply.ok /\ DaemonGoes("error")
           \/ reply.ok /\ reply.event = 0 /\ UNCHANGED daemon
           \/ reply.ok /\ reply.event # 0
              /\ daemon' = [daemon EXCEPT !.at = "journal", !.event = reply.event]
    /\ UNCHANGED <<inbox, ran, missed, status>>

\* Mutant: every event is journaled.
DaemonJournalsAll ==
    /\ daemon.at = "journal"
    /\ inbox' = Append(inbox, daemon.event)
    /\ DaemonGoes("hooks")
    /\ UNCHANGED <<vars, ran, missed, status>>

\* append_inbox_event, for a message ...
DaemonJournals ==
    /\ daemon.at = "journal"
    /\ inbox' = IF raised[daemon.event] = "message" THEN Append(inbox, daemon.event) ELSE inbox
    /\ DaemonGoes("hooks")
    /\ UNCHANGED <<vars, ran, missed, status>>

\* Mutant: a message that cannot be journaled is handed to the hooks.
JournalFailsQuietly ==
    /\ daemon.at = "journal"
    /\ raised[daemon.event] = "message"
    /\ missed' = missed \cup {daemon.event}
    /\ DaemonGoes("hooks")
    /\ UNCHANGED <<vars, inbox, ran, status>>

\* ... or the file cannot be written, which ends the daemon.
JournalFails ==
    /\ daemon.at = "journal"
    /\ raised[daemon.event] = "message"
    /\ missed' = missed \cup {daemon.event}
    /\ DaemonGoes("exit")
    /\ UNCHANGED <<vars, inbox, ran, status>>

\* load_hooks, then spawn_hook_process for each hook that matches.
DaemonRunsHooks ==
    /\ daemon.at = "hooks"
    /\ ran' = IF raised[daemon.event] \in HookKinds THEN Append(ran, daemon.event) ELSE ran
    /\ DaemonGoes("status")
    /\ UNCHANGED <<vars, inbox, missed, status>>

\* The hook file is unreadable, or no process can be spawned.
HooksUnread ==
    /\ daemon.at = "hooks"
    /\ DaemonGoes("status")
    /\ UNCHANGED <<vars, inbox, ran, missed, status>>

\* A hook that ends without reading its standard input: nothing in the program
\* handles SIGPIPE, and writing the event to it kills the daemon.
HookBreaksPipe ==
    /\ daemon.at = "hooks"
    /\ raised[daemon.event] \in HookKinds
    /\ ran' = Append(ran, daemon.event)
    /\ DaemonGoes("off")
    /\ UNCHANGED <<vars, inbox, missed, status>>

\* write_current_status, after an event or an error ...
DaemonWritesStatus ==
    /\ daemon.at \in {"status", "error"}
    /\ status' = [running |-> TRUE, last |-> daemon.event]
    /\ DaemonGoes("loop")
    /\ UNCHANGED <<vars, inbox, ran, missed>>

\* ... which ends the daemon when it fails.
StatusFails ==
    /\ daemon.at \in {"status", "error"}
    /\ DaemonGoes("exit")
    /\ UNCHANGED <<vars, inbox, ran, missed, status>>

\* The scope exit of run_event_daemon.
DaemonExits ==
    /\ daemon.at = "exit"
    /\ DaemonGoes("off")
    /\ status' = [running |-> FALSE, last |-> daemon.event]
    /\ UNCHANGED <<vars, inbox, ran, missed>>

\* The daemon is killed: what it held is gone, the files stay.
DaemonKilled ==
    /\ daemon.at # "off"
    /\ IF call[Daemon].at = "idle" THEN UNCHANGED vars ELSE Vanish(Daemon)
    /\ missed' = IF daemon.at = "journal" THEN missed \cup {daemon.event} ELSE missed
    /\ DaemonGoes("off")
    /\ UNCHANGED <<inbox, ran, status>>

DaemonRuns ==
    \/ DaemonAsks
    \/ DaemonReturns
    \/ DaemonJournals
    \/ DaemonRunsHooks
    \/ DaemonWritesStatus
    \/ DaemonExits

StepOfDaemon ==
    \/ DaemonStarts
    \/ DaemonStopRequested
    \/ DaemonRuns
    \/ JournalFails
    \/ HooksUnread
    \/ HookBreaksPipe
    \/ StatusFails
    \/ DaemonGivesUp
    \/ DaemonKilled

--------------------------------------------------------------------------------
\* The other processes, the server and the plugin, as ControlSocket has them.
StepOfOthers ==
    \/ \E k \in Kinds : RaiseEvent(k)
    \/ ServerThread
    \/ \E r \in Requests, ok \in BOOLEAN : RunCommand(r, [NoReply EXCEPT !.ok = ok], <<>>)
    \/ Stopping
    \/ StartAgain
    \/ \E c \in Clients \ {Daemon} :
          \/ \E r \in Requests \cup {"next_event"} : Ask(c, r)
          \/ GiveUp(c)
          \/ Vanish(c)
          \/ Receive(c)

DaemonNext == StepOfDaemon \/ (StepOfOthers /\ UNCHANGED daemonVars)

allVars == <<vars, daemonVars>>

DaemonSpec == DaemonInit /\ [][DaemonNext]_allVars

\* The server, the thread that unloads the plugin and the daemon run on.  Nobody
\* has to start, to ask, to give up or to fail.
DaemonFairness ==
    /\ WF_allVars(ServerThread /\ UNCHANGED daemonVars)
    /\ WF_allVars((\E r \in Requests : RunCommand(r, NoReply, <<>>)) /\ UNCHANGED daemonVars)
    /\ WF_allVars((StopWake \/ StopCloses) /\ UNCHANGED daemonVars)
    /\ WF_allVars(DaemonRuns)

FairDaemonSpec == DaemonSpec /\ DaemonFairness

--------------------------------------------------------------------------------
(* Properties                                                                  *)

\* The inbox holds the messages the daemon received, each once and in the order
\* they were raised, over restarts and crashes of the daemon.
InboxInOrder ==
    /\ Delivery!Ascending(inbox)
    /\ Delivery!Of(inbox) \subseteq {i \in Delivery!Of(got[Daemon]) : raised[i] = "message"}

\* A message the daemon received is in the inbox unless it is the one being
\* handled, or the daemon ended before it could write it.
InboxComplete ==
    \A i \in Delivery!Of(got[Daemon]) :
        raised[i] = "message" =>
            \/ i \in Delivery!Of(inbox) \cup missed
            \/ daemon.at = "journal" /\ daemon.event = i

\* A hook that is run for a message finds it in the inbox, and hooks are run
\* for one event after the other, at most once each.
HooksAfterJournal ==
    /\ Delivery!Ascending(ran)
    /\ \A i \in Delivery!Of(ran) : raised[i] = "message" => i \in Delivery!Of(inbox)

DaemonOver == daemon.at \in {"off", "exit"}

\* The message i is nowhere on the daemon's path.
Elsewhere(i) ==
    /\ i \notin Delivery!Of(events) \cup Delivery!Of(got[Daemon])
    /\ Underway(Daemon) # i

Waits(i) == i \in Delivery!Of(events) /\ raised[i] = "message"

\* While the daemon runs no message stays in the queue: it reaches the inbox, or
\* another process has taken it, or an answer nobody waited for.  A daemon that
\* is refused or times out comes back for it after its error.
MessagesMove ==
    \A i \in 1..MaxRaised :
        (Waits(i) /\ ~DaemonOver)
            ~> (i \in Delivery!Of(inbox) \/ Elsewhere(i) \/ DaemonOver
                  \/ daemon.at = "error" \/ Stranded)

================================================================================
