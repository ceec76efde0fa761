---------------------------- MODULE SessionService -----------------------------
(* SessionService in a one-shot ts process: connect_and_wait,                  *)
(* disconnect_and_wait and watch_events, each a loop of exchanges over the     *)
(* control socket, against a TeamSpeak client whose connection status and      *)
(* whose callbacks move on their own, and against other processes that take    *)
(* events from the same queue.                                                 *)
EXTENDS ControlSocket

CONSTANTS
    Commands,     \* the one-shot ts processes
    Tasks,        \* what they are run for
    MaxRuns,      \* bound: how often each is run
    MaxOther,     \* bound: the events that are not about a connection
    WatchCount    \* the --count of events watch

ASSUME CommandsAssumption == Commands \subseteq Clients

ASSUME TasksAssumption ==
    /\ Tasks \subseteq {"connect", "disconnect", "watch"}
    /\ {"connect", "disconnect", "connection_state"} \subseteq Requests

ASSUME RunsAssumption == {MaxRuns, MaxOther} \subseteq Nat /\ WatchCount \in Nat \ {0}

ASSUME KindsAssumption == {"progress", "failure"} \subseteq Kinds

VARIABLES
    phase,        \* the status of the current server connection
    callbacks,    \* connection events TeamSpeak has yet to report, in order
    session       \* each ts process

sessionVars == <<phase, callbacks, session>>

Phases == {"disconnected", "connecting", "connected"}

\* Events whose type starts with "connection." or is "server.error"; the ones
\* that end an attempt are failures.
LifecycleKinds == {"progress", "failure"}

NewSession == [at |-> "idle", task |-> "none", lifecycle |-> <<>>, left |-> 0,
               late |-> FALSE, result |-> "none", runs |-> 0, before |-> 0]

\* What the variables hold.
SessionTypeOK ==
    /\ TypeOK
    /\ phase \in Phases
    /\ callbacks \in Seq(LifecycleKinds)
    /\ session \in [Commands ->
          [at : {"idle", "clear", "send", "collect", "state", "wait", "final", "watch"},
           task : Tasks \cup {"none"}, lifecycle : Seq(Nat), left : 0..WatchCount,
           late : BOOLEAN, runs : 0..MaxRuns, before : Nat,
           result : {"none", "connected", "disconnected", "failed", "timeout", "error", "watched"}]]
    /\ \A c \in Commands : session[c].at = "watch" => session[c].left # 0

SessionInit ==
    /\ Init
    /\ phase \in {"disconnected", "connected"}
    /\ callbacks = <<>>
    /\ session = [c \in Commands |-> NewSession]

--------------------------------------------------------------------------------
(* TeamSpeak                                                                   *)

\* The status changes to p, and a callback will say so: a connection that ends,
\* for whatever reason, is reported as a failure.
StatusBecomes(p) ==
    /\ phase' = p
    /\ callbacks' = IF p = phase THEN callbacks
                    ELSE Append(callbacks, IF p = "disconnected" THEN "failure" ELSE "progress")

ConnectionMoves ==
    /\ \/ phase = "connecting" /\ StatusBecomes("connected")
       \/ phase # "disconnected" /\ StatusBecomes("disconnected")
    /\ UNCHANGED <<vars, session>>

\* on_connect_status_change translates the oldest report.
CallbackRuns ==
    /\ callbacks # <<>>
    /\ callbacks' = Tail(callbacks)
    /\ IF stopper = "down" THEN UNCHANGED vars
       ELSE Pushes(<<Head(callbacks)>>)
            /\ UNCHANGED <<backlog, server, stopper, call, got>>
    /\ UNCHANGED <<phase, session>>

\* on_text_message, on_talk_status_change and the other callbacks that only push
\* an event.
OtherCallback ==
    /\ Cardinality({i \in DOMAIN raised : raised[i] \notin LifecycleKinds}) < MaxOther
    /\ \E k \in Kinds \ LifecycleKinds : RaiseEvent(k)
    /\ UNCHANGED sessionVars

\* on_server_error and the callbacks of another tab push events that look like
\* the end of this connection.
StrangerFails ==
    /\ RaiseEvent("failure")
    /\ UNCHANGED sessionVars

--------------------------------------------------------------------------------
(* The commands the server runs on the plugin's backend                        *)

\* guiConnect may start at once or later, or leave another connected tab in
\* front; connect then pushes connection.requested.
ServeConnect ==
    /\ RunCommand("connect", NoReply, <<"progress">>)
    /\ \E p \in {phase, "connecting"} : StatusBecomes(p)
    /\ UNCHANGED session

\* stopConnection.
ServeDisconnect ==
    /\ RunCommand("disconnect", NoReply, <<>>)
    /\ \E p \in {phase, "disconnected"} : StatusBecomes(p)
    /\ UNCHANGED session

\* connection_state reads the status, whatever the callbacks have reported.
ServeState ==
    /\ RunCommand("connection_state", [NoReply EXCEPT !.phase = phase], <<>>)
    /\ UNCHANGED sessionVars

\* Any of them may be refused by TeamSpeak.
ServeRefuses ==
    /\ \E r \in Requests : RunCommand(r, Failed, <<>>)
    /\ UNCHANGED sessionVars

--------------------------------------------------------------------------------
(* A ts process                                                                *)

Goes(c, at) == session' = [session EXCEPT ![c].at = at]

Begin(c) ==
    /\ session[c].at = "idle"
    /\ call[c].at = "idle"
    /\ session[c].runs < MaxRuns
    /\ \E t \in Tasks :
          session' = [session EXCEPT ![c] =
            [NewSession EXCEPT !.at = IF t = "watch" THEN "watch" ELSE "clear",
                               !.task = t, !.left = IF t = "watch" THEN WatchCount ELSE 0,
                               !.runs = session[c].runs + 1, !.before = Len(raised)]]
    /\ UNCHANGED <<vars, phase, callbacks>>

\* The request each stage of the loops sends.
RequestOf(s) ==
    CASE s.at = "send" -> s.task
      [] s.at = "state" -> "connection_state"
      [] OTHER -> "next_event"

SessionAsks(c) ==
    /\ session[c].at # "idle"
    /\ Ask(c, RequestOf(session[c]))
    /\ UNCHANGED sessionVars

\* std::chrono::steady_clock passes the deadline.
Deadline(c) ==
    /\ session[c].at \in {"collect", "state", "wait"}
    /\ ~session[c].late
    /\ session' = [session EXCEPT ![c].late = TRUE]
    /\ UNCHANGED <<vars, phase, callbacks>>

Ends(c, result) == session' = [session EXCEPT ![c].at = "idle", ![c].result = result]

\* The process is interrupted.
Interrupted(c) ==
    /\ call[c].at # "idle"
    /\ Vanish(c)
    /\ Ends(c, "none")
    /\ UNCHANGED <<phase, callbacks>>

\* The lifecycle events of the command so far, with the event just received.
Collected(c) ==
    LET event == call[c].reply.event
    IN  IF event # 0 /\ raised[event] \in LifecycleKinds
        THEN Append(session[c].lifecycle, event)
        ELSE session[c].lifecycle

\* collect_connection_events asks again as long as it gets an event.
Collects(c, next) ==
    session' = [session EXCEPT ![c].lifecycle = Collected(c),
                               ![c].at = IF call[c].reply.event = 0 THEN next ELSE @]

\* Mutant: one event is thrown away, not all of them.
ClearsOne(c) == Goes(c, "send")

\* The events found before the request is sent are thrown away.
Clears(c) == IF call[c].reply.event = 0 THEN Goes(c, "send") ELSE Goes(c, "clear")

HasTerminalFailure(c) == \E i \in DOMAIN session[c].lifecycle :
                            raised[session[c].lifecycle[i]] = "failure"

Settles(c, result) == session' = [session EXCEPT ![c].at = "final", ![c].result = result]

\* Mutant: the loop has no deadline.
DecidesForEver(c, p) ==
    CASE session[c].task = "connect" /\ p = "connected" -> Settles(c, "connected")
      [] session[c].task = "disconnect" /\ p = "disconnected" -> Settles(c, "disconnected")
      [] session[c].task = "connect" /\ p = "disconnected" /\ HasTerminalFailure(c) ->
            Settles(c, "failed")
      [] OTHER -> Goes(c, "wait")

\* What the loop of connect_and_wait or disconnect_and_wait makes of the state.
Decides(c, p) ==
    CASE session[c].task = "connect" /\ p = "connected" -> Settles(c, "connected")
      [] session[c].task = "disconnect" /\ p = "disconnected" -> Settles(c, "disconnected")
      [] session[c].task = "connect" /\ p = "disconnected" /\ HasTerminalFailure(c) ->
            Settles(c, "failed")
      [] OTHER -> IF session[c].late THEN Settles(c, "timeout") ELSE Goes(c, "wait")

\* watch_events reads on until it has count events or gets none.
Watches(c) ==
    IF call[c].reply.event # 0 /\ session[c].left > 1
    THEN session' = [session EXCEPT ![c].left = @ - 1]
    ELSE Ends(c, "watched")

SessionReturns(c) ==
    /\ Receive(c)
    /\ LET at == session[c].at
           reply == call[c].reply
       IN  \/ ~reply.ok /\ Ends(c, "error")
           \/ reply.ok /\ at = "clear" /\ Clears(c)
           \/ reply.ok /\ at = "send" /\ Goes(c, "collect")
           \/ reply.ok /\ at = "collect" /\ Collects(c, "state")
           \/ reply.ok /\ at = "state" /\ Decides(c, reply.phase)
           \/ reply.ok /\ at = "wait"
              /\ session' = [session EXCEPT ![c].lifecycle = Collected(c), ![c].at = "collect"]
           \/ reply.ok /\ at = "final" /\ Collects(c, "idle")
           \/ reply.ok /\ at = "watch" /\ Watches(c)
    /\ UNCHANGED <<phase, callbacks>>

SessionGivesUp(c) == GiveUp(c) /\ UNCHANGED sessionVars

--------------------------------------------------------------------------------
\* Any other process, the event daemon among them: of the exchanges it makes
\* between two of this server's connections, the session sees the event popped.
RivalTakes ==
    /\ server.at = "accept"
    /\ events # <<>>
    /\ events' = Tail(events)
    /\ UNCHANGED <<raised, backlog, server, stopper, call, got, sessionVars>>

TeamSpeak == ConnectionMoves \/ CallbackRuns \/ OtherCallback \/ StrangerFails

Server ==
    \/ ServerThread /\ UNCHANGED sessionVars
    \/ ServeConnect
    \/ ServeDisconnect
    \/ ServeState

Process(c) == SessionAsks(c) \/ SessionReturns(c)

SessionNext ==
    \/ TeamSpeak
    \/ Server
    \/ ServeRefuses
    \/ \E c \in Commands :
          Begin(c) \/ Process(c) \/ Deadline(c) \/ SessionGivesUp(c) \/ Interrupted(c)
    \/ RivalTakes

allVars == <<vars, sessionVars>>

SessionSpec == SessionInit /\ [][SessionNext]_allVars

\* The server and the processes run on and the clock passes the deadline.
\* TeamSpeak need not move and nobody has to start a command or to give up.
SessionFairness ==
    /\ WF_allVars(Server)
    /\ \A c \in Commands : WF_allVars(Process(c)) /\ WF_allVars(Deadline(c))

FairSessionSpec == SessionSpec /\ SessionFairness

--------------------------------------------------------------------------------
(* Properties                                                                  *)

\* No event from before a command counts in its verdict: connect_and_wait and
\* disconnect_and_wait empty the queue before they send their request, so what
\* they report as the lifecycle was raised after the command began, even when
\* another process takes events meanwhile.  It is in the order the events were
\* raised and holds none twice, though three loops fill it and others take from
\* the queue.
LifecycleIsFresh ==
    \A c \in Commands :
        /\ Delivery!Ascending(session[c].lifecycle)
        /\ \A i \in DOMAIN session[c].lifecycle : session[c].lifecycle[i] > session[c].before

\* A connect, a disconnect and an events watch end, whatever the server answers
\* and whoever takes the events they wait for (the deadline of the loops).
CommandEnds == \A c \in Commands : (session[c].at # "idle") ~> (session[c].at = "idle")

================================================================================
