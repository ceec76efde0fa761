----------------------------- MODULE ControlSocket -----------------------------
(* The plugin's control socket: the event queue filled by the TeamSpeak        *)
(* callbacks, the one accept thread of SocketBridgeServer that serves one      *)
(* connection after another, its stop, and the exchange a ts process makes     *)
(* over a connection of its own for each request.                              *)
(*                                                                             *)
(* A connection that waits to be accepted is an entry of the listen backlog.   *)
(* Its request is already in the socket, so a process that gives up waiting    *)
(* leaves it behind: the server will read it, and answer nobody.               *)
EXTENDS Naturals, Sequences, FiniteSets

CONSTANTS
    Clients,      \* the ts processes
    Nobody,       \* stands for a process that has closed its connection
    Requests,     \* the commands other than "next_event" the processes send
    Kinds,        \* what the events are about
    Backlog,      \* the argument of listen()
    MaxRaised     \* bound: the events the environment raises

ASSUME NobodyAssumption == Nobody \notin Clients

ASSUME RequestsAssumption == {"none", "next_event"} \cap Requests = {}

ASSUME BoundsAssumption == Backlog \in Nat /\ MaxRaised \in Nat

VARIABLES
    raised,       \* history: the kind of every event pushed, in order
    events,       \* EventQueue::events_, as positions in raised
    backlog,      \* the connections waiting in the listen queue
    server,       \* the accept thread and the connection it serves
    stopper,      \* SocketBridgeServer::stop, on the thread unloading the plugin
    call,         \* the exchange of each process
    got           \* history: the events each process received

vars == <<raised, events, backlog, server, stopper, call, got>>

NoReply == [ok |-> TRUE, event |-> 0, phase |-> "none"]
Failed == [NoReply EXCEPT !.ok = FALSE]

Replies == [ok : BOOLEAN, event : Nat,
            phase : {"none", "disconnected", "connecting", "connected"}]

Connections == [from : Clients \cup {Nobody},
                request : Requests \cup {"next_event", "none"}]

Idle == [from |-> Nobody, request |-> "none"]

TypeOK ==
    /\ raised \in Seq(Kinds)
    /\ events \in Seq(Nat)
    /\ \A i \in DOMAIN events : events[i] \in DOMAIN raised
    /\ backlog \in Seq(Connections)
    /\ server \in [at : {"accept", "serve", "reply", "gone"},
                   conn : Connections, reply : Replies, stopping : BOOLEAN]
    /\ stopper \in {"up", "waking", "joining", "down"}
    /\ call \in [Clients -> [at : {"idle", "asking", "answered"}, reply : Replies]]
    /\ got \in [Clients -> Seq(Nat)]

Init ==
    /\ raised = <<>>
    /\ events = <<>>
    /\ backlog = <<>>
    /\ server = [at |-> "accept", conn |-> Idle, reply |-> NoReply, stopping |-> FALSE]
    /\ stopper = "up"
    /\ call = [c \in Clients |-> [at |-> "idle", reply |-> NoReply]]
    /\ got = [c \in Clients |-> <<>>]

--------------------------------------------------------------------------------
(* The event queue                                                             *)

\* EventQueue::push of one event of each kind in ks.
Pushes(ks) ==
    /\ raised' = raised \o ks
    /\ events' = events \o [i \in DOMAIN ks |-> Len(raised) + i]

\* A TeamSpeak callback pushes its event.
RaiseEvent(k) ==
    /\ stopper # "down"
    /\ Len(raised) < MaxRaised
    /\ Pushes(<<k>>)
    /\ UNCHANGED <<backlog, server, stopper, call, got>>

--------------------------------------------------------------------------------
(* A ts process                                                                *)

Listening == stopper # "down"

\* The kernel refuses a connection once the queue is longer than the backlog.
Full == Len(backlog) > Backlog

Answered(c, reply) == call' = [call EXCEPT ![c] = [at |-> "answered", reply |-> reply]]

\* SocketBackend::exchange connects and writes its request.  A non-blocking
\* connect to a full queue fails, and so does one to a closed socket.
Ask(c, request) ==
    /\ call[c].at = "idle"
    /\ IF Listening /\ ~Full
       THEN /\ backlog' = Append(backlog, [from |-> c, request |-> request])
            /\ call' = [call EXCEPT ![c].at = "asking"]
       ELSE /\ Answered(c, Failed)
            /\ UNCHANGED backlog
    /\ UNCHANGED <<raised, events, server, stopper, got>>

\* The process closes its end: nobody will read the answer.
Abandon(c) ==
    LET Orphan(conn) == IF conn.from = c THEN [conn EXCEPT !.from = Nobody] ELSE conn
    IN  /\ backlog' = [i \in DOMAIN backlog |-> Orphan(backlog[i])]
        /\ server' = [server EXCEPT !.conn = Orphan(@)]

\* The read or the write times out.
GiveUp(c) ==
    /\ call[c].at = "asking"
    /\ Abandon(c)
    /\ Answered(c, Failed)
    /\ UNCHANGED <<raised, events, stopper, got>>

\* The process is killed.
Vanish(c) ==
    /\ call[c].at # "idle"
    /\ Abandon(c)
    /\ call' = [call EXCEPT ![c] = [at |-> "idle", reply |-> NoReply]]
    /\ UNCHANGED <<raised, events, stopper, got>>

\* exchange returns the answer to its caller.
Receive(c) ==
    /\ call[c].at = "answered"
    /\ call' = [call EXCEPT ![c] = [at |-> "idle", reply |-> NoReply]]
    /\ got' = IF call[c].reply.event = 0 THEN got
              ELSE [got EXCEPT ![c] = Append(@, call[c].reply.event)]
    /\ UNCHANGED <<raised, events, backlog, server, stopper>>

--------------------------------------------------------------------------------
(* SocketBridgeServer::accept_loop and handle_client                           *)

\* accept, then the first line of the connection: a connection that sends none
\* (the one stop makes) is closed at once.
Accept ==
    /\ server.at = "accept"
    /\ backlog # <<>>
    /\ backlog' = Tail(backlog)
    /\ server' = IF Head(backlog).request = "none"
                 THEN [server EXCEPT !.at = IF server.stopping THEN "gone" ELSE "accept"]
                 ELSE [server EXCEPT !.at = "serve", !.conn = Head(backlog)]
    /\ UNCHANGED <<raised, events, stopper, call, got>>

Serves(reply) == server' = [server EXCEPT !.at = "reply", !.reply = reply]

\* Mutant: the newest event is popped.
PopNewest ==
    /\ server.at = "serve"
    /\ server.conn.request = "next_event"
    /\ events # <<>>
    /\ Serves([NoReply EXCEPT !.event = events[Len(events)]])
    /\ events' = SubSeq(events, 1, Len(events) - 1)
    /\ UNCHANGED <<raised, backlog, stopper, call, got>>

\* next_event: EventQueue::pop_for finds an event, now or before its timeout ...
PopEvent ==
    /\ server.at = "serve"
    /\ server.conn.request = "next_event"
    /\ events # <<>>
    /\ Serves([NoReply EXCEPT !.event = Head(events)])
    /\ events' = Tail(events)
    /\ UNCHANGED <<raised, backlog, stopper, call, got>>

\* ... or returns nothing.
PopTimesOut ==
    /\ server.at = "serve"
    /\ server.conn.request = "next_event"
    /\ events = <<>>
    /\ Serves(NoReply)
    /\ UNCHANGED <<raised, events, backlog, stopper, call, got>>

\* Any other command: the backend answers reply, and pushes the events ks.
RunCommand(request, reply, ks) ==
    /\ server.at = "serve"
    /\ server.conn.request = request
    /\ Serves(reply)
    /\ Pushes(ks)
    /\ UNCHANGED <<backlog, stopper, call, got>>

\* Mutant: an answer that cannot be written ends the accept thread.
SendReplyOrQuit ==
    /\ server.at = "reply"
    /\ IF server.conn.from = Nobody
       THEN UNCHANGED call
       ELSE Answered(server.conn.from, server.reply)
    /\ server' = [server EXCEPT !.at = IF server.stopping \/ server.conn.from = Nobody
                                       THEN "gone" ELSE "accept",
                                !.conn = Idle, !.reply = NoReply]
    /\ UNCHANGED <<raised, events, backlog, stopper, got>>

\* send_ok or send_error; a write nobody reads is ignored.  The loop then tests
\* its stop token before it accepts again.
SendReply ==
    /\ server.at = "reply"
    /\ IF server.conn.from = Nobody
       THEN UNCHANGED call
       ELSE Answered(server.conn.from, server.reply)
    /\ server' = [server EXCEPT !.at = IF server.stopping THEN "gone" ELSE "accept",
                                !.conn = Idle, !.reply = NoReply]
    /\ UNCHANGED <<raised, events, backlog, stopper, got>>

ServerThread == Accept \/ PopEvent \/ PopTimesOut \/ SendReply

--------------------------------------------------------------------------------
(* SocketBridgeServer::stop                                                    *)

StopRequest ==
    /\ stopper = "up"
    /\ stopper' = "waking"
    /\ server' = [server EXCEPT !.stopping = TRUE]
    /\ UNCHANGED <<raised, events, backlog, call, got>>

\* Mutant: nothing wakes the accept thread.
StopWithoutWake ==
    /\ stopper = "waking"
    /\ stopper' = "joining"
    /\ UNCHANGED <<raised, events, backlog, server, call, got>>

\* The connect that wakes accept is a blocking one: it waits for room.
StopWake ==
    /\ stopper = "waking"
    /\ ~Full
    /\ backlog' = Append(backlog, Idle)
    /\ stopper' = "joining"
    /\ UNCHANGED <<raised, events, server, call, got>>

\* Mutant: the listening socket is left open.
StopLeavesSocket ==
    /\ stopper = "joining"
    /\ server.at = "gone"
    /\ events' = <<>>
    /\ stopper' = "down"
    /\ UNCHANGED <<raised, backlog, server, call, got>>

\* The accept thread is joined and the listening socket closed, which resets
\* the connections still queued; the plugin then frees the backend and its queue.
StopCloses ==
    /\ stopper = "joining"
    /\ server.at = "gone"
    /\ call' = [c \in Clients |->
                  IF \E i \in DOMAIN backlog : backlog[i].from = c
                  THEN [at |-> "answered", reply |-> Failed]
                  ELSE call[c]]
    /\ backlog' = <<>>
    /\ events' = <<>>
    /\ stopper' = "down"
    /\ UNCHANGED <<raised, server, got>>

\* TeamSpeak loads the plugin again.
StartAgain ==
    /\ stopper = "down"
    /\ stopper' = "up"
    /\ server' = [server EXCEPT !.at = "accept", !.stopping = FALSE]
    /\ UNCHANGED <<raised, events, backlog, call, got>>

Stopping == StopRequest \/ StopWake \/ StopCloses

--------------------------------------------------------------------------------
Next ==
    \/ \E k \in Kinds : RaiseEvent(k)
    \/ ServerThread
    \/ \E r \in Requests, ok \in BOOLEAN, ks \in {<<>>} \cup {<<k>> : k \in Kinds} :
          /\ Len(raised) + Len(ks) <= MaxRaised
          /\ RunCommand(r, [NoReply EXCEPT !.ok = ok], ks)
    \/ Stopping
    \/ StartAgain
    \/ \E c \in Clients :
          \/ \E r \in Requests \cup {"next_event"} : Ask(c, r)
          \/ GiveUp(c)
          \/ Vanish(c)
          \/ Receive(c)

Spec == Init /\ [][Next]_vars

\* The accept thread and the thread that stops it run; a command and a pop end.
\* Nobody has to ask, to give up or to unload the plugin.
ServerFairness ==
    /\ WF_vars(ServerThread)
    /\ WF_vars(\E r \in Requests : RunCommand(r, NoReply, <<>>))
    /\ WF_vars(StopWake \/ StopCloses)

FairSpec == Spec /\ ServerFairness

--------------------------------------------------------------------------------
(* Properties                                                                  *)

\* The event on its way to c: popped for it, or in its socket.
Underway(c) ==
    CASE call[c].at = "answered" -> call[c].reply.event
      [] server.at = "reply" /\ server.conn.from = c -> server.reply.event
      [] OTHER -> 0

Delivery == INSTANCE EventDelivery WITH
                raised <- Len(raised), queue <- events,
                underway <- [c \in Clients |-> Underway(c)]

\* The control socket delivers events as EventDelivery promises: in the order
\* TeamSpeak raised them and to one process each, through exchanges that time
\* out, processes that are killed and a plugin that is unloaded.
ImplementsDelivery == Delivery!Spec

\* stop waits for room in the queue of an accept thread that has gone.
Stranded == stopper = "waking" /\ server.at = "gone" /\ Full

\* A process that waits long enough is answered, whatever the others do and
\* even when the plugin is unloaded meanwhile (accept_loop serves connections in
\* turn, every pop has a timeout, and closing the socket resets the rest); only
\* a stop that is stranded leaves it waiting.
EveryoneAnswered ==
    \A c \in Clients : (call[c].at = "asking") ~> (call[c].at # "asking" \/ Stranded)

\* Unloading the plugin ends, unless the accept thread has gone and left a full
\* queue behind (the wake-up of stop, the stop token of accept_loop).
StopEnds == (stopper = "waking") ~> (stopper = "down" \/ Stranded)

\* tests/socket_backend_test.cpp:343, "socket bridge server should stop":
\* SocketBridgeServer::stop returns.
StopReturns == (stopper = "waking") ~> (stopper = "down")

================================================================================
