------------------------- MODULE SessionService_proofs -------------------------
(* That what connect_and_wait and disconnect_and_wait collect is of their own    *)
(* attempt: for any processes, any number of runs, any events and any rival that *)
(* takes events from the same queue.                                             *)
EXTENDS SessionService, ControlSocket_proofs

SessionStates ==
    [at : {"idle", "clear", "send", "collect", "state", "wait", "final", "watch"},
     task : Tasks \cup {"none"}, lifecycle : Seq(Nat), left : 0..WatchCount,
     late : BOOLEAN, runs : 0..MaxRuns, before : Nat,
     result : {"none", "connected", "disconnected", "failed", "timeout", "error", "watched"}]

\* Where a process is past its clearing of the queue.
Cleared == {"send", "collect", "state", "wait", "final"}

\* A process that connects or disconnects was run for it.
TaskInv ==
    \A c \in Commands :
        session[c].at \in Cleared \cup {"clear"} => session[c].task \in {"connect", "disconnect"}

\* Whatever is under way for a process is about what it asks at its stage.
AskedInv ==
    \A c \in Commands :
        /\ session[c].at = "idle" => call[c].at = "idle"
        /\ \A i \in DOMAIN backlog :
              backlog[i].from = c => backlog[i].request = RequestOf(session[c])
        /\ server.conn.from = c => server.conn.request = RequestOf(session[c])

\* An answer without an event and without an error is on its way to c: to a
\* next_event, that the queue was empty.
Empties(c) ==
    \/ call[c].at = "answered" /\ call[c].reply.ok /\ call[c].reply.event = 0
    \/ server.at = "reply" /\ server.conn.from = c /\ server.reply.ok /\ server.reply.event = 0

\* Once the queue was seen empty for a process, the queue, and what was taken from
\* it for the process, are younger than its command.
FreshInv ==
    \A c \in Commands :
        /\ session[c].before <= Len(raised)
        /\ session[c].at \in Cleared \/ (session[c].at = "clear" /\ Empties(c)) =>
              \A e \in Delivery!Of(events) : session[c].before < e
        /\ session[c].at \in Cleared /\ Underway(c) # 0 => session[c].before < Underway(c)

\* The lifecycle is taken from what the process received.
CollectedInv ==
    \A c \in Commands : Delivery!Of(session[c].lifecycle) \subseteq Delivery!Of(got[c])

\* The inductive invariant of the session service.
SessionInv ==
    /\ SessionTypeOK /\ SocketInv /\ Proofs!Inv
    /\ TaskInv /\ AskedInv /\ FreshInv /\ CollectedInv /\ LifecycleIsFresh

-----------------------------------------------------------------------------
(* What a step does to the control socket                                   *)

\* What the proofs use of the types.
LEMMA SessionTypes ==
    ASSUME SessionTypeOK
    PROVE  /\ TypeOK /\ phase \in Phases /\ callbacks \in Seq(LifecycleKinds)
           /\ session \in [Commands -> SessionStates]
           /\ call \in [Clients -> CallStates] /\ server \in ServerStates
           /\ got \in [Clients -> Seq(Nat)] /\ Len(raised) \in Nat
<1>1. Len(raised) \in Nat
  BY LenProperties DEF SessionTypeOK, TypeOK
<1> QED BY <1>1 DEF SessionTypeOK, TypeOK, SessionStates, CallStates, ServerStates

\* The queue has only what it had, and what is raised in this step.
Grows == \A e \in Delivery!Of(events') : e \in Delivery!Of(events) \/ Len(raised) < e

\* EventQueue::push adds behind what was raised ...
LEMMA PushGrows ==
    ASSUME TypeOK, NEW ks, ks = <<>> \/ \E k \in Kinds : ks = <<k>>, Pushes(ks)
    PROVE  Grows
<1>1. /\ \/ Len(raised') = Len(raised) /\ events' = events
         \/ Len(raised') = Len(raised) + 1 /\ events' = Append(events, Len(raised) + 1)
      /\ events \in Seq(Nat) /\ Len(raised) \in Nat
  BY PushesType, LenProperties DEF TypeOK
<1>2. CASE events' = events
  BY <1>2 DEF Grows
<1>3. CASE events' = Append(events, Len(raised) + 1)
  <2>1. Delivery!Of(events') = Delivery!Of(events) \cup {Len(raised) + 1}
    BY <1>1, <1>3, Appends
  <2> QED BY <1>1, <2>1 DEF Grows
<1> QED BY <1>1, <1>2, <1>3

\* ... and EventQueue::pop takes the head.
LEMMA PopGrows ==
    ASSUME TypeOK, events # <<>>, events' = Tail(events)
    PROVE  Grows /\ Head(events) \in Delivery!Of(events)
<1>1. /\ events \in Seq(Nat) /\ Len(events) \in Nat /\ Len(events) # 0
      /\ DOMAIN events = 1..Len(events) /\ DOMAIN Tail(events) = 1..Len(events) - 1
      /\ Head(events) = events[1] /\ \A i \in 1..Len(events) - 1 : Tail(events)[i] = events[i + 1]
  BY HeadTailProperties, LenProperties, EmptySeq DEF TypeOK
<1> QED BY <1>1 DEF Grows, Delivery!Of

\* A step that leaves the queue alone.
LEMMA SameGrows == events' = events => Grows
BY DEF Grows

\* Another process takes the oldest event, and the session does not see where it goes.
LEMMA RivalStep ==
    ASSUME SocketInv, RivalTakes
    PROVE  SocketInv' /\ Refines
<1>1. /\ UNCHANGED <<raised, backlog, server, stopper, call, got>>
      /\ events # <<>> /\ events' = Tail(events) /\ events \in Seq(Nat)
      /\ \A i \in DOMAIN events : events[i] \in DOMAIN raised
  BY DEF RivalTakes, SocketInv, TypeOK
<1>2. events' \in Seq(Nat) /\ \A i \in DOMAIN events' : events'[i] \in DOMAIN raised
  <2>1. /\ Len(events) \in Nat /\ DOMAIN events = 1..Len(events)
        /\ DOMAIN Tail(events) = 1..Len(events) - 1 /\ Tail(events) \in Seq(Nat)
        /\ \A i \in 1..Len(events) - 1 : Tail(events)[i] = events[i + 1]
    BY <1>1, HeadTailProperties, LenProperties, EmptySeq
  <2> QED BY <1>1, <2>1
<1>3. SocketInv'
  BY <1>1, <1>2 DEF SocketInv, TypeOK
<1>4. [c \in Clients |-> Underway(c)]' = [c \in Clients |-> Underway(c)]
  BY <1>1 DEF Underway
<1>5. Delivery!Discard
  BY <1>1, <1>4 DEF Delivery!Discard
<1> QED BY <1>3, <1>5 DEF Refines, Delivery!Next

-----------------------------------------------------------------------------
(* What keeps the parts of the invariant                                    *)

\* What a step may do for process c that keeps FreshInv.
Quiet(c) ==
    /\ session'[c].before = session[c].before
    /\ session'[c].at \in Cleared =>
          session[c].at \in Cleared \/ (session[c].at = "clear" /\ Empties(c))
    /\ session'[c].at = "clear" /\ Empties(c)' => session[c].at = "clear" /\ Empties(c)
    /\ session'[c].at \in Cleared /\ Underway(c)' # 0 =>
          \/ Underway(c)' \in Delivery!Of(events)
             /\ (session[c].at \in Cleared \/ (session[c].at = "clear" /\ Empties(c)))
          \/ Underway(c)' = Underway(c) /\ session[c].at \in Cleared

\* What FreshInv says of process c.
FreshFor(c) ==
    /\ session[c].before <= Len(raised)
    /\ session[c].at \in Cleared \/ (session[c].at = "clear" /\ Empties(c)) =>
          \A e \in Delivery!Of(events) : session[c].before < e
    /\ session[c].at \in Cleared /\ Underway(c) # 0 => session[c].before < Underway(c)

\* The queue grows at its end, so what is fresh stays fresh.
LEMMA FreshKept ==
    ASSUME SessionTypeOK, FreshInv, NEW c \in Commands, Quiet(c), Grows, Keeps, events' \in Seq(Nat)
    PROVE  FreshFor(c)'
<1>1. /\ session[c].before \in Nat /\ Len(raised) \in Nat /\ Len(raised') \in Nat
      /\ Len(raised) <= Len(raised')
  BY SessionTypes DEF SessionStates, Keeps
<1>2. \A e \in Delivery!Of(events') : e \in Nat
  <2>1. \A i \in DOMAIN events' : events'[i] \in Nat
    OBVIOUS
  <2> QED BY <2>1 DEF Delivery!Of
<1>3. session[c].before <= Len(raised)
  BY DEF FreshInv
<1>4. session'[c].before <= Len(raised')
  BY <1>1, <1>3 DEF Quiet
<1>5. ASSUME session'[c].at \in Cleared \/ (session'[c].at = "clear" /\ Empties(c)'),
             NEW e \in Delivery!Of(events')
      PROVE  session'[c].before < e
  <2>1. \A f \in Delivery!Of(events) : session[c].before < f
    BY <1>5 DEF Quiet, FreshInv
  <2>2. e \in Delivery!Of(events) \/ Len(raised) < e
    BY DEF Grows
  <2> QED BY <1>1, <1>2, <1>3, <2>1, <2>2 DEF Quiet
<1>6. ASSUME session'[c].at \in Cleared, Underway(c)' # 0
      PROVE  session'[c].before < Underway(c)'
  BY <1>6 DEF Quiet, FreshInv
<1> QED BY <1>4, <1>5, <1>6 DEF FreshFor

\* The invariants are about each process.
LEMMA FreshForAll == (\A c \in Commands : FreshFor(c)') => FreshInv'
BY DEF FreshFor, FreshInv

\* What AskedInv says of process c.
AskedFor(c) ==
    /\ session[c].at = "idle" => call[c].at = "idle"
    /\ \A i \in DOMAIN backlog :
          backlog[i].from = c => backlog[i].request = RequestOf(session[c])
    /\ server.conn.from = c => server.conn.request = RequestOf(session[c])

LEMMA AskedForAll == (\A c \in Commands : AskedFor(c)') => AskedInv'
BY DEF AskedFor, AskedInv

\* What is to be shown of the lifecycle of process c.
LifecycleFor(c) ==
    /\ Delivery!Of(session[c].lifecycle) \subseteq Delivery!Of(got[c])
    /\ Delivery!Ascending(session[c].lifecycle)
    /\ \A i \in DOMAIN session[c].lifecycle : session[c].lifecycle[i] > session[c].before

\* The lifecycle as it was.
LEMMA LifecycleKept ==
    ASSUME SessionInv, NEW c \in Commands,
           session'[c].lifecycle = session[c].lifecycle \/ session'[c].lifecycle = <<>>,
           session'[c].lifecycle # <<>> => session'[c].before = session[c].before,
           Delivery!Of(got[c]) \subseteq Delivery!Of(got'[c])
    PROVE  LifecycleFor(c)'
<1>1. CASE session'[c].lifecycle = <<>>
  BY <1>1 DEF LifecycleFor, Delivery!Of, Delivery!Ascending
<1>2. CASE session'[c].lifecycle # <<>>
  BY <1>2 DEF LifecycleFor, SessionInv, CollectedInv, LifecycleIsFresh
<1> QED BY <1>1, <1>2

LEMMA LifecycleForAll ==
    (\A c \in Commands : LifecycleFor(c)') => CollectedInv' /\ LifecycleIsFresh'
BY DEF LifecycleFor, CollectedInv, LifecycleIsFresh

\* A process whose exchange is not touched is answered as before.
LEMMA SameAnswers ==
    ASSUME NEW c, call'[c] = call[c], server'.at = server.at, server'.reply = server.reply,
           server'.conn.from = c <=> server.conn.from = c
    PROVE  Underway(c)' = Underway(c) /\ Empties(c)' = Empties(c)
<1>1. Underway(c)' = Underway(c)
  <2>1. CASE server.conn.from = c
    BY <2>1 DEF Underway
  <2>2. CASE server.conn.from # c
    BY <2>2 DEF Underway
  <2> QED BY <2>1, <2>2
<1>2. Empties(c)' <=> Empties(c)
  BY DEF Empties
<1>3. Empties(c)' \in BOOLEAN /\ Empties(c) \in BOOLEAN
  BY DEF Empties
<1> QED BY <1>1, <1>2, <1>3

\* A process without a connection that has not been told anything.
LEMMA Silent ==
    ASSUME NEW c, server'.conn.from # c, call'[c].at # "answered" \/ call'[c].reply = Failed
    PROVE  Underway(c)' = 0 /\ ~Empties(c)'
BY DEF Underway, Empties, Failed, NoReply

\* Nothing under way changes, and nothing the process does.
LEMMA SameQuiet ==
    ASSUME NEW c, Underway(c)' = Underway(c), Empties(c)' = Empties(c), session' = session
    PROVE  Quiet(c)
BY DEF Quiet

\* Nothing is under way any more.
LEMMA SilentQuiet ==
    ASSUME NEW c, Underway(c)' = 0, ~Empties(c)', session'[c].before = session[c].before,
           session'[c].at \in Cleared =>
              session[c].at \in Cleared \/ (session[c].at = "clear" /\ Empties(c))
    PROVE  Quiet(c)
BY DEF Quiet

\* The connections of c are those it had.
LEMMA AskedKept ==
    ASSUME AskedInv, NEW c \in Commands, RequestOf(session[c])' = RequestOf(session[c]),
           session'[c].at = "idle" => session[c].at = "idle",
           call'[c].at # "idle" => call[c].at # "idle" \/ session[c].at # "idle",
           \A i \in DOMAIN backlog' : backlog'[i].from = c =>
              \/ \E j \in DOMAIN backlog : backlog'[i] = backlog[j]
              \/ backlog'[i].request = RequestOf(session[c]),
           server'.conn.from = c =>
              \/ server'.conn = server.conn
              \/ \E j \in DOMAIN backlog : server'.conn = backlog[j]
    PROVE  AskedFor(c)'
<1>1. session'[c].at = "idle" => call'[c].at = "idle"
  BY DEF AskedInv
<1>2. ASSUME NEW i \in DOMAIN backlog', backlog'[i].from = c
      PROVE  backlog'[i].request = RequestOf(session[c])
  BY <1>2 DEF AskedInv
<1>3. server'.conn.from = c => server'.conn.request = RequestOf(session[c])
  BY DEF AskedInv
<1> QED BY <1>1, <1>2, <1>3 DEF AskedFor

\* A process that has no connection may go on to another request.
LEMMA AskedNone ==
    ASSUME SocketInv', NEW c \in Commands, call'[c].at = "idle"
    PROVE  AskedFor(c)'
<1>1. c \in Clients
  BY CommandsAssumption
<1>2. server'.conn.from # c /\ \A i \in DOMAIN backlog' : backlog'[i].from # c
  BY <1>1 DEF SocketInv
<1> QED BY <1>2 DEF AskedFor

\* The parts make the invariant.
LEMMA Assembles ==
    ASSUME SessionInv, SocketInv', Refines, Keeps, Grows,
           phase' \in Phases, callbacks' \in Seq(LifecycleKinds),
           session' \in [Commands -> SessionStates],
           \A c \in Commands :
              /\ session'[c].at = "watch" => session'[c].left # 0
              /\ session'[c].at \in Cleared \cup {"clear"} => session'[c].task \in {"connect", "disconnect"}
              /\ AskedFor(c)' /\ LifecycleFor(c)'
              /\ Quiet(c) \/ FreshFor(c)'
    PROVE  SessionInv'
<1>1. SessionTypeOK'
  BY DEF SessionTypeOK, SessionStates, SocketInv
<1>2. Proofs!Inv'
  BY SameSteps, Proofs!InvNext DEF SessionInv
<1>3. TaskInv'
  BY DEF TaskInv
<1>4. AskedInv' /\ CollectedInv' /\ LifecycleIsFresh'
  BY AskedForAll, LifecycleForAll
<1>5. FreshInv'
  <2>1. events' \in Seq(Nat)
    BY DEF SocketInv, TypeOK
  <2>2. \A c \in Commands : FreshFor(c)'
    BY <2>1, FreshKept DEF SessionInv
  <2> QED BY <2>2, FreshForAll
<1> QED BY <1>1, <1>2, <1>3, <1>4, <1>5 DEF SessionInv

\* A step that leaves the processes where they are.
LEMMA StillStep ==
    ASSUME SessionInv, SocketInv', Refines, Keeps, Grows,
           phase' \in Phases, callbacks' \in Seq(LifecycleKinds), session' = session, got' = got,
           \A c \in Commands : AskedFor(c)' /\ (Quiet(c) \/ FreshFor(c)')
    PROVE  SessionInv'
<1>1. /\ session' \in [Commands -> SessionStates]
      /\ \A c \in Commands :
            /\ session'[c].at = "watch" => session'[c].left # 0
            /\ session'[c].at \in Cleared \cup {"clear"} => session'[c].task \in {"connect", "disconnect"}
  BY SessionTypes DEF SessionInv, SessionTypeOK, TaskInv
<1>2. \A c \in Commands : LifecycleFor(c)'
  BY LifecycleKept
<1> QED BY <1>1, <1>2, Assembles

-----------------------------------------------------------------------------
(* TeamSpeak, the server, and the other processes                           *)

\* A step that touches no exchange.
LEMMA ApartStep ==
    ASSUME SessionInv, SocketInv', Refines, Keeps, Grows,
           phase' \in Phases, callbacks' \in Seq(LifecycleKinds),
           UNCHANGED <<session, backlog, server, call, got>>
    PROVE  SessionInv'
<1>1. \A c \in Commands : Quiet(c)
  BY SameAnswers, SameQuiet
<1>2. \A c \in Commands : AskedFor(c)'
  BY DEF SessionInv, AskedInv, AskedFor, RequestOf
<1> QED BY <1>1, <1>2, StillStep

\* The status moves, and its report is queued.
LEMMA StatusTypes ==
    ASSUME SessionTypeOK, NEW p \in Phases, StatusBecomes(p)
    PROVE  phase' \in Phases /\ callbacks' \in Seq(LifecycleKinds)
BY SessionTypes, AppendProperties DEF StatusBecomes, LifecycleKinds

\* The connection moves and its callbacks run.
LEMMA TeamSpeakStep == SessionInv /\ TeamSpeak => SessionInv'
<1> SUFFICES ASSUME SessionInv, TeamSpeak PROVE SessionInv'
  OBVIOUS
<1>1. SocketInv /\ SessionTypeOK /\ TypeOK /\ phase \in Phases /\ callbacks \in Seq(LifecycleKinds)
  BY SessionTypes DEF SessionInv
<1>2. CASE ConnectionMoves
  <2>1. PICK p \in Phases : StatusBecomes(p)
    BY <1>2 DEF ConnectionMoves, Phases
  <2>2. UNCHANGED <<raised, events, backlog, server, stopper, call, got, session>>
    BY <1>2 DEF ConnectionMoves, vars
  <2>3. SocketInv'
    BY <1>1, <2>2 DEF SocketInv, TypeOK
  <2>4. Refines
    BY <2>2, Stutters DEF Underway
  <2> QED BY <1>1, <2>1, <2>2, <2>3, <2>4, StatusTypes, Kept, SameGrows, ApartStep
<1>3. CASE CallbackRuns
  <2>1. /\ Head(callbacks) \in LifecycleKinds /\ Tail(callbacks) \in Seq(LifecycleKinds)
        /\ callbacks' = Tail(callbacks) /\ phase' = phase /\ session' = session
    BY <1>1, <1>3, HeadTailProperties DEF CallbackRuns
  <2>2. CASE stopper = "down"
    <3>1. UNCHANGED <<raised, events, backlog, server, stopper, call, got>>
      BY <1>3, <2>2 DEF CallbackRuns, vars
    <3>2. SocketInv'
      BY <1>1, <3>1 DEF SocketInv, TypeOK
    <3>3. Refines
      BY <3>1, Stutters DEF Underway
    <3> QED BY <1>1, <2>1, <3>1, <3>2, <3>3, Kept, SameGrows, ApartStep
  <2>3. CASE stopper # "down"
    <3>1. Pushes(<<Head(callbacks)>>) /\ UNCHANGED <<backlog, server, stopper, call, got>>
      BY <1>3, <2>3 DEF CallbackRuns
    <3>2. Head(callbacks) \in Kinds
      BY <2>1, KindsAssumption DEF LifecycleKinds
    <3>3. Keeps /\ Grows
      BY <1>1, <3>1, <3>2, PushesKeep, PushGrows
    <3>4. SocketInv' /\ Refines
      BY <1>1, <3>1, <3>2, PushStep
    <3> QED BY <1>1, <2>1, <3>1, <3>3, <3>4, ApartStep
  <2> QED BY <2>2, <2>3
<1>4. ASSUME NEW k \in Kinds, RaiseEvent(k), UNCHANGED sessionVars PROVE SessionInv'
  <2>1. /\ UNCHANGED <<backlog, server, call, got, phase, callbacks, session>>
        /\ Pushes(<<k>>)
    BY <1>4 DEF RaiseEvent, sessionVars
  <2>2. Keeps /\ Grows
    BY <1>1, <2>1, PushesKeep, PushGrows
  <2> QED BY <1>1, <1>4, <2>1, <2>2, RaiseStep, ApartStep
<1>5. CASE OtherCallback \/ StrangerFails
  BY <1>4, <1>5, KindsAssumption DEF OtherCallback, StrangerFails
<1> QED BY <1>2, <1>3, <1>5 DEF TeamSpeak

\* Another process takes an event.
LEMMA RivalTakesStep == SessionInv /\ RivalTakes => SessionInv'
<1> SUFFICES ASSUME SessionInv, RivalTakes PROVE SessionInv'
  OBVIOUS
<1>1. SocketInv /\ SessionTypeOK /\ TypeOK /\ phase \in Phases /\ callbacks \in Seq(LifecycleKinds)
  BY SessionTypes DEF SessionInv
<1>2. /\ UNCHANGED <<raised, backlog, server, call, got, phase, callbacks, session>>
      /\ events # <<>> /\ events' = Tail(events)
  BY DEF RivalTakes, sessionVars
<1> QED BY <1>1, <1>2, RivalStep, Kept, PopGrows, ApartStep

\* The answer to a connection changes nothing for the others.
LEMMA ServesOthers ==
    ASSUME SessionInv, NEW reply, Serves(reply), server.at = "serve", session' = session,
           UNCHANGED <<backlog, call>>
    PROVE  /\ server'.reply = reply /\ server'.conn = server.conn /\ server'.at = "reply"
           /\ \A c \in Commands : server.conn.from # c => Quiet(c)
           /\ \A c \in Commands : AskedFor(c)'
<1>1. server'.reply = reply /\ server'.conn = server.conn /\ server'.at = "reply"
  BY SessionTypes DEF SessionInv, Serves, ServerStates
<1>2. ASSUME NEW c \in Commands, server.conn.from # c PROVE Quiet(c)
  <2>1. Underway(c)' = Underway(c)
    BY <1>1, <1>2 DEF Underway
  <2>2. Empties(c)' <=> Empties(c)
    BY <1>1, <1>2 DEF Empties
  <2> QED BY <2>1, <2>2 DEF Quiet
<1>3. \A c \in Commands : AskedFor(c)'
  BY <1>1 DEF SessionInv, AskedInv, AskedFor, RequestOf
<1> QED BY <1>1, <1>2, <1>3

\* A command other than next_event: nobody that clears the queue asks for it.
LEMMA CommandServed ==
    ASSUME SessionInv, NEW r \in Requests, NEW reply \in Replies, reply.event = 0,
           NEW ks, ks = <<>> \/ \E k \in Kinds : ks = <<k>>,
           RunCommand(r, reply, ks), session' = session,
           phase' \in Phases, callbacks' \in Seq(LifecycleKinds)
    PROVE  SessionInv'
<1>1. SocketInv /\ TypeOK
  BY DEF SessionInv, SocketInv
<1>2. /\ Serves(reply) /\ Pushes(ks) /\ UNCHANGED <<backlog, call, got>>
      /\ server.at = "serve" /\ server.conn.request = r
  BY DEF RunCommand
<1>3. Keeps /\ Grows
  BY <1>1, <1>2, PushesKeep, PushGrows
<1>4. SocketInv' /\ Refines
  BY <1>1, CommandStep
<1>5. /\ server'.reply = reply /\ server'.conn = server.conn /\ server'.at = "reply"
      /\ \A c \in Commands : server.conn.from # c => Quiet(c)
      /\ \A c \in Commands : AskedFor(c)'
  BY <1>2, ServesOthers
<1>6. ASSUME NEW c \in Commands, server.conn.from = c PROVE Quiet(c)
  <2>1. c \in Clients
    BY CommandsAssumption
  <2>2. call[c].at = "asking"
    BY <1>1, <1>6, <2>1 DEF SocketInv
  <2>3. Underway(c)' = 0
    BY <1>2, <1>5, <1>6, <2>2 DEF Underway
  <2>4. RequestOf(session[c]) = r
    BY <1>2, <1>6 DEF SessionInv, AskedInv
  <2>5. session[c].at # "clear"
    BY <2>4, RequestsAssumption DEF RequestOf
  <2> QED BY <2>3, <2>5 DEF Quiet
<1> QED BY <1>2, <1>3, <1>4, <1>5, <1>6, StillStep

\* The server accepts, pops, answers and runs commands.
LEMMA ServerStep == SessionInv /\ (Server \/ ServeRefuses) => SessionInv'
<1> SUFFICES ASSUME SessionInv, Server \/ ServeRefuses PROVE SessionInv'
  OBVIOUS
<1>1. /\ SocketInv /\ SessionTypeOK /\ TypeOK /\ phase \in Phases
      /\ callbacks \in Seq(LifecycleKinds) /\ server \in ServerStates
      /\ call \in [Clients -> CallStates]
  BY SessionTypes DEF SessionInv
<1>2. CASE Accept /\ UNCHANGED sessionVars
  <2>1. /\ UNCHANGED <<raised, events, call, got, session, phase, callbacks>>
        /\ backlog # <<>> /\ backlog' = Tail(backlog) /\ server.at = "accept"
    BY <1>2 DEF Accept, sessionVars
  <2>2. /\ server'.at # "reply"
        /\ server'.conn = server.conn \/ server'.conn = Head(backlog)
    BY <1>1, <1>2 DEF Accept, ServerStates
  <2>3. SocketInv' /\ Refines
    BY <1>1, <1>2, AcceptStep
  <2>4. /\ Head(backlog) = backlog[1] /\ 1 \in DOMAIN backlog
        /\ \A i \in DOMAIN backlog' : i + 1 \in DOMAIN backlog /\ backlog'[i] = backlog[i + 1]
    <3>1. backlog \in Seq(Connections)
      BY <1>1 DEF TypeOK
    <3>2. /\ Len(backlog) \in Nat /\ Len(backlog) # 0 /\ DOMAIN backlog = 1..Len(backlog)
          /\ DOMAIN Tail(backlog) = 1..Len(backlog) - 1 /\ Head(backlog) = backlog[1]
          /\ \A i \in 1..Len(backlog) - 1 : Tail(backlog)[i] = backlog[i + 1]
      BY <2>1, <3>1, HeadTailProperties, LenProperties, EmptySeq
    <3> QED BY <2>1, <3>2
  <2>5. \A c \in Commands : AskedFor(c)'
    <3> TAKE c \in Commands
    <3>1. \A i \in DOMAIN backlog' : \E j \in DOMAIN backlog : backlog'[i] = backlog[j]
      BY <2>4
    <3>2. server'.conn = server.conn \/ \E j \in DOMAIN backlog : server'.conn = backlog[j]
      BY <2>2, <2>4
    <3> QED BY <2>1, <3>1, <3>2, AskedKept DEF SessionInv, RequestOf
  <2>6. \A c \in Commands : Quiet(c)
    <3> TAKE c \in Commands
    <3>1. Underway(c)' = Underway(c)
      BY <2>1, <2>2 DEF Underway
    <3>2. Empties(c)' <=> Empties(c)
      BY <2>1, <2>2 DEF Empties
    <3> QED BY <2>1, <3>1, <3>2 DEF Quiet
  <2> QED BY <1>1, <2>1, <2>3, <2>5, <2>6, Kept, SameGrows, StillStep
<1>3. CASE PopEvent /\ UNCHANGED sessionVars
  <2> DEFINE reply == [NoReply EXCEPT !.event = Head(events)]
  <2>1. /\ UNCHANGED <<raised, backlog, call, got, session, phase, callbacks>>
        /\ Serves(reply) /\ server.at = "serve" /\ events # <<>> /\ events' = Tail(events)
    BY <1>3 DEF PopEvent, sessionVars
  <2>2. Grows /\ Head(events) \in Delivery!Of(events)
    BY <1>1, <2>1, PopGrows
  <2>3. reply.event = Head(events) /\ Head(events) # 0
    <3>1. \A e \in Delivery!Of(events) : 1 <= e
      BY DEF SessionInv, Proofs!Inv, Proofs!Of, Delivery!Of
    <3> QED BY <2>2, <3>1 DEF NoReply
  <2>4. SocketInv' /\ Refines
    BY <1>1, <1>3, PopStep
  <2> HIDE DEF reply
  <2>5. /\ server'.reply = reply /\ server'.conn = server.conn /\ server'.at = "reply"
        /\ \A c \in Commands : server.conn.from # c => Quiet(c)
        /\ \A c \in Commands : AskedFor(c)'
    BY <2>1, ServesOthers
  <2>6. ASSUME NEW c \in Commands, server.conn.from = c PROVE Quiet(c)
    <3>1. c \in Clients
      BY CommandsAssumption
    <3>2. call[c].at = "asking"
      BY <1>1, <2>6, <3>1 DEF SocketInv
    <3>3. Underway(c)' = Head(events)
      BY <2>1, <2>3, <2>5, <2>6, <3>2 DEF Underway
    <3>4. ~Empties(c)'
      BY <2>1, <2>3, <2>5, <3>2 DEF Empties
    <3> QED BY <2>1, <2>2, <3>3, <3>4 DEF Quiet
  <2> QED BY <1>1, <2>1, <2>2, <2>4, <2>5, <2>6, Kept, StillStep
<1>4. CASE PopTimesOut /\ UNCHANGED sessionVars
  <2>1. /\ UNCHANGED <<raised, events, backlog, call, got, session, phase, callbacks>>
        /\ Serves(NoReply) /\ server.at = "serve" /\ events = <<>>
    BY <1>4 DEF PopTimesOut, sessionVars
  <2>2. SocketInv' /\ Refines
    BY <1>1, <1>4, ReplyStep
  <2>3. /\ server'.reply = NoReply /\ server'.conn = server.conn /\ server'.at = "reply"
        /\ \A c \in Commands : AskedFor(c)'
    BY <2>1, ServesOthers
  <2>4. \A c \in Commands : FreshFor(c)'
    <3> TAKE c \in Commands
    <3>1. Underway(c)' # 0 => Underway(c)' = Underway(c)
      BY <2>1, <2>3, ValueTypes DEF Underway
    <3>2. Delivery!Of(events') = {}
      BY <2>1 DEF Delivery!Of
    <3> QED BY <2>1, <3>1, <3>2 DEF SessionInv, FreshInv, FreshFor
  <2> QED BY <1>1, <2>1, <2>2, <2>3, <2>4, Kept, SameGrows, StillStep
<1>5. CASE SendReply /\ UNCHANGED sessionVars
  <2>1. /\ UNCHANGED <<raised, events, backlog, got, session, phase, callbacks>>
        /\ server.at = "reply"
    BY <1>5 DEF SendReply, sessionVars
  <2>2. server'.conn = Idle /\ server'.at # "reply"
    BY <1>1, <1>5 DEF SendReply, ServerStates
  <2>3. SocketInv' /\ Refines
    BY <1>1, <1>5, SendStep
  <2>4. ASSUME NEW c \in Commands
        PROVE  /\ server.conn.from = c =>
                     call'[c] = [at |-> "answered", reply |-> server.reply] /\ call[c].at = "asking"
               /\ server.conn.from # c => call'[c] = call[c]
    <3>1. c \in Clients /\ c # Nobody
      BY CommandsAssumption, NobodyAssumption
    <3>2. server.conn.from = c => call[c].at = "asking"
      BY <1>1, <3>1 DEF SocketInv
    <3> QED BY <1>1, <1>5, <3>1, <3>2 DEF SendReply, Answered
  <2>5. \A c \in Commands : AskedFor(c)'
    <3> TAKE c \in Commands
    <3>1. server'.conn.from # c
      BY <2>2, CommandsAssumption, NobodyAssumption DEF Idle
    <3>2. call'[c].at # "idle" => call[c].at # "idle"
      BY <2>4
    <3> QED BY <2>1, <3>1, <3>2, AskedKept DEF SessionInv, RequestOf
  <2>6. \A c \in Commands : Quiet(c)
    <3> TAKE c \in Commands
    <3>1. Underway(c)' = Underway(c)
      BY <2>1, <2>2, <2>4 DEF Underway
    <3>2. Empties(c)' <=> Empties(c)
      BY <2>1, <2>2, <2>4 DEF Empties
    <3> QED BY <2>1, <3>1, <3>2 DEF Quiet
  <2> QED BY <1>1, <2>1, <2>3, <2>5, <2>6, Kept, SameGrows, StillStep
<1>6. CASE ServeConnect \/ ServeDisconnect
  <2>1. PICK r \in {"connect", "disconnect"}, p \in Phases, ks \in {<<"progress">>, <<>>} :
           RunCommand(r, NoReply, ks) /\ StatusBecomes(p) /\ session' = session
    BY <1>1, <1>6 DEF ServeConnect, ServeDisconnect, Phases
  <2>2. r \in Requests
    BY TasksAssumption
  <2>3. ks = <<>> \/ \E k \in Kinds : ks = <<k>>
    BY KindsAssumption
  <2> QED BY <1>1, <2>1, <2>2, <2>3, StatusTypes, CommandServed, ValueTypes
<1>7. CASE ServeState
  <2>1. RunCommand("connection_state", [NoReply EXCEPT !.phase = phase], <<>>)
        /\ UNCHANGED sessionVars
    BY <1>7 DEF ServeState
  <2>2. [NoReply EXCEPT !.phase = phase] \in Replies /\ [NoReply EXCEPT !.phase = phase].event = 0
    BY <1>1 DEF NoReply, Replies, Phases
  <2>3. "connection_state" \in Requests
    BY TasksAssumption
  <2> QED BY <1>1, <2>1, <2>2, <2>3, CommandServed DEF sessionVars
<1>8. CASE ServeRefuses
  BY <1>1, <1>8, ValueTypes, CommandServed DEF ServeRefuses, sessionVars
<1> QED BY <1>2, <1>3, <1>4, <1>5, <1>6, <1>7, <1>8 DEF Server, ServerThread

-----------------------------------------------------------------------------
(* The processes                                                            *)

\* A step of process p changes nothing for the others.
LEMMA OthersKept ==
    ASSUME SessionInv, NEW p \in Commands, NEW c \in Commands, c # p,
           NEW s, session' = [session EXCEPT ![p] = s],
           call'[c] = call[c], server'.at = server.at, server'.reply = server.reply,
           server'.conn.from = c => server'.conn = server.conn,
           server.conn.from = c => server'.conn = server.conn,
           \A i \in DOMAIN backlog' : backlog'[i].from = c =>
              \E j \in DOMAIN backlog : backlog'[i] = backlog[j],
           got'[c] = got[c]
    PROVE  /\ session'[c] = session[c] /\ Quiet(c) /\ AskedFor(c)' /\ LifecycleFor(c)'
           /\ session'[c].at = "watch" => session'[c].left # 0
           /\ session'[c].at \in Cleared \cup {"clear"} => session'[c].task \in {"connect", "disconnect"}
<1>1. session'[c] = session[c]
  BY SessionTypes DEF SessionInv
<1>2. Underway(c)' = Underway(c) /\ Empties(c)' = Empties(c)
  <2>1. server'.conn.from = c <=> server.conn.from = c
    OBVIOUS
  <2> QED BY <2>1, SameAnswers
<1>3. Quiet(c)
  BY <1>1, <1>2 DEF Quiet
<1>4. AskedFor(c)'
  BY <1>1, AskedKept DEF SessionInv, RequestOf
<1>5. LifecycleFor(c)'
  BY <1>1, LifecycleKept
<1> QED BY <1>1, <1>3, <1>4, <1>5 DEF SessionInv, SessionTypeOK, TaskInv

\* A process begins: with an empty lifecycle, at the events raised so far.
LEMMA BeginStep == \A p \in Commands : SessionInv /\ Begin(p) => SessionInv'
<1> SUFFICES ASSUME NEW p \in Commands, SessionInv, Begin(p) PROVE SessionInv'
  OBVIOUS
<1>1. /\ SocketInv /\ SessionTypeOK /\ TypeOK /\ phase \in Phases
      /\ callbacks \in Seq(LifecycleKinds) /\ session \in [Commands -> SessionStates]
      /\ Len(raised) \in Nat /\ p \in Clients
  BY SessionTypes, CommandsAssumption DEF SessionInv
<1>2. UNCHANGED <<raised, events, backlog, server, stopper, call, got, phase, callbacks>>
  BY DEF Begin, vars
<1>3. session[p].at = "idle" /\ call[p].at = "idle" /\ session[p].runs < MaxRuns
  BY DEF Begin
<1>4. PICK t \in Tasks :
        session' = [session EXCEPT ![p] =
            [NewSession EXCEPT !.at = IF t = "watch" THEN "watch" ELSE "clear",
                               !.task = t, !.left = IF t = "watch" THEN WatchCount ELSE 0,
                               !.runs = session[p].runs + 1, !.before = Len(raised)]]
  BY DEF Begin
<1> DEFINE s == [NewSession EXCEPT !.at = IF t = "watch" THEN "watch" ELSE "clear",
                               !.task = t, !.left = IF t = "watch" THEN WatchCount ELSE 0,
                               !.runs = session[p].runs + 1, !.before = Len(raised)]
<1>5. /\ s.lifecycle = <<>> /\ s.before = Len(raised) /\ s.task = t
      /\ t = "watch" => s.at = "watch" /\ s.left = WatchCount
      /\ t # "watch" => s.at = "clear"
  BY DEF NewSession
<1>6. s \in SessionStates
  <2>1. session[p].runs + 1 \in 0..MaxRuns
    BY <1>1, <1>3, RunsAssumption DEF SessionStates
  <2>2. WatchCount \in 0..WatchCount /\ 0 \in 0..WatchCount
    BY RunsAssumption
  <2>3. NewSession \in SessionStates
    <3>1. 0 \in 0..MaxRuns
      BY RunsAssumption
    <3> QED BY <2>2, <3>1 DEF NewSession, SessionStates
  <2> DEFINE at == IF t = "watch" THEN "watch" ELSE "clear"
             left == IF t = "watch" THEN WatchCount ELSE 0
             runs == session[p].runs + 1
             before == Len(raised)
  <2>4. /\ at \in {"watch", "clear"} /\ left \in 0..WatchCount /\ runs \in 0..MaxRuns
        /\ before \in Nat
    BY <1>1, <2>1, <2>2
  <2>5. s = [NewSession EXCEPT !.at = at, !.task = t, !.left = left, !.runs = runs,
                               !.before = before]
    OBVIOUS
  <2> HIDE DEF s, at, left, runs, before
  <2> QED BY <2>3, <2>4, <2>5 DEF SessionStates
<1>7. session' = [session EXCEPT ![p] = s]
  BY <1>4
<1> HIDE DEF s
<1>8. session' \in [Commands -> SessionStates] /\ session'[p] = s
  BY <1>1, <1>6, <1>7
<1>9. SocketInv' /\ Refines
  <2>1. SocketInv'
    BY <1>1, <1>2 DEF SocketInv, TypeOK
  <2> QED BY <1>2, <2>1, Stutters DEF Underway
<1>10. ASSUME NEW c \in Commands, c # p
       PROVE  /\ Quiet(c) /\ AskedFor(c)' /\ LifecycleFor(c)'
              /\ session'[c].at = "watch" => session'[c].left # 0
              /\ session'[c].at \in Cleared \cup {"clear"} => session'[c].task \in {"connect", "disconnect"}
  BY <1>2, <1>7, <1>10, OthersKept
<1>11. AskedFor(p)'
  BY <1>2, <1>3, <1>9, AskedNone
<1>12. LifecycleFor(p)'
  BY <1>2, <1>5, <1>8, LifecycleKept
<1>13. FreshFor(p)'
  <2>1. server.conn.from # p
    BY <1>1, <1>3 DEF SocketInv
  <2>2. ~Empties(p)'
    BY <1>2, <1>3, <2>1 DEF Empties
  <2>3. session'[p].at \notin Cleared
    BY <1>5, <1>8 DEF Cleared
  <2> QED BY <1>1, <1>2, <1>5, <1>8, <2>2, <2>3 DEF FreshFor
<1>14. /\ session'[p].at = "watch" => session'[p].left # 0
       /\ session'[p].at \in Cleared \cup {"clear"} => session'[p].task \in {"connect", "disconnect"}
  <2>1. t = "watch" => s.at \notin Cleared \cup {"clear"}
    BY <1>5 DEF Cleared
  <2>2. t \in {"connect", "disconnect", "watch"}
    BY TasksAssumption
  <2> QED BY <1>5, <1>8, <2>1, <2>2, RunsAssumption
<1> QED BY <1>1, <1>2, <1>8, <1>9, <1>10, <1>11, <1>12, <1>13, <1>14, Kept, SameGrows, Assembles

\* Its deadline passes.
LEMMA DeadlineStep == \A p \in Commands : SessionInv /\ Deadline(p) => SessionInv'
<1> SUFFICES ASSUME NEW p \in Commands, SessionInv, Deadline(p) PROVE SessionInv'
  OBVIOUS
<1>1. /\ SocketInv /\ SessionTypeOK /\ TypeOK /\ phase \in Phases
      /\ callbacks \in Seq(LifecycleKinds) /\ session \in [Commands -> SessionStates]
  BY SessionTypes DEF SessionInv
<1>2. UNCHANGED <<raised, events, backlog, server, stopper, call, got, phase, callbacks>>
  BY DEF Deadline, vars
<1> DEFINE s == [session[p] EXCEPT !.late = TRUE]
<1>3. session' = [session EXCEPT ![p] = s]
  BY DEF Deadline
<1>4. /\ s \in SessionStates /\ s.at = session[p].at /\ s.task = session[p].task
      /\ s.lifecycle = session[p].lifecycle /\ s.before = session[p].before
      /\ s.left = session[p].left
  BY <1>1 DEF SessionStates
<1> HIDE DEF s
<1>5. session' \in [Commands -> SessionStates] /\ session'[p] = s
  BY <1>1, <1>3, <1>4
<1>6. SocketInv' /\ Refines
  <2>1. SocketInv'
    BY <1>1, <1>2 DEF SocketInv, TypeOK
  <2> QED BY <1>2, <2>1, Stutters DEF Underway
<1>7. ASSUME NEW c \in Commands, c # p
      PROVE  /\ Quiet(c) /\ AskedFor(c)' /\ LifecycleFor(c)'
             /\ session'[c].at = "watch" => session'[c].left # 0
             /\ session'[c].at \in Cleared \cup {"clear"} => session'[c].task \in {"connect", "disconnect"}
  BY <1>2, <1>3, <1>7, OthersKept
<1>8. AskedFor(p)'
  <2>1. RequestOf(session[p])' = RequestOf(session[p])
    BY <1>4, <1>5 DEF RequestOf
  <2> QED BY <1>2, <1>4, <1>5, <2>1, AskedKept DEF SessionInv
<1>9. LifecycleFor(p)'
  BY <1>2, <1>4, <1>5, LifecycleKept
<1>10. Quiet(p)
  <2>1. Underway(p)' = Underway(p) /\ Empties(p)' = Empties(p)
    BY <1>2, SameAnswers
  <2> QED BY <1>4, <1>5, <2>1 DEF Quiet
<1>11. /\ session'[p].at = "watch" => session'[p].left # 0
       /\ session'[p].at \in Cleared \cup {"clear"} => session'[p].task \in {"connect", "disconnect"}
  BY <1>4, <1>5 DEF SessionInv, SessionTypeOK, TaskInv
<1> QED BY <1>1, <1>2, <1>5, <1>6, <1>7, <1>8, <1>9, <1>10, <1>11, Kept, SameGrows, Assembles

\* Its exchange ends without an answer: nothing of it is left in the socket.
LEMMA AbandonRest ==
    ASSUME SessionInv, NEW p \in Commands, Abandon(p)
    PROVE  /\ server'.conn.from # p /\ server'.at = server.at /\ server'.reply = server.reply
           /\ \A c \in Commands : c # p =>
                 /\ server'.conn.from = c => server'.conn = server.conn
                 /\ server.conn.from = c => server'.conn = server.conn
           /\ \A c \in Commands : \A i \in DOMAIN backlog' : backlog'[i].from = c =>
                 c # p /\ \E j \in DOMAIN backlog : backlog'[i] = backlog[j]
<1> DEFINE Orphan(conn) == IF conn.from = p THEN [conn EXCEPT !.from = Nobody] ELSE conn
<1>1. backlog' = [i \in DOMAIN backlog |-> Orphan(backlog[i])] /\ server' = [server EXCEPT !.conn = Orphan(@)]
  BY DEF Abandon
<1>2. server \in ServerStates /\ backlog \in Seq(Connections) /\ server.conn \in Connections
  BY SessionTypes DEF SessionInv, TypeOK, ServerStates
<1>3. \A i \in DOMAIN backlog : backlog[i] \in Connections
  BY <1>2
<1>4. p # Nobody /\ \A c \in Commands : c # Nobody
  BY CommandsAssumption, NobodyAssumption
<1>5. \A conn \in Connections :
         /\ Orphan(conn).from # p
         /\ \A c \in Commands : Orphan(conn).from = c => c # p /\ Orphan(conn) = conn
         /\ conn.from # p => Orphan(conn) = conn
  BY <1>4 DEF Connections
<1> HIDE DEF Orphan
<1>6. /\ server'.at = server.at /\ server'.reply = server.reply
      /\ server'.conn = Orphan(server.conn)
  BY <1>1, <1>2 DEF ServerStates
<1>7. \A i \in DOMAIN backlog' : i \in DOMAIN backlog /\ backlog'[i] = Orphan(backlog[i])
  BY <1>1
<1> QED BY <1>2, <1>3, <1>5, <1>6, <1>7

\* A step of process p, put together.
LEMMA ProcessStep ==
    ASSUME SessionInv, NEW p \in Commands, NEW s \in SessionStates,
           session' = [session EXCEPT ![p] = s],
           SocketInv', Refines, UNCHANGED <<raised, events, phase, callbacks>>,
           \A c \in Commands : c # p =>
              /\ call'[c] = call[c] /\ got'[c] = got[c]
              /\ server'.conn.from = c => server'.conn = server.conn
              /\ server.conn.from = c => server'.conn = server.conn
              /\ \A i \in DOMAIN backlog' : backlog'[i].from = c =>
                    \E j \in DOMAIN backlog : backlog'[i] = backlog[j],
           server'.at = server.at, server'.reply = server.reply,
           AskedFor(p)', LifecycleFor(p)', Quiet(p),
           s.at = "watch" => s.left # 0,
           s.at \in Cleared \cup {"clear"} => s.task \in {"connect", "disconnect"}
    PROVE  SessionInv'
<1>1. /\ SessionTypeOK /\ TypeOK /\ phase \in Phases
      /\ callbacks \in Seq(LifecycleKinds) /\ session \in [Commands -> SessionStates]
  BY SessionTypes DEF SessionInv
<1>2. session' \in [Commands -> SessionStates] /\ session'[p] = s
  BY <1>1
<1>3. ASSUME NEW c \in Commands, c # p
      PROVE  /\ Quiet(c) /\ AskedFor(c)' /\ LifecycleFor(c)'
             /\ session'[c].at = "watch" => session'[c].left # 0
             /\ session'[c].at \in Cleared \cup {"clear"} => session'[c].task \in {"connect", "disconnect"}
  BY <1>3, OthersKept
<1> QED BY <1>1, <1>2, <1>3, Kept, SameGrows, Assembles

\* It asks, and its connection is queued or refused.
LEMMA SessionAsksStep == \A p \in Commands : SessionInv /\ SessionAsks(p) => SessionInv'
<1> SUFFICES ASSUME NEW p \in Commands, SessionInv, SessionAsks(p) PROVE SessionInv'
  OBVIOUS
<1>1. /\ SocketInv /\ SessionTypeOK /\ TypeOK /\ session \in [Commands -> SessionStates]
      /\ call \in [Clients -> CallStates] /\ p \in Clients /\ backlog \in Seq(Connections)
  BY SessionTypes, CommandsAssumption DEF SessionInv, TypeOK
<1> DEFINE r == RequestOf(session[p])
<1>2. Ask(p, r) /\ session[p].at # "idle" /\ UNCHANGED <<phase, callbacks, session>>
  BY DEF SessionAsks, sessionVars
<1>3. r \in Requests \cup {"next_event"}
  <2>1. session[p].at = "send" => session[p].task \in {"connect", "disconnect"}
    BY DEF SessionInv, TaskInv, Cleared
  <2> QED BY <2>1, TasksAssumption DEF RequestOf
<1>4. SocketInv' /\ Refines
  BY <1>1, <1>2, <1>3, AskStep
<1>5. /\ UNCHANGED <<raised, events, server, got>> /\ call[p].at = "idle"
      /\ \A c \in Clients : c # p => call'[c] = call[c]
      /\ call'[p].at \in {"asking", "answered"}
      /\ call'[p].at = "answered" => call'[p].reply = Failed
      /\ backlog' = backlog \/ backlog' = Append(backlog, [from |-> p, request |-> r])
  BY <1>1, <1>2 DEF Ask, Answered, CallStates
<1> HIDE DEF r
<1>6. \A i \in DOMAIN backlog' :
         \/ \E j \in DOMAIN backlog : backlog'[i] = backlog[j]
         \/ backlog'[i] = [from |-> p, request |-> r]
  <2>1. CASE backlog' = backlog
    BY <2>1
  <2>2. CASE backlog' = Append(backlog, [from |-> p, request |-> r])
    <3> DEFINE conn == [from |-> p, request |-> r]
    <3>1. /\ DOMAIN backlog = 1..Len(backlog) /\ DOMAIN backlog' = 1..Len(backlog) + 1
          /\ Len(backlog) \in Nat
          /\ \A i \in 1..Len(backlog) : backlog'[i] = backlog[i]
          /\ backlog'[Len(backlog) + 1] = conn
      <4> HIDE DEF conn
      <4> QED BY <1>1, <2>2 DEF conn
    <3> QED BY <3>1
  <2> QED BY <1>5, <2>1, <2>2
<1>7. server.conn.from # p
  BY <1>1, <1>5 DEF SocketInv
<1>8. AskedFor(p)'
  <2>1. \A i \in DOMAIN backlog' : backlog'[i].from = p =>
           \/ \E j \in DOMAIN backlog : backlog'[i] = backlog[j]
           \/ backlog'[i].request = RequestOf(session[p])
    BY <1>6 DEF r
  <2> QED BY <1>2, <1>5, <2>1, AskedKept DEF SessionInv, RequestOf
<1>9. Quiet(p)
  BY <1>2, <1>5, <1>7, Silent, SilentQuiet
<1>10. LifecycleFor(p)'
  BY <1>2, <1>5, LifecycleKept
<1>11. session' = [session EXCEPT ![p] = session[p]] /\ session[p] \in SessionStates
  BY <1>1, <1>2
<1>12. \A c \in Commands : c # p =>
          \A i \in DOMAIN backlog' : backlog'[i].from = c =>
             \E j \in DOMAIN backlog : backlog'[i] = backlog[j]
  BY <1>6
<1>13. \A c \in Commands : c \in Clients
  BY CommandsAssumption
<1>14. /\ session[p].at = "watch" => session[p].left # 0
       /\ session[p].at \in Cleared \cup {"clear"} => session[p].task \in {"connect", "disconnect"}
  BY DEF SessionInv, SessionTypeOK, TaskInv
<1> QED BY <1>2, <1>4, <1>5, <1>8, <1>9, <1>10, <1>11, <1>12, <1>13, <1>14, ProcessStep

\* It gives up waiting, or is interrupted.
LEMMA SessionGoneStep ==
    \A p \in Commands : SessionInv /\ (SessionGivesUp(p) \/ Interrupted(p)) => SessionInv'
<1> SUFFICES ASSUME NEW p \in Commands, SessionInv, SessionGivesUp(p) \/ Interrupted(p)
             PROVE  SessionInv'
  OBVIOUS
<1>1. /\ SocketInv /\ SessionTypeOK /\ TypeOK /\ session \in [Commands -> SessionStates]
      /\ call \in [Clients -> CallStates] /\ p \in Clients
  BY SessionTypes, CommandsAssumption DEF SessionInv
<1>2. /\ GiveUp(p) \/ Vanish(p)
      /\ UNCHANGED <<raised, events, got, phase, callbacks>> /\ Abandon(p)
      /\ \A c \in Clients : c # p => call'[c] = call[c]
      /\ call'[p].at # "answered" \/ call'[p].reply = Failed
      /\ call[p].at # "idle"
  BY <1>1 DEF SessionGivesUp, Interrupted, GiveUp, Vanish, Answered, sessionVars, CallStates
<1>3. SocketInv' /\ Refines
  BY <1>1, <1>2, GoneStep
<1>4. PICK s \in {session[p], [session[p] EXCEPT !.at = "idle", !.result = "none"]} :
         session' = [session EXCEPT ![p] = s] /\ (s.at = "idle" => call'[p].at = "idle")
  <2>1. CASE SessionGivesUp(p)
    <3>1. session' = [session EXCEPT ![p] = session[p]] /\ session[p].at # "idle"
      BY <1>1, <1>2, <2>1 DEF SessionGivesUp, sessionVars, SessionInv, AskedInv
    <3> QED BY <3>1
  <2>2. CASE Interrupted(p)
    <3>1. call'[p].at = "idle"
      BY <1>1, <2>2 DEF Interrupted, Vanish, CallStates
    <3>2. session' = [session EXCEPT ![p] = [session[p] EXCEPT !.at = "idle", !.result = "none"]]
      BY <1>1, <2>2 DEF Interrupted, Ends
    <3> QED BY <3>1, <3>2
  <2> QED BY <2>1, <2>2
<1>5. /\ s \in SessionStates /\ s.lifecycle = session[p].lifecycle
      /\ s.before = session[p].before /\ s.task = session[p].task /\ s.left = session[p].left
      /\ s.at = session[p].at \/ s.at = "idle"
  <2>1. CASE s = session[p]
    BY <1>1, <2>1
  <2>2. CASE s = [session[p] EXCEPT !.at = "idle", !.result = "none"]
    <3>1. session[p] \in SessionStates
      BY <1>1
    <3> QED BY <2>2, <3>1 DEF SessionStates
  <2> QED BY <1>4, <2>1, <2>2
<1>6. session'[p] = s
  BY <1>1, <1>4
<1>7. /\ server'.conn.from # p /\ server'.at = server.at /\ server'.reply = server.reply
      /\ \A c \in Commands : c # p =>
            /\ server'.conn.from = c => server'.conn = server.conn
            /\ server.conn.from = c => server'.conn = server.conn
      /\ \A c \in Commands : \A i \in DOMAIN backlog' : backlog'[i].from = c =>
            c # p /\ \E j \in DOMAIN backlog : backlog'[i] = backlog[j]
  BY <1>2, AbandonRest
<1>8. AskedFor(p)'
  BY <1>4, <1>6, <1>7 DEF AskedFor
<1>9. LifecycleFor(p)'
  BY <1>2, <1>5, <1>6, LifecycleKept
<1>10. Quiet(p)
  <2>1. Underway(p)' = 0 /\ ~Empties(p)'
    BY <1>2, <1>7, Silent
  <2>2. "idle" \notin Cleared
    BY DEF Cleared
  <2> QED BY <1>5, <1>6, <2>1, <2>2, SilentQuiet
<1>11. \A c \in Commands : c # p => call'[c] = call[c]
  BY <1>2, CommandsAssumption
<1>12. /\ s.at = "watch" => s.left # 0
       /\ s.at \in Cleared \cup {"clear"} => s.task \in {"connect", "disconnect"}
  BY <1>5 DEF SessionInv, SessionTypeOK, TaskInv, Cleared
<1> QED BY <1>2, <1>3, <1>4, <1>5, <1>7, <1>8, <1>9, <1>10, <1>11, <1>12, ProcessStep

\* The lifecycle with the event that has just come.
LEMMA CollectedIsFresh ==
    ASSUME SessionInv, NEW p \in Commands, Receive(p), session[p].at \in Cleared
    PROVE  /\ Collected(p) \in Seq(Nat)
           /\ Delivery!Of(Collected(p)) \subseteq Delivery!Of(got'[p])
           /\ Delivery!Ascending(Collected(p))
           /\ \A i \in DOMAIN Collected(p) : Collected(p)[i] > session[p].before
<1> DEFINE event == call[p].reply.event
           lifecycle == session[p].lifecycle
<1>1. /\ SocketInv /\ Proofs!Inv /\ got \in [Clients -> Seq(Nat)] /\ p \in Clients
      /\ call \in [Clients -> CallStates] /\ session \in [Commands -> SessionStates]
  BY SessionTypes, CommandsAssumption DEF SessionInv
<1>2. /\ event \in Nat /\ lifecycle \in Seq(Nat) /\ got[p] \in Seq(Nat)
  BY <1>1 DEF CallStates, Replies, SessionStates
<1>3. call[p].at = "answered" /\ Underway(p) = event
  BY <1>1 DEF SocketInv, Receive, Underway
<1>4. /\ Delivery!Of(lifecycle) \subseteq Delivery!Of(got[p]) /\ Delivery!Ascending(lifecycle)
      /\ \A i \in DOMAIN lifecycle : lifecycle[i] > session[p].before
  BY DEF SessionInv, CollectedInv, LifecycleIsFresh
<1>5. CASE event = 0
  <2>1. Collected(p) = lifecycle /\ got' = got
    BY <1>5 DEF Collected, Receive
  <2> QED BY <1>2, <1>4, <2>1
<1>6. CASE event # 0
  <2>1. \A e \in Delivery!Of(got[p]) : e < event
    BY <1>1, <1>3, <1>6, Received
  <2>2. session[p].before < event
    BY <1>3, <1>6 DEF SessionInv, FreshInv
  <2>3. got'[p] = Append(got[p], event)
    BY <1>1, <1>6 DEF Receive
  <2>4. Delivery!Of(got'[p]) = Delivery!Of(got[p]) \cup {event}
    BY <1>2, <2>3, Appends
  <2>5. CASE Collected(p) = lifecycle
    BY <1>2, <1>4, <2>4, <2>5
  <2>6. CASE Collected(p) = Append(lifecycle, event)
    <3>1. /\ Collected(p) \in Seq(Nat)
          /\ Delivery!Of(Collected(p)) = Delivery!Of(lifecycle) \cup {event}
          /\ Delivery!Ascending(Collected(p))
      <4>1. \A e \in Delivery!Of(lifecycle) : e < event
        BY <1>4, <2>1
      <4> QED BY <1>2, <1>4, <2>6, <4>1, Appends
    <3>2. \A e \in Delivery!Of(Collected(p)) : e > session[p].before
      <4>1. \A e \in Delivery!Of(lifecycle) : e > session[p].before
        BY <1>4 DEF Delivery!Of
      <4> QED BY <2>2, <3>1, <4>1
    <3>3. \A i \in DOMAIN Collected(p) : Collected(p)[i] > session[p].before
      BY <3>2 DEF Delivery!Of
    <3> QED BY <1>4, <2>4, <3>1, <3>3
  <2> QED BY <2>5, <2>6 DEF Collected
<1> QED BY <1>5, <1>6

\* What the answer makes of a process.
Moved(p, s) ==
    /\ session' = [session EXCEPT ![p] = s]
    /\ s \in SessionStates
    /\ s.before = session[p].before /\ s.task = session[p].task
    /\ \/ s.lifecycle = session[p].lifecycle
       \/ s.lifecycle = Collected(p) /\ session[p].at \in Cleared
    /\ s.at \in Cleared => session[p].at \in Cleared \/ (session[p].at = "clear" /\ Empties(p))
    /\ s.at = "clear" => session[p].at = "clear"
    /\ s.at = "watch" => s.left # 0

Places == {"idle", "clear", "send", "collect", "state", "wait", "final", "watch"}
Results == {"none", "connected", "disconnected", "failed", "timeout", "error", "watched"}

\* A process that only goes on to another stage, with or without a result.
LEMMA GoesOn ==
    ASSUME SessionInv, NEW p \in Commands, NEW at \in Places, NEW result \in Results,
           at \in Cleared => session[p].at \in Cleared \/ (session[p].at = "clear" /\ Empties(p)),
           at = "clear" => session[p].at = "clear", at # "watch"
    PROVE  /\ session' = [session EXCEPT ![p].at = at] => \E s : Moved(p, s)
           /\ session' = [session EXCEPT ![p].at = at, ![p].result = result] => \E s : Moved(p, s)
<1>1. session \in [Commands -> SessionStates] /\ session[p] \in SessionStates
  BY SessionTypes DEF SessionInv
<1>2. ASSUME session' = [session EXCEPT ![p].at = at] PROVE \E s : Moved(p, s)
  <2> DEFINE s == [session[p] EXCEPT !.at = at]
  <2>1. session' = [session EXCEPT ![p] = s]
    BY <1>1, <1>2
  <2>2. /\ s \in SessionStates /\ s.at = at /\ s.before = session[p].before
        /\ s.task = session[p].task /\ s.lifecycle = session[p].lifecycle
    BY <1>1 DEF SessionStates, Places
  <2> HIDE DEF s
  <2>3. Moved(p, s)
    BY <2>1, <2>2 DEF Moved
  <2> QED BY <2>3
<1>3. ASSUME session' = [session EXCEPT ![p].at = at, ![p].result = result]
      PROVE  \E s : Moved(p, s)
  <2> DEFINE s == [session[p] EXCEPT !.at = at, !.result = result]
  <2>1. session' = [session EXCEPT ![p] = s]
    BY <1>1, <1>3
  <2>2. /\ s \in SessionStates /\ s.at = at /\ s.before = session[p].before
        /\ s.task = session[p].task /\ s.lifecycle = session[p].lifecycle
    BY <1>1 DEF SessionStates, Places, Results
  <2> HIDE DEF s
  <2>3. Moved(p, s)
    BY <2>1, <2>2 DEF Moved
  <2> QED BY <2>3
<1> QED BY <1>2, <1>3

\* A process that collects.
LEMMA GoesCollecting ==
    ASSUME SessionInv, NEW p \in Commands, NEW at \in Places, at # "watch", at # "clear",
           session[p].at \in Cleared, Receive(p),
           session' = [session EXCEPT ![p].lifecycle = Collected(p), ![p].at = at]
    PROVE  \E s : Moved(p, s)
<1>1. session \in [Commands -> SessionStates] /\ session[p] \in SessionStates
      /\ Collected(p) \in Seq(Nat)
  BY SessionTypes, CollectedIsFresh DEF SessionInv
<1> DEFINE lifecycle == Collected(p)
<1> HIDE DEF lifecycle
<1> DEFINE s == [session[p] EXCEPT !.lifecycle = lifecycle, !.at = at]
<1>2. session' = [session EXCEPT ![p] = s]
  BY <1>1 DEF lifecycle
<1>3. /\ s \in SessionStates /\ s.at = at /\ s.before = session[p].before
      /\ s.task = session[p].task /\ s.lifecycle = lifecycle
  <2>1. lifecycle \in Seq(Nat)
    BY <1>1 DEF lifecycle
  <2> QED BY <1>1, <2>1 DEF SessionStates, Places
<1> HIDE DEF s
<1>4. Moved(p, s)
  BY <1>2, <1>3 DEF Moved, lifecycle
<1> QED BY <1>4

\* Every answer moves the process.
LEMMA ReturnMoves ==
    ASSUME SessionInv, NEW p \in Commands, SessionReturns(p)
    PROVE  \E s : Moved(p, s)
<1> DEFINE at == session[p].at
           reply == call[p].reply
<1>1. /\ Receive(p) /\ call[p].at = "answered"
      /\ session \in [Commands -> SessionStates] /\ session[p] \in SessionStates
      /\ call \in [Clients -> CallStates]
  BY SessionTypes DEF SessionInv, SessionReturns, Receive
<1>2. "none" \in Results /\ \A result \in {"connected", "disconnected", "failed", "timeout", "error", "watched"} : result \in Results
  BY DEF Results
<1>3. \A place \in {"idle", "clear", "send", "collect", "state", "wait", "final"} :
         place \in Places /\ place # "watch"
  BY DEF Places
<1>4. CASE ~reply.ok /\ Ends(p, "error")
  BY <1>2, <1>3, <1>4, GoesOn DEF Ends, Cleared
<1>5. CASE reply.ok /\ at = "clear" /\ Clears(p)
  <2>1. CASE reply.event = 0
    <3>1. Empties(p)
      BY <1>1, <1>5, <2>1 DEF Empties
    <3>2. session' = [session EXCEPT ![p].at = "send"]
      BY <1>5, <2>1 DEF Clears, Goes
    <3> QED BY <1>2, <1>3, <1>5, <3>1, <3>2, GoesOn
  <2>2. CASE reply.event # 0
    <3>1. session' = [session EXCEPT ![p].at = "clear"]
      BY <1>5, <2>2 DEF Clears, Goes
    <3>2. "clear" \notin Cleared
      BY DEF Cleared
    <3> QED BY <1>2, <1>3, <1>5, <3>1, <3>2, GoesOn
  <2> QED BY <2>1, <2>2
<1>6. CASE reply.ok /\ at = "send" /\ Goes(p, "collect")
  <2>1. at \in Cleared
    BY <1>6 DEF Cleared
  <2> QED BY <1>2, <1>3, <1>6, <2>1, GoesOn DEF Goes
<1>7. ASSUME NEW next \in {"state", "idle"}, at \in {"collect", "final"}, Collects(p, next)
      PROVE  \E s : Moved(p, s)
  <2>1. at \in Cleared
    BY <1>7 DEF Cleared
  <2> DEFINE place == IF reply.event = 0 THEN next ELSE at
  <2>2. place \in Places /\ place # "watch" /\ place # "clear"
    BY <1>7 DEF Places
  <2>3. session' = [session EXCEPT ![p].lifecycle = Collected(p), ![p].at = place]
    BY <1>1, <1>7 DEF Collects
  <2> HIDE DEF place
  <2> QED BY <1>1, <2>1, <2>2, <2>3, GoesCollecting
<1>8. CASE reply.ok /\ at = "state" /\ Decides(p, reply.phase)
  <2>1. at \in Cleared
    BY <1>8 DEF Cleared
  <2>2. \/ \E result \in {"connected", "disconnected", "failed", "timeout"} : Settles(p, result)
        \/ Goes(p, "wait")
    BY <1>8 DEF Decides
  <2> QED BY <1>2, <1>3, <2>1, <2>2, GoesOn DEF Settles, Goes
<1>9. CASE reply.ok /\ at = "wait"
           /\ session' = [session EXCEPT ![p].lifecycle = Collected(p), ![p].at = "collect"]
  <2>1. at \in Cleared
    BY <1>9 DEF Cleared
  <2> QED BY <1>1, <1>3, <1>9, <2>1, GoesCollecting
<1>10. CASE reply.ok /\ at = "watch" /\ Watches(p)
  <2>1. CASE reply.event # 0 /\ session[p].left > 1
    <3> DEFINE s == [session[p] EXCEPT !.left = @ - 1]
    <3>1. session' = [session EXCEPT ![p] = s]
      BY <1>1, <1>10, <2>1 DEF Watches
    <3>2. session[p].left - 1 \in 0..WatchCount /\ session[p].left - 1 # 0
      BY <1>1, <2>1, RunsAssumption DEF SessionStates
    <3>3. /\ s \in SessionStates /\ s.at = "watch" /\ s.left # 0 /\ s.before = session[p].before
          /\ s.task = session[p].task /\ s.lifecycle = session[p].lifecycle
      BY <1>1, <1>10, <3>2 DEF SessionStates
    <3> HIDE DEF s
    <3>4. Moved(p, s)
      BY <3>1, <3>3 DEF Moved, Cleared
    <3> QED BY <3>4
  <2>2. CASE ~(reply.event # 0 /\ session[p].left > 1)
    <3>1. Ends(p, "watched")
      BY <1>10, <2>2 DEF Watches
    <3> QED BY <1>2, <1>3, <3>1, GoesOn DEF Ends, Cleared
  <2> QED BY <2>1, <2>2
<1>11. \/ ~reply.ok /\ Ends(p, "error")
       \/ reply.ok /\ at = "clear" /\ Clears(p)
       \/ reply.ok /\ at = "send" /\ Goes(p, "collect")
       \/ at \in {"collect", "final"} /\ (Collects(p, "state") \/ Collects(p, "idle"))
       \/ reply.ok /\ at = "state" /\ Decides(p, reply.phase)
       \/ reply.ok /\ at = "wait"
          /\ session' = [session EXCEPT ![p].lifecycle = Collected(p), ![p].at = "collect"]
       \/ reply.ok /\ at = "watch" /\ Watches(p)
  BY DEF SessionReturns
<1> QED BY <1>4, <1>5, <1>6, <1>7, <1>8, <1>9, <1>10, <1>11

\* It is answered.
LEMMA SessionReturnsStep == \A p \in Commands : SessionInv /\ SessionReturns(p) => SessionInv'
<1> SUFFICES ASSUME NEW p \in Commands, SessionInv, SessionReturns(p) PROVE SessionInv'
  OBVIOUS
<1>1. /\ SocketInv /\ SessionTypeOK /\ session \in [Commands -> SessionStates]
      /\ call \in [Clients -> CallStates] /\ got \in [Clients -> Seq(Nat)] /\ p \in Clients
  BY SessionTypes, CommandsAssumption DEF SessionInv
<1>2. Receive(p) /\ UNCHANGED <<phase, callbacks>>
  BY DEF SessionReturns
<1>3. PICK s : Moved(p, s)
  BY ReturnMoves
<1>4. /\ UNCHANGED <<raised, events, backlog, server>> /\ call[p].at = "answered"
      /\ call'[p].at = "idle" /\ \A c \in Clients : c # p => call'[c] = call[c] /\ got'[c] = got[c]
  BY <1>1, <1>2 DEF Receive, CallStates
<1>5. SocketInv' /\ Refines
  BY <1>1, <1>2, ReceiveStep
<1>6. session'[p] = s
  BY <1>1, <1>3 DEF Moved
<1>7. AskedFor(p)'
  BY <1>4, <1>5, AskedNone
<1>8. LifecycleFor(p)'
  <2>1. CASE s.lifecycle = session[p].lifecycle
    <3>1. Delivery!Of(got[p]) \subseteq Delivery!Of(got'[p])
      <4>1. got[p] \in Seq(Nat) /\ call[p].reply.event \in Nat
        BY <1>1 DEF CallStates, Replies
      <4>2. got'[p] = got[p] \/ got'[p] = Append(got[p], call[p].reply.event)
        BY <1>1, <1>2 DEF Receive
      <4> QED BY <4>1, <4>2, Appends
    <3> QED BY <1>3, <1>6, <2>1, <3>1, LifecycleKept DEF Moved
  <2>2. CASE s.lifecycle = Collected(p) /\ session[p].at \in Cleared
    BY <1>2, <1>3, <1>6, <2>2, CollectedIsFresh DEF Moved, LifecycleFor
  <2> QED BY <1>3, <2>1, <2>2 DEF Moved
<1>9. Quiet(p)
  <2>1. server'.conn.from # p
    BY <1>1, <1>4 DEF SocketInv
  <2>2. Underway(p)' = 0 /\ ~Empties(p)'
    BY <1>4, <2>1, Silent
  <2> QED BY <1>3, <1>6, <2>2, SilentQuiet DEF Moved
<1>10. \A c \in Commands : c # p => call'[c] = call[c] /\ got'[c] = got[c]
  BY <1>4, CommandsAssumption
<1>11. s.at \in Cleared \cup {"clear"} => s.task \in {"connect", "disconnect"}
  BY <1>3 DEF Moved, SessionInv, TaskInv
<1> QED BY <1>2, <1>3, <1>4, <1>5, <1>7, <1>8, <1>9, <1>10, <1>11, ProcessStep DEF Moved

-----------------------------------------------------------------------------
(* The theorems                                                             *)

\* Before the first command nothing was raised, asked or collected.
LEMMA SessionInvInit == SessionInit => SessionInv
<1> SUFFICES ASSUME SessionInit PROVE SessionInv
  OBVIOUS
<1>1. /\ SocketInv /\ TypeOK /\ Init /\ phase \in Phases /\ callbacks = <<>>
      /\ session = [c \in Commands |-> NewSession]
  BY SocketInit DEF SessionInit, SocketInv, Phases
<1>2. /\ \A c \in Commands : session[c].at = "idle" /\ session[c].lifecycle = <<>>
                             /\ session[c].before = 0
      /\ \A c \in Clients : call[c].at = "idle" /\ got[c] = <<>>
      /\ Len(raised) = 0 /\ events = <<>> /\ backlog = <<>> /\ server.conn.from = Nobody
  BY <1>1 DEF NewSession, Init, Idle
<1>3. Commands \subseteq Clients /\ Nobody \notin Commands
  BY CommandsAssumption, NobodyAssumption
<1>4. NewSession \in SessionStates
  <2>1. 0 \in 0..MaxRuns /\ 0 \in 0..WatchCount
    BY RunsAssumption
  <2> QED BY <2>1 DEF NewSession, SessionStates
<1>5. SessionTypeOK
  BY <1>1, <1>2, <1>4 DEF SessionTypeOK, SessionStates
<1>6. \A c \in Clients : Underway(c) = 0
  BY <1>1, NothingUnderway DEF Init
<1>7. Proofs!Inv
  <2>1. Proofs!Init
    BY <1>1, <1>6 DEF Init, Proofs!Init
  <2> QED BY <2>1, Proofs!InvInit
<1>8. TaskInv
  BY <1>2 DEF TaskInv, Cleared
<1>9. AskedInv
  BY <1>2, <1>3 DEF AskedInv
<1>10. FreshInv
  BY <1>2, <1>3, <1>6 DEF FreshInv, Cleared
<1>11. CollectedInv /\ LifecycleIsFresh
  BY <1>2, <1>3 DEF CollectedInv, LifecycleIsFresh, Delivery!Of, Delivery!Ascending
<1> QED BY <1>1, <1>5, <1>7, <1>8, <1>9, <1>10, <1>11 DEF SessionInv

\* The inductive invariant of the session service: the types, the exchanges under
\* way, and for each command what of the queue is younger than it.
THEOREM SessionInvHolds == SessionSpec => []SessionInv
<1>1. SessionInv /\ [SessionNext]_allVars => SessionInv'
  <2> SUFFICES ASSUME SessionInv, [SessionNext]_allVars PROVE SessionInv'
    OBVIOUS
  <2>1. CASE UNCHANGED allVars
    <3>1. UNCHANGED <<raised, events, backlog, server, stopper, call, got, phase, callbacks, session>>
      BY <2>1 DEF allVars, vars, sessionVars
    <3>2. SocketInv /\ SessionTypeOK /\ TypeOK /\ phase \in Phases /\ callbacks \in Seq(LifecycleKinds)
      BY SessionTypes DEF SessionInv
    <3>3. SocketInv'
      BY <3>1, <3>2 DEF SocketInv, TypeOK
    <3>4. Refines
      BY <3>1, Stutters DEF Underway
    <3> QED BY <3>1, <3>2, <3>3, <3>4, Kept, SameGrows, ApartStep
  <2>2. CASE SessionNext
    BY <2>2, TeamSpeakStep, ServerStep, RivalTakesStep, BeginStep, SessionAsksStep,
       SessionReturnsStep, DeadlineStep, SessionGoneStep DEF SessionNext, Process
  <2> QED BY <2>1, <2>2
<1> QED BY <1>1, SessionInvInit, PTL DEF SessionSpec

\* What connect_and_wait and disconnect_and_wait report as the lifecycle was raised
\* after the command began, in this order and once, although three loops fill it
\* and other processes take from the queue.
THEOREM LifecycleIsOfThisAttempt == SessionSpec => []LifecycleIsFresh
<1>1. SessionInv => LifecycleIsFresh
  BY DEF SessionInv
<1> QED BY <1>1, SessionInvHolds, PTL

-----------------------------------------------------------------------------
(* What the sessions do to the events                                       *)

\* TeamSpeak, whose callbacks only push, and the processes that take from the queue.
LEMMA TeamSpeakRefines == SessionInv /\ (TeamSpeak \/ RivalTakes) => Refines
<1> SUFFICES ASSUME SessionInv, TeamSpeak \/ RivalTakes PROVE Refines
  OBVIOUS
<1>1. SocketInv /\ callbacks \in Seq(LifecycleKinds)
  BY SessionTypes DEF SessionInv
<1>2. CASE UNCHANGED vars
  BY <1>1, <1>2, SocketStep
<1>3. ASSUME NEW k \in Kinds, Pushes(<<k>>), UNCHANGED <<backlog, server, stopper, call, got>>
      PROVE  Refines
  BY <1>1, <1>3, PushStep
<1>4. CASE ConnectionMoves
  BY <1>2, <1>4 DEF ConnectionMoves
<1>5. CASE CallbackRuns
  <2>1. Head(callbacks) \in Kinds
    BY <1>1, <1>5, HeadTailProperties, KindsAssumption DEF CallbackRuns, LifecycleKinds
  <2> QED BY <1>2, <1>3, <1>5, <2>1 DEF CallbackRuns
<1>6. CASE OtherCallback \/ StrangerFails
  <2>1. PICK k \in Kinds : RaiseEvent(k)
    BY <1>6, KindsAssumption DEF OtherCallback, StrangerFails
  <2> QED BY <1>1, <2>1, RaiseStep
<1>7. CASE RivalTakes
  BY <1>1, <1>7, RivalStep
<1> QED BY <1>4, <1>5, <1>6, <1>7 DEF TeamSpeak

\* The server, for which every command but next_event pushes at most an event.
LEMMA ServerRefines == SessionInv /\ (Server \/ ServeRefuses) => Refines
<1> SUFFICES ASSUME SessionInv, Server \/ ServeRefuses PROVE Refines
  OBVIOUS
<1>1. SocketInv /\ phase \in Phases
  BY SessionTypes DEF SessionInv
<1>2. CASE ServerThread
  BY <1>1, <1>2, AcceptStep, PopStep, ReplyStep, SendStep DEF ServerThread
<1>3. ASSUME NEW r, NEW reply \in Replies, reply.event = 0,
             NEW ks \in {<<>>, <<"progress">>}, RunCommand(r, reply, ks)
      PROVE  Refines
  <2>1. ks \in {<<>>} \cup {<<k>> : k \in Kinds}
    BY KindsAssumption
  <2> QED BY <1>1, <1>3, <2>1, CommandStep
<1>4. CASE ServeConnect \/ ServeDisconnect
  BY <1>3, <1>4, ValueTypes DEF ServeConnect, ServeDisconnect
<1>5. CASE ServeState
  <2>1. [NoReply EXCEPT !.phase = phase] \in Replies /\ [NoReply EXCEPT !.phase = phase].event = 0
    BY <1>1 DEF NoReply, Replies, Phases
  <2> QED BY <1>3, <1>5, <2>1 DEF ServeState
<1>6. CASE ServeRefuses
  BY <1>3, <1>6, ValueTypes DEF ServeRefuses
<1> QED BY <1>2, <1>4, <1>5, <1>6 DEF Server

\* A command asks, receives, gives up and vanishes as any process does.
LEMMA CommandRefines ==
    ASSUME SessionInv, NEW c \in Commands,
           Begin(c) \/ Process(c) \/ Deadline(c) \/ SessionGivesUp(c) \/ Interrupted(c)
    PROVE  Refines
<1>1. SocketInv /\ c \in Clients
  BY CommandsAssumption DEF SessionInv
<1>2. CASE Begin(c) \/ Deadline(c)
  <2>1. UNCHANGED vars
    BY <1>2 DEF Begin, Deadline
  <2> QED BY <1>1, <2>1, SocketStep
<1>3. CASE SessionAsks(c)
  <2>1. RequestOf(session[c]) \in Requests \cup {"next_event"}
    <3>1. session[c].at = "send" => session[c].task \in {"connect", "disconnect"}
      BY DEF SessionInv, TaskInv, Cleared
    <3> QED BY <3>1, TasksAssumption DEF RequestOf
  <2> QED BY <1>1, <1>3, <2>1, AskStep DEF SessionAsks
<1>4. CASE SessionReturns(c)
  BY <1>1, <1>4, ReceiveStep DEF SessionReturns
<1>5. CASE SessionGivesUp(c) \/ Interrupted(c)
  BY <1>1, <1>5, GoneStep DEF SessionGivesUp, Interrupted
<1> QED BY <1>2, <1>3, <1>4, <1>5 DEF Process

\* connect_and_wait, disconnect_and_wait and watch_events use the socket as
\* EventDelivery has it: whatever they clear, collect or leave, no event reaches
\* them out of order, or twice, or another process as well.
THEOREM SessionsDeliverOnce == SessionSpec => ImplementsDelivery
<1>1. SessionInit => Delivery!Init
  <2> SUFFICES ASSUME SessionInit PROVE Delivery!Init
    OBVIOUS
  <2>1. Init /\ \A c \in Clients : Underway(c) = 0
    BY SocketInit, NothingUnderway DEF SessionInit, Init
  <2>2. [c \in Clients |-> Underway(c)] = [c \in Clients |-> 0]
    BY <2>1
  <2> QED BY <2>1, <2>2 DEF Init, Delivery!Init
<1>2. SessionInv /\ [SessionNext]_allVars => [Delivery!Next]_(Delivery!vars)
  <2> SUFFICES ASSUME SessionInv, [SessionNext]_allVars PROVE Refines
    BY DEF Refines
  <2>1. CASE UNCHANGED allVars
    <3>1. SocketInv /\ UNCHANGED vars
      BY <2>1 DEF allVars, SessionInv
    <3> QED BY <3>1, SocketStep
  <2>2. CASE TeamSpeak \/ RivalTakes
    BY <2>2, TeamSpeakRefines
  <2>3. CASE Server \/ ServeRefuses
    BY <2>3, ServerRefines
  <2>4. ASSUME NEW c \in Commands,
               Begin(c) \/ Process(c) \/ Deadline(c) \/ SessionGivesUp(c) \/ Interrupted(c)
        PROVE  Refines
    BY <2>4, CommandRefines
  <2> QED BY <2>1, <2>2, <2>3, <2>4 DEF SessionNext
<1> QED BY <1>1, <1>2, SessionInvHolds, PTL DEF SessionSpec, ImplementsDelivery, Delivery!Spec

================================================================================
