-------------------------- MODULE ControlSocket_proofs --------------------------
EXTENDS ControlSocket, SequenceTheorems, TLAPS

\* What keeps an event from reaching two processes: a connection, queued or being
\* served, belongs to a process that still waits for its answer or to nobody, and
\* no process has two.
SocketInv ==
    /\ TypeOK
    /\ \A c \in Clients : server.conn.from = c => call[c].at = "asking"
    /\ \A i \in DOMAIN backlog : backlog[i].from \in Clients =>
          call[backlog[i].from].at = "asking" /\ server.conn.from # backlog[i].from
    /\ \A i, j \in DOMAIN backlog :
          backlog[i].from \in Clients /\ backlog[i].from = backlog[j].from => i = j
    /\ server.at \in {"accept", "gone"} => server.conn.from = Nobody
    /\ stopper = "down" => server.at = "gone"

ServerStates == [at : {"accept", "serve", "reply", "gone"},
                 conn : Connections, reply : Replies, stopping : BOOLEAN]
CallStates == [at : {"idle", "asking", "answered"}, reply : Replies]

\* The values the model starts from are of their types.
LEMMA ValueTypes ==
    /\ NoReply \in Replies /\ Failed \in Replies /\ NoReply.event = 0 /\ Failed.event = 0
    /\ \A ok \in BOOLEAN : [NoReply EXCEPT !.ok = ok] \in Replies
    /\ \A ok \in BOOLEAN : [NoReply EXCEPT !.ok = ok].event = 0
    /\ Idle \in Connections /\ Idle.from = Nobody
    /\ \A n \in Nat : [NoReply EXCEPT !.event = n] \in Replies
    /\ \A n \in Nat : [NoReply EXCEPT !.event = n].event = n
BY DEF NoReply, Failed, Replies, Idle, Connections

\* A plugin that has just been loaded has no connections.
LEMMA SocketInit == Init => SocketInv
<1> SUFFICES ASSUME Init PROVE SocketInv
  OBVIOUS
<1>1. server \in ServerStates /\ call \in [Clients -> CallStates] /\ got \in [Clients -> Seq(Nat)]
  BY ValueTypes DEF Init, ServerStates, CallStates
<1>2. raised \in Seq(Kinds) /\ events \in Seq(Nat) /\ backlog \in Seq(Connections)
      /\ DOMAIN events = {} /\ DOMAIN backlog = {}
  BY DEF Init
<1>3. stopper = "up" /\ server.at = "accept" /\ server.conn.from = Nobody
  BY ValueTypes DEF Init
<1>4. TypeOK
  BY <1>1, <1>2, <1>3 DEF TypeOK, ServerStates, CallStates
<1> QED BY <1>2, <1>3, <1>4, NobodyAssumption DEF SocketInv

\* EventQueue::push keeps the queue and the history of what was pushed in step.
LEMMA PushesType ==
    ASSUME TypeOK, NEW ks, ks = <<>> \/ \E k \in Kinds : ks = <<k>>, Pushes(ks)
    PROVE  /\ raised' \in Seq(Kinds) /\ events' \in Seq(Nat)
           /\ \A i \in DOMAIN events' : events'[i] \in DOMAIN raised'
           /\ \/ Len(raised') = Len(raised) /\ events' = events
              \/ Len(raised') = Len(raised) + 1 /\ events' = Append(events, Len(raised) + 1)
<1>1. raised \in Seq(Kinds) /\ events \in Seq(Nat) /\ \A i \in DOMAIN events : events[i] \in DOMAIN raised
  BY DEF TypeOK
<1>2. CASE ks = <<>>
  <2>1. [i \in DOMAIN ks |-> Len(raised) + i] = <<>>
    BY <1>2
  <2>2. raised' = raised /\ events' = events
    BY <1>1, <1>2, <2>1 DEF Pushes
  <2> QED BY <1>1, <2>2
<1>3. ASSUME NEW k \in Kinds, ks = <<k>> PROVE
        /\ raised' = Append(raised, k) /\ events' = Append(events, Len(raised) + 1)
  <2>1. [i \in DOMAIN ks |-> Len(raised) + i] = <<Len(raised) + 1>>
    BY <1>3
  <2> QED BY <1>1, <1>3, <2>1 DEF Pushes
<1>4. ASSUME NEW k \in Kinds, ks = <<k>> PROVE
        /\ raised' \in Seq(Kinds) /\ events' \in Seq(Nat) /\ Len(raised') = Len(raised) + 1
        /\ \A i \in DOMAIN events' : events'[i] \in DOMAIN raised'
  <2>1. /\ Append(raised, k) \in Seq(Kinds) /\ Len(Append(raised, k)) = Len(raised) + 1
        /\ Append(events, Len(raised) + 1) \in Seq(Nat)
        /\ DOMAIN Append(raised, k) = 1 .. Len(raised) + 1 /\ Len(raised) \in Nat
    BY <1>1, AppendProperties, LenProperties
  <2>2. \A i \in DOMAIN Append(events, Len(raised) + 1) :
           Append(events, Len(raised) + 1)[i] \in 1 .. Len(raised) + 1
    <3>1. \A i \in 1 .. Len(events) : events[i] \in 1 .. Len(raised)
      BY <1>1, LenProperties
    <3> QED BY <3>1, <2>1, <1>1, AppendProperties, LenProperties
  <2> QED BY <2>1, <2>2, <1>3, <1>4
<1> QED BY <1>1, <1>2, <1>3, <1>4

\* A process that closes its end leaves its connection to nobody.
LEMMA AbandonType ==
    ASSUME SocketInv, NEW c \in Clients, Abandon(c)
    PROVE  /\ backlog' \in Seq(Connections) /\ server' \in ServerStates
           /\ DOMAIN backlog' = DOMAIN backlog
           /\ \A i \in DOMAIN backlog :
                 backlog'[i].from = IF backlog[i].from = c THEN Nobody ELSE backlog[i].from
           /\ server'.conn.from = IF server.conn.from = c THEN Nobody ELSE server.conn.from
           /\ server'.at = server.at /\ server'.reply = server.reply
<1> DEFINE Orphan(conn) == IF conn.from = c THEN [conn EXCEPT !.from = Nobody] ELSE conn
<1>1. backlog' = [i \in DOMAIN backlog |-> Orphan(backlog[i])] /\ server' = [server EXCEPT !.conn = Orphan(@)]
  BY DEF Abandon
<1>2. \A conn \in Connections : Orphan(conn) \in Connections
                               /\ Orphan(conn).from = IF conn.from = c THEN Nobody ELSE conn.from
  BY DEF Connections
<1>3. server \in ServerStates /\ backlog \in Seq(Connections)
  BY DEF SocketInv, TypeOK, ServerStates
<1>4. server.conn \in Connections
  BY <1>3 DEF ServerStates
<1>5. \A i \in DOMAIN backlog : backlog[i] \in Connections
  BY <1>3
<1>6. /\ server' \in ServerStates /\ server'.at = server.at /\ server'.reply = server.reply
      /\ server'.conn = Orphan(server.conn)
  <2> HIDE DEF Orphan
  <2> QED BY <1>1, <1>2, <1>3, <1>4 DEF ServerStates
<1>7. backlog' \in Seq(Connections) /\ DOMAIN backlog' = DOMAIN backlog
  <2> HIDE DEF Orphan
  <2>1. Len(backlog) \in Nat /\ DOMAIN backlog = 1 .. Len(backlog)
    BY <1>3, LenProperties
  <2> QED BY <2>1, <1>1, <1>2, <1>5
<1>8. \A i \in DOMAIN backlog : backlog'[i] = Orphan(backlog[i])
  BY <1>1
<1> QED BY <1>2, <1>4, <1>5, <1>6, <1>7, <1>8

\* A step of the control socket is one of EventDelivery, or leaves it unchanged.
Refines == [Delivery!Next]_(Delivery!vars)

\* A step that moves no event is invisible to EventDelivery.
LEMMA Stutters ==
    ASSUME Len(raised') = Len(raised), events' = events, got' = got,
           \A c \in Clients : Underway(c)' = Underway(c)
    PROVE  Refines
<1>1. [c \in Clients |-> Underway(c)]' = [c \in Clients |-> Underway(c)]
  OBVIOUS
<1> QED BY <1>1 DEF Refines, Delivery!vars

\* EventQueue::push alone only adds to the queue.
LEMMA PushStep ==
    ASSUME SocketInv, NEW k \in Kinds, Pushes(<<k>>), UNCHANGED <<backlog, server, stopper, call, got>>
    PROVE  SocketInv' /\ Refines
<1>1. /\ raised' \in Seq(Kinds) /\ events' \in Seq(Nat)
      /\ \A i \in DOMAIN events' : events'[i] \in DOMAIN raised'
      /\ \/ Len(raised') = Len(raised) /\ events' = events
         \/ Len(raised') = Len(raised) + 1 /\ events' = Append(events, Len(raised) + 1)
  BY PushesType DEF SocketInv
<1>2. /\ backlog' = backlog /\ server' = server /\ stopper' = stopper /\ call' = call
      /\ got' = got
  OBVIOUS
<1>3. SocketInv'
  BY <1>1, <1>2 DEF SocketInv, TypeOK
<1>4. \A c \in Clients : Underway(c)' = Underway(c)
  BY <1>2 DEF Underway
<1>5. Refines
  <2>1. [c \in Clients |-> Underway(c)]' = [c \in Clients |-> Underway(c)]
    BY <1>4
  <2>2. CASE Len(raised') = Len(raised) /\ events' = events
    BY <2>2, <1>2, <1>4, Stutters
  <2>3. CASE Len(raised') = Len(raised) + 1 /\ events' = Append(events, Len(raised) + 1)
    <3>1. Delivery!Raise
      BY <2>1, <2>3, <1>2 DEF Delivery!Raise
    <3> QED BY <3>1 DEF Refines, Delivery!Next
  <2> QED BY <2>2, <2>3, <1>1
<1> QED BY <1>3, <1>5

\* A TeamSpeak callback pushes an event, and does nothing else.
LEMMA RaiseStep == \A k \in Kinds : SocketInv /\ RaiseEvent(k) => SocketInv' /\ Refines
BY PushStep DEF RaiseEvent

\* What a process that neither waits nor holds an answer has on its way: nothing.
LEMMA NothingUnderway ==
    ASSUME SocketInv, NEW c \in Clients, call[c].at # "answered", server.conn.from # c \/ server.at # "reply"
    PROVE  Underway(c) = 0
BY DEF Underway

\* A process that asks has no connection yet, so its new one is its only one.
LEMMA AskStep ==
    \A c \in Clients, r \in Requests \cup {"next_event"} : SocketInv /\ Ask(c, r) => SocketInv' /\ Refines
<1> SUFFICES ASSUME NEW c \in Clients, NEW r \in Requests \cup {"next_event"}, SocketInv, Ask(c, r)
             PROVE  SocketInv' /\ Refines
  OBVIOUS
<1>1. /\ raised' = raised /\ events' = events /\ server' = server /\ stopper' = stopper
      /\ got' = got /\ call[c].at = "idle" /\ call \in [Clients -> CallStates]
      /\ backlog \in Seq(Connections)
  BY DEF Ask, SocketInv, TypeOK, CallStates
<1>2. server.conn.from # c /\ \A i \in DOMAIN backlog : backlog[i].from # c
  BY <1>1 DEF SocketInv
<1>3. call' \in [Clients -> CallStates] /\ \A d \in Clients : d # c => call'[d] = call[d]
  BY <1>1, ValueTypes DEF Ask, Answered, CallStates
<1>4. \/ call'[c].at = "asking" /\ backlog' = Append(backlog, [from |-> c, request |-> r])
      \/ call'[c] = [at |-> "answered", reply |-> Failed] /\ backlog' = backlog
  BY <1>1 DEF Ask, Answered, CallStates
<1>5. \A d \in Clients : Underway(d)' = Underway(d)
  <2>1. Underway(c) = 0
    BY <1>1, <1>2, NothingUnderway
  <2>2. Underway(c)' = 0
    BY <1>1, <1>2, <1>4, ValueTypes DEF Underway
  <2>3. \A d \in Clients : d # c => Underway(d)' = Underway(d)
    BY <1>1, <1>3 DEF Underway
  <2> QED BY <2>1, <2>2, <2>3
<1>6. Refines
  BY <1>1, <1>5, Stutters
<1>7. SocketInv'
  <2>1. CASE call'[c] = [at |-> "answered", reply |-> Failed] /\ backlog' = backlog
    BY <2>1, <1>1, <1>2, <1>3 DEF SocketInv, TypeOK, CallStates
  <2>2. CASE call'[c].at = "asking" /\ backlog' = Append(backlog, [from |-> c, request |-> r])
    <3>1. [from |-> c, request |-> r] \in Connections
      BY DEF Connections
    <3>2. /\ backlog' \in Seq(Connections) /\ DOMAIN backlog = 1 .. Len(backlog)
          /\ DOMAIN backlog' = 1 .. Len(backlog) + 1 /\ Len(backlog) \in Nat
          /\ \A i \in 1 .. Len(backlog) : backlog'[i] = backlog[i]
          /\ backlog'[Len(backlog) + 1].from = c
      BY <3>1, <2>2, <1>1, AppendProperties, LenProperties
    <3>3. TypeOK'
      BY <3>2, <1>1, <1>3 DEF SocketInv, TypeOK, CallStates
    <3>4. \A d \in Clients : server'.conn.from = d => call'[d].at = "asking"
      BY <1>1, <1>2, <1>3 DEF SocketInv
    <3>5. \A i \in DOMAIN backlog' : backlog'[i].from \in Clients =>
             call'[backlog'[i].from].at = "asking" /\ server'.conn.from # backlog'[i].from
      <4> SUFFICES ASSUME NEW i \in DOMAIN backlog', backlog'[i].from \in Clients
                   PROVE  call'[backlog'[i].from].at = "asking" /\ server'.conn.from # backlog'[i].from
        OBVIOUS
      <4>1. CASE i = Len(backlog) + 1
        BY <4>1, <3>2, <2>2, <1>1, <1>2
      <4>2. CASE i \in DOMAIN backlog
        BY <4>2, <3>2, <1>1, <1>2, <1>3 DEF SocketInv
      <4> QED BY <4>1, <4>2, <3>2
    <3>6. \A i, j \in DOMAIN backlog' :
             backlog'[i].from \in Clients /\ backlog'[i].from = backlog'[j].from => i = j
      BY <3>2, <1>2 DEF SocketInv
    <3> QED BY <3>3, <3>4, <3>5, <3>6, <1>1 DEF SocketInv
  <2> QED BY <2>1, <2>2, <1>4
<1> QED BY <1>6, <1>7

\* What Abandon leaves of the claims on the server.
LEMMA AbandonKeeps ==
    ASSUME SocketInv, NEW c \in Clients, Abandon(c), raised' = raised, events' = events,
           stopper' = stopper, call' \in [Clients -> CallStates], got' \in [Clients -> Seq(Nat)],
           \A d \in Clients : d # c => call'[d] = call[d]
    PROVE  /\ SocketInv'
           /\ server'.conn.from # c
           /\ \A d \in Clients : d # c => Underway(d)' = Underway(d)
<1>1. /\ backlog' \in Seq(Connections) /\ server' \in ServerStates
      /\ DOMAIN backlog' = DOMAIN backlog
      /\ \A i \in DOMAIN backlog :
            backlog'[i].from = IF backlog[i].from = c THEN Nobody ELSE backlog[i].from
      /\ server'.conn.from = IF server.conn.from = c THEN Nobody ELSE server.conn.from
      /\ server'.at = server.at /\ server'.reply = server.reply
  BY AbandonType
<1>2. TypeOK'
  BY <1>1 DEF SocketInv, TypeOK, ServerStates, CallStates
<1>3. server'.conn.from # c /\ \A d \in Clients : server'.conn.from = d => server.conn.from = d /\ d # c
  BY <1>1, NobodyAssumption
<1>4. \A i \in DOMAIN backlog' : backlog'[i].from \in Clients =>
         backlog'[i].from # c /\ backlog'[i].from = backlog[i].from
  BY <1>1, NobodyAssumption
<1>5. \A d \in Clients : server'.conn.from = d => call'[d].at = "asking"
  BY <1>3 DEF SocketInv
<1>6. \A i \in DOMAIN backlog' : backlog'[i].from \in Clients =>
         call'[backlog'[i].from].at = "asking" /\ server'.conn.from # backlog'[i].from
  <2> SUFFICES ASSUME NEW i \in DOMAIN backlog', NEW d \in Clients, backlog'[i].from = d
               PROVE  call'[d].at = "asking" /\ server'.conn.from # d
    OBVIOUS
  <2>1. i \in DOMAIN backlog /\ backlog[i].from = d /\ d # c
    BY <1>1, <1>4
  <2>2. call[d].at = "asking" /\ server.conn.from # d
    BY <2>1 DEF SocketInv
  <2> QED BY <2>1, <2>2, <1>3
<1>7. \A i, j \in DOMAIN backlog' :
         backlog'[i].from \in Clients /\ backlog'[i].from = backlog'[j].from => i = j
  <2> SUFFICES ASSUME NEW i \in DOMAIN backlog', NEW j \in DOMAIN backlog',
                      backlog'[i].from \in Clients, backlog'[i].from = backlog'[j].from
               PROVE  i = j
    OBVIOUS
  <2>1. backlog[i].from \in Clients /\ backlog[i].from = backlog[j].from
    BY <1>4
  <2> QED BY <2>1, <1>1 DEF SocketInv
<1>8. (server'.at \in {"accept", "gone"} => server'.conn.from = Nobody)
      /\ (stopper' = "down" => server'.at = "gone")
  BY <1>1 DEF SocketInv
<1>9. SocketInv'
  BY <1>2, <1>5, <1>6, <1>7, <1>8 DEF SocketInv
<1>10. \A d \in Clients : d # c => Underway(d)' = Underway(d)
  <2> SUFFICES ASSUME NEW d \in Clients, d # c PROVE Underway(d)' = Underway(d)
    OBVIOUS
  <2>1. server'.conn.from = d <=> server.conn.from = d
    BY <1>1, NobodyAssumption
  <2> QED BY <2>1, <1>1 DEF Underway
<1> QED BY <1>3, <1>9, <1>10

\* Losing what is on its way to c, if anything, is a step of EventDelivery.
LEMMA Loses ==
    ASSUME NEW c \in Clients, raised' = raised, events' = events, got' = got,
           Underway(c)' = 0, \A d \in Clients : d # c => Underway(d)' = Underway(d)
    PROVE  Refines
<1>1. CASE Underway(c) = 0
  BY <1>1, Stutters
<1>2. CASE Underway(c) # 0
  <2> DEFINE U == [d \in Clients |-> Underway(d)]
  <2>1. U' = [U EXCEPT ![c] = 0] /\ U[c] # 0
    BY <1>2
  <2>2. Delivery!Lose(c)
    BY <2>1 DEF Delivery!Lose
  <2> QED BY <2>2 DEF Refines, Delivery!Next
<1> QED BY <1>1, <1>2

\* A process that gives up or is killed loses the event on its way to it.
LEMMA GoneStep ==
    \A c \in Clients : SocketInv /\ (GiveUp(c) \/ Vanish(c)) => SocketInv' /\ Refines
<1> SUFFICES ASSUME NEW c \in Clients, SocketInv, GiveUp(c) \/ Vanish(c) PROVE SocketInv' /\ Refines
  OBVIOUS
<1>1. /\ raised' = raised /\ events' = events /\ stopper' = stopper /\ got' = got /\ Abandon(c)
      /\ call \in [Clients -> CallStates] /\ got \in [Clients -> Seq(Nat)]
  BY DEF GiveUp, Vanish, SocketInv, TypeOK, CallStates
<1>2. /\ call' \in [Clients -> CallStates] /\ \A d \in Clients : d # c => call'[d] = call[d]
      /\ \/ call'[c] = [at |-> "answered", reply |-> Failed]
         \/ call'[c].at = "idle"
  <2>1. CASE GiveUp(c)
    <3>1. call' = [call EXCEPT ![c] = [at |-> "answered", reply |-> Failed]]
      BY <2>1 DEF GiveUp, Answered
    <3>2. [at |-> "answered", reply |-> Failed] \in CallStates
      BY ValueTypes DEF CallStates
    <3> QED BY <3>1, <3>2, <1>1
  <2>2. CASE Vanish(c)
    <3>1. call' = [call EXCEPT ![c] = [at |-> "idle", reply |-> NoReply]]
      BY <2>2 DEF Vanish
    <3>2. [at |-> "idle", reply |-> NoReply] \in CallStates
      BY ValueTypes DEF CallStates
    <3> QED BY <3>1, <3>2, <1>1
  <2> QED BY <2>1, <2>2
<1>3. /\ SocketInv' /\ server'.conn.from # c
      /\ \A d \in Clients : d # c => Underway(d)' = Underway(d)
  BY <1>1, <1>2, AbandonKeeps
<1>4. Underway(c)' = 0
  BY <1>2, <1>3, ValueTypes DEF Underway
<1> QED BY <1>1, <1>3, <1>4, Loses

\* A process that takes its answer receives the event on its way to it.
LEMMA ReceiveStep == \A c \in Clients : SocketInv /\ Receive(c) => SocketInv' /\ Refines
<1> SUFFICES ASSUME NEW c \in Clients, SocketInv, Receive(c) PROVE SocketInv' /\ Refines
  OBVIOUS
<1>1. /\ raised' = raised /\ events' = events /\ stopper' = stopper /\ backlog' = backlog
      /\ server' = server /\ call[c].at = "answered"
      /\ call \in [Clients -> CallStates] /\ got \in [Clients -> Seq(Nat)]
  BY DEF Receive, SocketInv, TypeOK, CallStates
<1>2. /\ call' \in [Clients -> CallStates] /\ call'[c].at = "idle"
      /\ \A d \in Clients : d # c => call'[d] = call[d]
  BY <1>1, ValueTypes DEF Receive, CallStates
<1>3. call[c].reply.event \in Nat /\ Underway(c) = call[c].reply.event
  <2>1. call[c] \in CallStates
    BY <1>1
  <2>2. call[c].reply.event \in Nat
    BY <2>1 DEF CallStates, Replies
  <2>3. server.conn.from # c
    BY <1>1 DEF SocketInv
  <2> QED BY <2>2, <2>3, <1>1 DEF Underway
<1>4. got' \in [Clients -> Seq(Nat)]
  BY <1>1, <1>3 DEF Receive
<1>5. server.conn.from # c /\ \A i \in DOMAIN backlog : backlog[i].from # c
  BY <1>1 DEF SocketInv
<1>6. TypeOK'
  BY <1>1, <1>2, <1>4 DEF SocketInv, TypeOK, CallStates
<1>7. SocketInv'
  BY <1>1, <1>2, <1>5, <1>6 DEF SocketInv
<1>8. Underway(c)' = 0 /\ \A d \in Clients : d # c => Underway(d)' = Underway(d)
  BY <1>1, <1>2, <1>5 DEF Underway
<1>9. Refines
  <2>1. CASE Underway(c) = 0
    BY <2>1, <1>1, <1>3, <1>8, Loses DEF Receive
  <2>2. CASE Underway(c) # 0
    <3> DEFINE U == [d \in Clients |-> Underway(d)]
    <3>1. U' = [U EXCEPT ![c] = 0] /\ U[c] = Underway(c)
      BY <1>8
    <3>2. got' = [got EXCEPT ![c] = Append(@, U[c])]
      BY <2>2, <1>3, <3>1 DEF Receive
    <3>3. Delivery!Deliver(c)
      BY <2>2, <3>1, <3>2, <1>1 DEF Delivery!Deliver
    <3> QED BY <3>3 DEF Refines, Delivery!Next
  <2> QED BY <2>1, <2>2
<1> QED BY <1>7, <1>9

\* The accept thread takes a connection out of the queue: its process has no other.
LEMMA AcceptStep == SocketInv /\ Accept => SocketInv' /\ Refines
<1> SUFFICES ASSUME SocketInv, Accept PROVE SocketInv' /\ Refines
  OBVIOUS
<1>1. /\ raised' = raised /\ events' = events /\ stopper' = stopper /\ call' = call /\ got' = got
      /\ server.at = "accept" /\ server.conn.from = Nobody /\ stopper # "down"
      /\ backlog \in Seq(Connections) /\ backlog # <<>> /\ backlog' = Tail(backlog)
      /\ server \in ServerStates
  BY DEF Accept, SocketInv, TypeOK, ServerStates
<1>2. /\ Len(backlog) \in Nat /\ Len(backlog) # 0 /\ DOMAIN backlog = 1 .. Len(backlog)
      /\ Tail(backlog) \in Seq(Connections) /\ DOMAIN Tail(backlog) = 1 .. Len(backlog) - 1
      /\ \A i \in 1 .. Len(backlog) - 1 : Tail(backlog)[i] = backlog[i + 1]
      /\ Head(backlog) = backlog[1] /\ Head(backlog) \in Connections
  BY <1>1, HeadTailProperties, LenProperties, EmptySeq, ElementOfSeq
<1>3. /\ server' \in ServerStates
      /\ \/ server'.at \in {"accept", "gone"} /\ server'.conn = server.conn
         \/ server'.at = "serve" /\ server'.conn = Head(backlog)
  BY <1>1, <1>2 DEF Accept, ServerStates
<1>4. TypeOK'
  BY <1>1, <1>2, <1>3 DEF SocketInv, TypeOK, ServerStates
<1>5. \A d \in Clients : server'.conn.from = d =>
         server'.conn = backlog[1] /\ call[d].at = "asking"
  BY <1>1, <1>2, <1>3, NobodyAssumption DEF SocketInv
<1>6. \A i \in DOMAIN backlog' : backlog'[i].from \in Clients =>
         call'[backlog'[i].from].at = "asking" /\ server'.conn.from # backlog'[i].from
  <2> SUFFICES ASSUME NEW i \in 1 .. Len(backlog) - 1, NEW d \in Clients, backlog[i + 1].from = d
               PROVE  call[d].at = "asking" /\ server'.conn.from # d
    BY <1>1, <1>2
  <2>1. i + 1 \in DOMAIN backlog /\ 1 \in DOMAIN backlog /\ i + 1 # 1
    BY <1>2
  <2>2. backlog[1].from # d
    BY <2>1 DEF SocketInv
  <2> QED BY <2>1, <2>2, <1>5 DEF SocketInv
<1>7. \A i, j \in DOMAIN backlog' :
         backlog'[i].from \in Clients /\ backlog'[i].from = backlog'[j].from => i = j
  <2>1. \A i \in DOMAIN backlog' : /\ backlog'[i] = backlog[i + 1] /\ i \in Nat
                                    /\ i + 1 \in DOMAIN backlog
    BY <1>1, <1>2
  <2>2. \A i, j \in DOMAIN backlog :
           backlog[i].from \in Clients /\ backlog[i].from = backlog[j].from => i = j
    BY DEF SocketInv
  <2> SUFFICES ASSUME NEW i \in DOMAIN backlog', NEW j \in DOMAIN backlog',
                      backlog'[i].from \in Clients, backlog'[i].from = backlog'[j].from
               PROVE  i = j
    OBVIOUS
  <2>3. i + 1 = j + 1
    BY <2>1, <2>2
  <2> QED BY <2>1, <2>3
<1>8. (server'.at \in {"accept", "gone"} => server'.conn.from = Nobody)
      /\ (stopper' = "down" => server'.at = "gone")
  BY <1>1, <1>3
<1>9. SocketInv'
  BY <1>1, <1>4, <1>5, <1>6, <1>7, <1>8 DEF SocketInv
<1>10. \A d \in Clients : Underway(d)' = Underway(d)
  BY <1>1, <1>3 DEF Underway
<1> QED BY <1>1, <1>9, <1>10, Stutters

\* Answering a connection leaves its owner and the queue of connections alone.
LEMMA ServesKeeps ==
    ASSUME SocketInv, NEW reply \in Replies, Serves(reply), server.at = "serve",
           backlog' = backlog, stopper' = stopper, call' = call, got' = got,
           raised' \in Seq(Kinds), events' \in Seq(Nat),
           \A i \in DOMAIN events' : events'[i] \in DOMAIN raised'
    PROVE  /\ SocketInv'
           /\ \A c \in Clients : server.conn.from # c => Underway(c)' = Underway(c)
           /\ \A c \in Clients : server.conn.from = c => Underway(c) = 0 /\ Underway(c)' = reply.event
<1>1. /\ server' \in ServerStates /\ server'.at = "reply" /\ server'.reply = reply
      /\ server'.conn = server.conn
  BY DEF Serves, SocketInv, TypeOK, ServerStates
<1>2. SocketInv'
  BY <1>1 DEF SocketInv, TypeOK, ServerStates
<1>3. \A c \in Clients : server.conn.from = c => call[c].at = "asking"
  BY DEF SocketInv
<1>4. \A c \in Clients : server.conn.from # c => Underway(c)' = Underway(c)
  BY <1>1 DEF Underway
<1>5. \A c \in Clients : server.conn.from = c => Underway(c) = 0 /\ Underway(c)' = reply.event
  BY <1>1, <1>3 DEF Underway
<1> QED BY <1>2, <1>4, <1>5

\* An event is popped for the process being served, or for nobody.
LEMMA PopStep == SocketInv /\ PopEvent => SocketInv' /\ Refines
<1> SUFFICES ASSUME SocketInv, PopEvent PROVE SocketInv' /\ Refines
  OBVIOUS
<1>1. /\ raised' = raised /\ events' = Tail(events) /\ events # <<>> /\ backlog' = backlog
      /\ stopper' = stopper /\ call' = call /\ got' = got /\ server.at = "serve"
      /\ Serves([NoReply EXCEPT !.event = Head(events)])
      /\ raised \in Seq(Kinds) /\ events \in Seq(Nat)
      /\ \A i \in DOMAIN events : events[i] \in DOMAIN raised
  BY DEF PopEvent, SocketInv, TypeOK
<1>2. /\ Head(events) \in Nat /\ Tail(events) \in Seq(Nat)
      /\ \A i \in DOMAIN Tail(events) : Tail(events)[i] \in DOMAIN raised
  <2>1. /\ Len(events) \in Nat /\ DOMAIN events = 1 .. Len(events)
        /\ DOMAIN Tail(events) = 1 .. Len(events) - 1 /\ Tail(events) \in Seq(Nat)
        /\ Head(events) \in Nat
        /\ \A i \in 1 .. Len(events) - 1 : Tail(events)[i] = events[i + 1]
    BY <1>1, HeadTailProperties, LenProperties, EmptySeq, ElementOfSeq
  <2> QED BY <2>1, <1>1
<1> DEFINE reply == [NoReply EXCEPT !.event = Head(events)]
<1>3. reply \in Replies /\ reply.event = Head(events)
  BY <1>2, ValueTypes
<1>4. /\ SocketInv'
      /\ \A c \in Clients : server.conn.from # c => Underway(c)' = Underway(c)
      /\ \A c \in Clients : server.conn.from = c => Underway(c) = 0 /\ Underway(c)' = Head(events)
  <2>1. Serves(reply)
    BY <1>1
  <2> HIDE DEF reply
  <2> QED BY <2>1, <1>1, <1>2, <1>3, ServesKeeps
<1>5. CASE server.conn.from \in Clients
  <2> DEFINE U == [d \in Clients |-> Underway(d)]
             c == server.conn.from
  <2>1. U' = [U EXCEPT ![c] = Head(events)] /\ U[c] = 0
    BY <1>4, <1>5
  <2>2. Delivery!Take(c)
    BY <2>1, <1>1 DEF Delivery!Take
  <2> QED BY <2>2, <1>4, <1>5 DEF Refines, Delivery!Next
<1>6. CASE server.conn.from \notin Clients
  <2>1. [d \in Clients |-> Underway(d)]' = [d \in Clients |-> Underway(d)]
    BY <1>4, <1>6
  <2>2. Delivery!Discard
    BY <2>1, <1>1 DEF Delivery!Discard
  <2> QED BY <2>2, <1>4 DEF Refines, Delivery!Next
<1> QED BY <1>5, <1>6

\* Any other command is answered without an event, whatever else the answer says.
LEMMA CommandStep ==
    ASSUME SocketInv, NEW r, NEW reply \in Replies, reply.event = 0,
           NEW ks \in {<<>>} \cup {<<k>> : k \in Kinds}, RunCommand(r, reply, ks)
    PROVE  SocketInv' /\ Refines
<1>1. /\ backlog' = backlog /\ stopper' = stopper /\ call' = call /\ got' = got
      /\ server.at = "serve" /\ Serves(reply) /\ Pushes(ks)
  BY DEF RunCommand
<1>2. /\ raised' \in Seq(Kinds) /\ events' \in Seq(Nat)
      /\ \A i \in DOMAIN events' : events'[i] \in DOMAIN raised'
      /\ \/ Len(raised') = Len(raised) /\ events' = events
         \/ Len(raised') = Len(raised) + 1 /\ events' = Append(events, Len(raised) + 1)
  BY <1>1, PushesType DEF SocketInv
<1>3. SocketInv' /\ \A c \in Clients : Underway(c)' = Underway(c)
  BY <1>1, <1>2, ServesKeeps
<1>4. CASE Len(raised') = Len(raised) /\ events' = events
  BY <1>1, <1>3, <1>4, Stutters
<1>5. CASE Len(raised') = Len(raised) + 1 /\ events' = Append(events, Len(raised) + 1)
  <2>1. [c \in Clients |-> Underway(c)]' = [c \in Clients |-> Underway(c)]
    BY <1>3
  <2>2. Delivery!Raise
    BY <2>1, <1>1, <1>5 DEF Delivery!Raise
  <2> QED BY <2>2, <1>3 DEF Refines, Delivery!Next
<1> QED BY <1>2, <1>4, <1>5

\* Answers without an event: nothing popped in time, or another command's.
LEMMA ReplyStep ==
    /\ SocketInv /\ PopTimesOut => SocketInv' /\ Refines
    /\ \A r \in Requests, ok \in BOOLEAN, ks \in {<<>>} \cup {<<k>> : k \in Kinds} :
          SocketInv /\ RunCommand(r, [NoReply EXCEPT !.ok = ok], ks) => SocketInv' /\ Refines
<1>1. ASSUME SocketInv, PopTimesOut PROVE SocketInv' /\ Refines
  <2>1. /\ raised' = raised /\ events' = events /\ backlog' = backlog /\ stopper' = stopper
        /\ call' = call /\ got' = got /\ server.at = "serve" /\ Serves(NoReply)
    BY <1>1 DEF PopTimesOut
  <2>2. /\ raised' \in Seq(Kinds) /\ events' \in Seq(Nat)
        /\ \A i \in DOMAIN events' : events'[i] \in DOMAIN raised'
    BY <1>1, <2>1 DEF SocketInv, TypeOK
  <2>3. SocketInv' /\ \A c \in Clients : Underway(c)' = Underway(c)
    BY <1>1, <2>1, <2>2, ServesKeeps, ValueTypes
  <2> QED BY <2>1, <2>3, Stutters
<1>2. ASSUME NEW r \in Requests, NEW ok \in BOOLEAN,
             NEW ks \in {<<>>} \cup {<<k>> : k \in Kinds},
             SocketInv, RunCommand(r, [NoReply EXCEPT !.ok = ok], ks)
      PROVE  SocketInv' /\ Refines
  BY <1>2, CommandStep, ValueTypes
<1> QED BY <1>1, <1>2

\* A process that is answered holds what the server held for it.
LEMMA SendStep == SocketInv /\ SendReply => SocketInv' /\ Refines
<1> SUFFICES ASSUME SocketInv, SendReply PROVE SocketInv' /\ Refines
  OBVIOUS
<1>1. /\ raised' = raised /\ events' = events /\ backlog' = backlog /\ stopper' = stopper
      /\ got' = got /\ server.at = "reply" /\ server \in ServerStates
      /\ call \in [Clients -> CallStates] /\ stopper # "down"
  BY DEF SendReply, SocketInv, TypeOK, ServerStates, CallStates
<1>2. /\ server' \in ServerStates /\ server'.conn.from = Nobody
      /\ server'.at \in {"gone", "accept"}
  BY <1>1, ValueTypes DEF SendReply, ServerStates
<1>3. server.reply \in Replies /\ server.conn.from \in Clients \cup {Nobody}
  BY <1>1 DEF ServerStates, Connections
<1>4. CASE server.conn.from = Nobody
  <2>1. call' = call
    BY <1>4 DEF SendReply
  <2>2. SocketInv'
    BY <2>1, <1>1, <1>2, NobodyAssumption DEF SocketInv, TypeOK, ServerStates
  <2>3. \A d \in Clients : Underway(d)' = Underway(d)
    BY <2>1, <1>1, <1>2, <1>4, NobodyAssumption DEF Underway
  <2> QED BY <2>2, <2>3, <1>1, Stutters
<1>5. ASSUME NEW c \in Clients, server.conn.from = c PROVE SocketInv' /\ Refines
  <2>1. /\ call'[c] = [at |-> "answered", reply |-> server.reply]
        /\ call' \in [Clients -> CallStates]
        /\ \A d \in Clients : d # c => call'[d] = call[d]
    <3>1. call' = [call EXCEPT ![c] = [at |-> "answered", reply |-> server.reply]]
      BY <1>5, NobodyAssumption DEF SendReply, Answered
    <3>2. [at |-> "answered", reply |-> server.reply] \in CallStates
      BY <1>3 DEF CallStates
    <3> QED BY <3>1, <3>2, <1>1, <1>5
  <2>2. call[c].at = "asking" /\ \A i \in DOMAIN backlog : backlog[i].from # c
    BY <1>5 DEF SocketInv
  <2>3. TypeOK'
    BY <1>1, <1>2, <2>1 DEF SocketInv, TypeOK, ServerStates, CallStates
  <2>4. SocketInv'
    BY <1>1, <1>2, <2>1, <2>2, <2>3, NobodyAssumption DEF SocketInv
  <2>5. Underway(c) = server.reply.event /\ Underway(c)' = server.reply.event
    BY <1>1, <1>2, <1>5, <2>1, <2>2, NobodyAssumption DEF Underway
  <2>6. \A d \in Clients : d # c => Underway(d)' = Underway(d)
    BY <1>1, <1>2, <1>5, <2>1, NobodyAssumption DEF Underway
  <2> QED BY <2>4, <2>5, <2>6, <1>1, Stutters
<1> QED BY <1>3, <1>4, <1>5

\* Asking the accept thread to stop, and waking it with a connection of nobody's.
LEMMA StopStep == SocketInv /\ (StopRequest \/ StopWake) => SocketInv' /\ Refines
<1> SUFFICES ASSUME SocketInv, StopRequest \/ StopWake PROVE SocketInv' /\ Refines
  OBVIOUS
<1>1. /\ raised' = raised /\ events' = events /\ call' = call /\ got' = got
      /\ stopper' \in {"waking", "joining"}
      /\ server \in ServerStates /\ backlog \in Seq(Connections)
  BY DEF StopRequest, StopWake, SocketInv, TypeOK, ServerStates
<1>2. CASE StopRequest
  <2>1. /\ backlog' = backlog /\ server' \in ServerStates /\ server'.at = server.at
        /\ server'.conn = server.conn /\ server'.reply = server.reply
    BY <1>1, <1>2 DEF StopRequest, ServerStates
  <2>2. SocketInv'
    BY <1>1, <2>1 DEF SocketInv, TypeOK, ServerStates
  <2>3. \A c \in Clients : Underway(c)' = Underway(c)
    BY <1>1, <2>1 DEF Underway
  <2> QED BY <1>1, <2>2, <2>3, Stutters
<1>3. CASE StopWake
  <2>1. server' = server /\ backlog' = Append(backlog, Idle)
    BY <1>3 DEF StopWake
  <2>2. /\ backlog' \in Seq(Connections) /\ DOMAIN backlog = 1 .. Len(backlog)
        /\ DOMAIN backlog' = 1 .. Len(backlog) + 1 /\ Len(backlog) \in Nat
        /\ \A i \in 1 .. Len(backlog) : backlog'[i] = backlog[i]
        /\ backlog'[Len(backlog) + 1].from = Nobody
    BY <2>1, <1>1, ValueTypes, AppendProperties, LenProperties
  <2>3. \A i \in DOMAIN backlog' : backlog'[i].from \in Clients =>
           i \in DOMAIN backlog /\ backlog'[i] = backlog[i]
    BY <2>2, NobodyAssumption
  <2>4. TypeOK'
    BY <1>1, <2>1, <2>2 DEF SocketInv, TypeOK
  <2>5. \A i, j \in DOMAIN backlog' :
           backlog'[i].from \in Clients /\ backlog'[i].from = backlog'[j].from => i = j
    <3> SUFFICES ASSUME NEW i \in DOMAIN backlog', NEW j \in DOMAIN backlog',
                        backlog'[i].from \in Clients, backlog'[i].from = backlog'[j].from
                 PROVE  i = j
      OBVIOUS
    <3> QED BY <2>3 DEF SocketInv
  <2>6. SocketInv'
    BY <1>1, <2>1, <2>3, <2>4, <2>5 DEF SocketInv
  <2>7. \A c \in Clients : Underway(c)' = Underway(c)
    BY <1>1, <2>1 DEF Underway
  <2> QED BY <1>1, <2>6, <2>7, Stutters
<1> QED BY <1>2, <1>3

\* Closing the socket forgets the queue, and nothing that is on its way.
LEMMA CloseStep == SocketInv /\ StopCloses => SocketInv' /\ Refines
<1> SUFFICES ASSUME SocketInv, StopCloses PROVE SocketInv' /\ Refines
  OBVIOUS
<1> DEFINE Reset(c) == \E i \in DOMAIN backlog : backlog[i].from = c
<1>1. /\ raised' = raised /\ events' = <<>> /\ backlog' = <<>> /\ stopper' = "down"
      /\ server' = server /\ got' = got /\ server.at = "gone" /\ server.conn.from = Nobody
      /\ call \in [Clients -> CallStates]
      /\ call' = [c \in Clients |-> IF Reset(c) THEN [at |-> "answered", reply |-> Failed] ELSE call[c]]
  BY DEF StopCloses, SocketInv, TypeOK, CallStates
<1>2. [at |-> "answered", reply |-> Failed] \in CallStates
  BY ValueTypes DEF CallStates
<1>3. call' \in [Clients -> CallStates]
  <2> HIDE DEF Reset
  <2> QED BY <1>1, <1>2
<1>4. events' \in Seq(Nat) /\ DOMAIN events' = {} /\ backlog' \in Seq(Connections) /\ DOMAIN backlog' = {}
  BY <1>1
<1>5. SocketInv'
  <2>1. TypeOK'
    BY <1>1, <1>3, <1>4 DEF SocketInv, TypeOK, CallStates
  <2> QED BY <2>1, <1>1, <1>4, NobodyAssumption DEF SocketInv
<1>6. ASSUME NEW c \in Clients PROVE Underway(c)' = Underway(c)
  <2>1. CASE Reset(c)
    <3>1. call[c].at = "asking"
      BY <2>1 DEF SocketInv
    <3>2. call'[c] = [at |-> "answered", reply |-> Failed]
      BY <2>1, <1>1
    <3> QED BY <3>1, <3>2, <1>1, ValueTypes, NobodyAssumption DEF Underway
  <2>2. CASE ~Reset(c)
    <3>1. call'[c] = call[c]
      BY <2>2, <1>1
    <3> QED BY <3>1, <1>1 DEF Underway
  <2> QED BY <2>1, <2>2
<1>7. Refines
  <2>1. [c \in Clients |-> Underway(c)]' = [c \in Clients |-> Underway(c)]
    BY <1>6
  <2>2. Delivery!Forget
    BY <2>1, <1>1 DEF Delivery!Forget
  <2> QED BY <2>2 DEF Refines, Delivery!Next
<1> QED BY <1>5, <1>7

\* A plugin that is loaded again finds the accept thread gone.
LEMMA StartStep == SocketInv /\ StartAgain => SocketInv' /\ Refines
<1> SUFFICES ASSUME SocketInv, StartAgain PROVE SocketInv' /\ Refines
  OBVIOUS
<1>1. /\ raised' = raised /\ events' = events /\ backlog' = backlog /\ stopper' = "up"
      /\ call' = call /\ got' = got /\ server.at = "gone" /\ server \in ServerStates
      /\ server' = [server EXCEPT !.at = "accept", !.stopping = FALSE]
  BY DEF StartAgain, SocketInv, TypeOK, ServerStates
<1>2. server' \in ServerStates /\ server'.at = "accept" /\ server'.conn = server.conn
  BY <1>1 DEF ServerStates
<1>3. SocketInv'
  BY <1>1, <1>2 DEF SocketInv, TypeOK, ServerStates
<1>4. \A c \in Clients : Underway(c)' = Underway(c)
  BY <1>1, <1>2 DEF Underway
<1> QED BY <1>1, <1>3, <1>4, Stutters

\* Every step of the control socket keeps SocketInv and is a step of EventDelivery.
LEMMA SocketStep == SocketInv /\ [Next]_vars => SocketInv' /\ Refines
<1> SUFFICES ASSUME SocketInv, [Next]_vars PROVE SocketInv' /\ Refines
  OBVIOUS
<1>1. CASE \E k \in Kinds : RaiseEvent(k)
  BY <1>1, RaiseStep
<1>2. CASE ServerThread
  BY <1>2, AcceptStep, PopStep, ReplyStep, SendStep DEF ServerThread
<1>3. CASE \E r \in Requests, ok \in BOOLEAN, ks \in {<<>>} \cup {<<k>> : k \in Kinds} :
              /\ Len(raised) + Len(ks) <= MaxRaised
              /\ RunCommand(r, [NoReply EXCEPT !.ok = ok], ks)
  BY <1>3, ReplyStep
<1>4. CASE Stopping \/ StartAgain
  BY <1>4, StopStep, CloseStep, StartStep DEF Stopping
<1>5. CASE \E c \in Clients :
              \/ \E r \in Requests \cup {"next_event"} : Ask(c, r)
              \/ GiveUp(c)
              \/ Vanish(c)
              \/ Receive(c)
  BY <1>5, AskStep, GoneStep, ReceiveStep
<1>6. CASE UNCHANGED vars
  <2>1. \A c \in Clients : Underway(c)' = Underway(c)
    BY <1>6 DEF vars, Underway
  <2>2. SocketInv'
    BY <1>6 DEF vars, SocketInv, TypeOK
  <2> QED BY <2>1, <2>2, <1>6, Stutters DEF vars
<1> QED BY <1>1, <1>2, <1>3, <1>4, <1>5, <1>6 DEF Next

\* The control socket keeps its types, and no connection outlives the wait of the
\* process it belongs to, for any processes, requests and backlog.
THEOREM SocketCorrect == Spec => []SocketInv
BY SocketInit, SocketStep, PTL DEF Spec

\* The control socket implements EventDelivery: whatever its processes, server and
\* plugin do, events are delivered in order and to one process each.
THEOREM DeliveryImplemented == Spec => ImplementsDelivery
<1>1. Init => Delivery!Init
  <2> SUFFICES ASSUME Init PROVE Delivery!Init
    OBVIOUS
  <2>1. \A c \in Clients : Underway(c) = 0
    BY SocketInit, NothingUnderway DEF Init
  <2>2. [c \in Clients |-> Underway(c)] = [c \in Clients |-> 0]
    BY <2>1
  <2> QED BY <2>2 DEF Init, Delivery!Init
<1>2. SocketInv /\ [Next]_vars => [Delivery!Next]_(Delivery!vars)
  BY SocketStep DEF Refines
<1> QED BY <1>1, <1>2, SocketCorrect, PTL DEF Spec, ImplementsDelivery, Delivery!Spec

--------------------------------------------------------------------------------
(* For the modules that extend the control socket                             *)

\* What EventDelivery_proofs shows, about the events of the control socket.
Proofs == INSTANCE EventDelivery_proofs WITH
              raised <- Len(raised), queue <- events,
              underway <- [c \in Clients |-> Underway(c)]

\* The words of EventDelivery are those of its proofs.
LEMMA SameSteps == Refines => [Proofs!Next]_(Proofs!vars)
<1> USE DEF Refines, Delivery!vars, Proofs!vars
<1>1. Delivery!Next => Proofs!Next
  BY DEF Delivery!Next, Proofs!Next, Delivery!Raise, Proofs!Raise, Delivery!Discard,
         Proofs!Discard, Delivery!Forget, Proofs!Forget, Delivery!Take, Proofs!Take,
         Delivery!Deliver, Proofs!Deliver, Delivery!Lose, Proofs!Lose
<1> QED BY <1>1

\* Appending what is greater than all the rest keeps a sequence ascending.
LEMMA Appends ==
    ASSUME NEW s \in Seq(Nat), NEW e \in Nat
    PROVE  /\ Append(s, e) \in Seq(Nat)
           /\ Delivery!Of(Append(s, e)) = Delivery!Of(s) \cup {e}
           /\ Delivery!Ascending(s) /\ (\A x \in Delivery!Of(s) : x < e)
                 => Delivery!Ascending(Append(s, e))
BY Proofs!AppendAscends DEF Delivery!Of, Proofs!Of, Delivery!Ascending, Proofs!Ascending

\* Of the events a process has received, each is one that was raised, and what is
\* on its way to it is younger than all of them.
LEMMA Received ==
    ASSUME SocketInv, Proofs!Inv, NEW c \in Clients
    PROVE  /\ \A e \in Delivery!Of(got[c]) : e \in 1 .. Len(raised)
           /\ Underway(c) \in 0 .. Len(raised)
           /\ Underway(c) # 0 => \A e \in Delivery!Of(got[c]) : e < Underway(c)
<1> DEFINE U == [d \in Clients |-> Underway(d)]
<1>1. U[c] = Underway(c)
  OBVIOUS
<1>2. got \in [Clients -> Seq(Nat)] /\ raised \in Seq(Kinds)
  BY DEF SocketInv, TypeOK
<1>3. U \in [Clients -> Nat]
  BY DEF Proofs!Inv, Proofs!TypeOK
<1>4. Len(raised) \in Nat /\ \A e \in Delivery!Of(got[c]) : e \in Nat
  BY <1>2 DEF Delivery!Of
<1>5. /\ \A e \in Delivery!Of(got[c]) : 1 <= e /\ e <= Len(raised)
      /\ U[c] # 0 => 1 <= U[c] /\ U[c] <= Len(raised)
      /\ U[c] # 0 => \A e \in Delivery!Of(got[c]) : e < U[c]
  BY DEF Proofs!Inv, Proofs!Held, Proofs!Of, Delivery!Of
<1> QED BY <1>1, <1>3, <1>4, <1>5

\* The events raised so far stay as they are.
Keeps == /\ Len(raised) \in Nat /\ Len(raised') \in Nat /\ Len(raised) <= Len(raised')
         /\ \A i \in 1 .. Len(raised) : raised'[i] = raised[i]

\* EventQueue::push adds behind what was raised.
LEMMA PushesKeep ==
    ASSUME TypeOK, NEW ks, ks = <<>> \/ \E k \in Kinds : ks = <<k>>, Pushes(ks)
    PROVE  Keeps
<1>1. raised \in Seq(Kinds) /\ raised' = raised \o ks
  BY DEF TypeOK, Pushes
<1>2. CASE ks = <<>>
  BY <1>1, <1>2 DEF Keeps
<1>3. ASSUME NEW k \in Kinds, ks = <<k>> PROVE Keeps
  <2>1. raised' = Append(raised, k)
    BY <1>1, <1>3
  <2> QED BY <2>1, <1>1, AppendProperties, LenProperties DEF Keeps
<1> QED BY <1>2, <1>3

\* A step that pushes nothing keeps what was raised.
LEMMA Kept == TypeOK /\ raised' = raised => Keeps
<1> SUFFICES ASSUME TypeOK, raised' = raised PROVE Keeps
  OBVIOUS
<1>1. raised \in Seq(Kinds)
  BY DEF TypeOK
<1> QED BY <1>1, LenProperties DEF Keeps

================================================================================
