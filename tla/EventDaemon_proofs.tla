--------------------------- MODULE EventDaemon_proofs ---------------------------
EXTENDS EventDaemon, ControlSocket_proofs

\* An answer that carries an event is not an error.
OkInv ==
    /\ server.reply.event # 0 => server.reply.ok
    /\ call[Daemon].reply.event # 0 => call[Daemon].reply.ok

\* The event the daemon handles is the last it received: it is behind it in the
\* journal and the hooks are behind the journal.
HandlingInv ==
    /\ call[Daemon].at # "idle" => daemon.at = "loop"
    /\ daemon.at \in {"journal", "hooks", "status"} => daemon.event \in Delivery!Of(got[Daemon])
    /\ daemon.at = "journal" => \A e \in Delivery!Of(inbox) : e < daemon.event
    /\ daemon.at \in {"journal", "hooks"} => \A e \in Delivery!Of(ran) : e < daemon.event
    /\ daemon.at = "hooks" /\ raised[daemon.event] = "message" => daemon.event \in Delivery!Of(inbox)
    /\ Delivery!Of(ran) \subseteq Delivery!Of(got[Daemon])

\* The inductive invariant of the daemon.
DaemonInv ==
    /\ DaemonTypeOK
    /\ SocketInv /\ OkInv
    /\ Proofs!Inv
    /\ HandlingInv
    /\ InboxInOrder /\ InboxComplete /\ HooksAfterJournal

\* Before the daemon is first started it has received and written nothing.
LEMMA DaemonInvInit == DaemonInit => DaemonInv
<1> SUFFICES ASSUME DaemonInit PROVE DaemonInv
  OBVIOUS
<1> USE DaemonAssumption
<1>1. SocketInv /\ TypeOK /\ Init
  BY SocketInit DEF DaemonInit, SocketInv
<1>2. /\ daemon = [at |-> "off", event |-> 0, stop |-> FALSE, starts |-> 0]
      /\ inbox = <<>> /\ ran = <<>> /\ missed = {}
      /\ status = [running |-> FALSE, last |-> 0]
  BY DEF DaemonInit
<1>3. got[Daemon] = <<>> /\ Len(raised) = 0 /\ call[Daemon] = [at |-> "idle", reply |-> NoReply]
      /\ server.reply = NoReply
  BY <1>1 DEF Init
<1>4. Delivery!Of(<<>>) = {} /\ Delivery!Ascending(<<>>)
  BY DEF Delivery!Of, Delivery!Ascending
<1>5. DaemonTypeOK
  BY <1>1, <1>2, <1>3 DEF DaemonTypeOK
<1>6. OkInv
  BY <1>3, ValueTypes DEF OkInv
<1>7. Proofs!Inv
  <2>1. \A c \in Clients : Underway(c) = 0
    BY <1>1, NothingUnderway DEF Init
  <2>2. Proofs!Init
    BY <1>1, <2>1 DEF Init, Proofs!Init
  <2> QED BY <2>2, Proofs!InvInit
<1>8. HandlingInv
  BY <1>2, <1>3, <1>4 DEF HandlingInv
<1>9. InboxInOrder /\ InboxComplete /\ HooksAfterJournal
  BY <1>2, <1>3, <1>4 DEF InboxInOrder, InboxComplete, HooksAfterJournal
<1> QED BY <1>1, <1>5, <1>6, <1>7, <1>8, <1>9 DEF DaemonInv

\* What the other processes, the server and the plugin leave alone of the daemon's.
LEMMA OthersStep ==
    ASSUME SocketInv, OkInv, StepOfOthers
    PROVE  /\ SocketInv' /\ Refines /\ OkInv' /\ Keeps
           /\ got'[Daemon] = got[Daemon]
           /\ call'[Daemon].at # "idle" => call[Daemon].at # "idle"
<1> DEFINE Leaves == /\ SocketInv' /\ Refines /\ OkInv' /\ Keeps
                     /\ got'[Daemon] = got[Daemon]
                     /\ call'[Daemon].at # "idle" => call[Daemon].at # "idle"
<1> USE DaemonAssumption
<1>1. TypeOK /\ call \in [Clients -> CallStates] /\ server \in ServerStates /\ got \in [Clients -> Seq(Nat)]
  BY DEF SocketInv, TypeOK, CallStates, ServerStates
<1>2. ASSUME NEW k \in Kinds, RaiseEvent(k) PROVE Leaves
  <2>1. SocketInv' /\ Refines
    BY <1>2, RaiseStep
  <2> QED BY <2>1, <1>1, <1>2, PushesKeep DEF RaiseEvent, OkInv
<1>3. CASE Accept
  <2>1. SocketInv' /\ Refines
    BY <1>3, AcceptStep
  <2>2. server'.reply = server.reply /\ raised' = raised /\ call' = call /\ got' = got
    BY <1>1, <1>3 DEF Accept, ServerStates
  <2> QED BY <2>1, <2>2, <1>1, Kept DEF OkInv
<1>4. CASE PopEvent
  <2>1. SocketInv' /\ Refines
    BY <1>4, PopStep
  <2>2. server'.reply = [NoReply EXCEPT !.event = Head(events)] /\ raised' = raised
        /\ call' = call /\ got' = got
    BY <1>1, <1>4 DEF PopEvent, Serves, ServerStates
  <2>3. server'.reply.ok
    BY <2>2 DEF NoReply
  <2> QED BY <2>1, <2>2, <2>3, <1>1, Kept DEF OkInv
<1>5. CASE PopTimesOut
  <2>1. SocketInv' /\ Refines
    BY <1>5, ReplyStep
  <2>2. server'.reply = NoReply /\ raised' = raised /\ call' = call /\ got' = got
    BY <1>1, <1>5 DEF PopTimesOut, Serves, ServerStates
  <2> QED BY <2>1, <2>2, <1>1, Kept, ValueTypes DEF OkInv
<1>6. CASE SendReply
  <2>1. SocketInv' /\ Refines
    BY <1>6, SendStep
  <2>2. server'.reply = NoReply /\ raised' = raised /\ got' = got
    BY <1>1, <1>6 DEF SendReply, ServerStates
  <2>3. CASE server.conn.from = Daemon
    <3>1. call'[Daemon] = [at |-> "answered", reply |-> server.reply]
      BY <2>3, <1>1, <1>6, NobodyAssumption DEF SendReply, Answered
    <3>2. call[Daemon].at = "asking"
      BY <2>3 DEF SocketInv
    <3> QED BY <3>1, <3>2, <2>1, <2>2, <1>1, Kept, ValueTypes DEF OkInv
  <2>4. CASE server.conn.from # Daemon
    <3>1. call'[Daemon] = call[Daemon]
      BY <2>4, <1>1, <1>6 DEF SendReply, Answered
    <3> QED BY <3>1, <2>1, <2>2, <1>1, Kept, ValueTypes DEF OkInv
  <2> QED BY <2>3, <2>4
<1>7. ASSUME NEW r \in Requests, NEW ok \in BOOLEAN,
             RunCommand(r, [NoReply EXCEPT !.ok = ok], <<>>)
      PROVE  Leaves
  <2> DEFINE reply == [NoReply EXCEPT !.ok = ok]
  <2>2. SocketInv' /\ Refines
    BY <1>7, ReplyStep
  <2>3. server'.reply = reply /\ call' = call /\ got' = got /\ Pushes(<<>>)
    BY <1>1, <1>7 DEF RunCommand, Serves, ServerStates
  <2>4. Keeps
    BY <2>3, <1>1, PushesKeep
  <2>5. reply.event = 0
    BY ValueTypes
  <2> QED BY <2>2, <2>3, <2>4, <2>5 DEF OkInv
<1>8. CASE StopRequest \/ StopWake
  <2>1. SocketInv' /\ Refines
    BY <1>8, StopStep
  <2>2. server'.reply = server.reply /\ raised' = raised /\ call' = call /\ got' = got
    BY <1>1, <1>8 DEF StopRequest, StopWake, ServerStates
  <2> QED BY <2>1, <2>2, <1>1, Kept DEF OkInv
<1>9. CASE StopCloses
  <2>1. SocketInv' /\ Refines
    BY <1>9, CloseStep
  <2>2. server' = server /\ raised' = raised /\ got' = got
    BY <1>9 DEF StopCloses
  <2>3. \/ call'[Daemon] = call[Daemon]
        \/ call'[Daemon] = [at |-> "answered", reply |-> Failed] /\ call[Daemon].at = "asking"
    <3>1. CASE \E i \in DOMAIN backlog : backlog[i].from = Daemon
      BY <3>1, <1>9 DEF StopCloses, SocketInv
    <3>2. CASE ~ \E i \in DOMAIN backlog : backlog[i].from = Daemon
      BY <3>2, <1>9 DEF StopCloses
    <3> QED BY <3>1, <3>2
  <2> QED BY <2>1, <2>2, <2>3, <1>1, Kept, ValueTypes DEF OkInv
<1>10. CASE StartAgain
  <2>1. SocketInv' /\ Refines
    BY <1>10, StartStep
  <2>2. server'.reply = server.reply /\ raised' = raised /\ call' = call /\ got' = got
    BY <1>1, <1>10 DEF StartAgain, ServerStates
  <2> QED BY <2>1, <2>2, <1>1, Kept DEF OkInv
<1>11. ASSUME NEW c \in Clients \ {Daemon},
              (\E r \in Requests \cup {"next_event"} : Ask(c, r)) \/ GiveUp(c) \/ Vanish(c) \/ Receive(c)
       PROVE  Leaves
  <2>1. SocketInv' /\ Refines
    BY <1>11, AskStep, GoneStep, ReceiveStep
  <2>2. server'.reply = server.reply /\ raised' = raised
    BY <1>1, <1>11 DEF Ask, GiveUp, Vanish, Receive, Abandon, ServerStates
  <2>3. call'[Daemon] = call[Daemon]
    BY <1>1, <1>11 DEF Ask, GiveUp, Vanish, Receive, Answered
  <2>4. got'[Daemon] = got[Daemon]
    BY <1>1, <1>11 DEF Ask, GiveUp, Vanish, Receive
  <2> QED BY <2>1, <2>2, <2>3, <2>4, <1>1, Kept DEF OkInv
<1> QED BY <1>2, <1>3, <1>4, <1>5, <1>6, <1>7, <1>8, <1>9, <1>10, <1>11
        DEF StepOfOthers, ServerThread, Stopping

DaemonStates == [at : {"off", "loop", "journal", "hooks", "status", "error", "exit"},
                 event : 0 .. Len(raised), stop : BOOLEAN, starts : 0 .. MaxStarts]

\* A step that neither receives nor handles an event keeps the invariant when the
\* daemon stays with its event, passes over its hooks, or drops it for good.
LEMMA Settles ==
    ASSUME DaemonInv, SocketInv', OkInv', Refines, Keeps,
           got'[Daemon] = got[Daemon], inbox' = inbox, ran' = ran,
           missed' \subseteq Nat, missed \subseteq missed',
           status' \in [running : BOOLEAN, last : Nat], daemon' \in DaemonStates',
           call'[Daemon].at # "idle" => daemon'.at = "loop",
           daemon'.at \in {"journal", "hooks", "status"} =>
              daemon'.event = daemon.event /\ (daemon'.at = daemon.at \/ (daemon.at = "hooks" /\ daemon'.at = "status")),
           daemon.at = "journal" => daemon'.at = "journal" \/ daemon.event \in missed'
                                    \/ raised[daemon.event] # "message"
    PROVE  DaemonInv'
<1> USE DaemonAssumption
<1>1. Proofs!Inv'
  BY SameSteps, Proofs!InvNext DEF DaemonInv
<1>2. \A e \in Delivery!Of(got[Daemon]) : e \in 1 .. Len(raised)
  BY Received DEF DaemonInv
<1>3. \A e \in Delivery!Of(got[Daemon]) : raised'[e] = raised[e]
  BY <1>2 DEF Keeps
<1>4. daemon'.at \in {"journal", "hooks", "status"} => raised'[daemon'.event] = raised[daemon.event]
  BY <1>3 DEF DaemonInv, HandlingInv
<1>5. DaemonTypeOK'
  <2>1. TypeOK' /\ inbox' \in Seq(Nat) /\ ran' \in Seq(Nat)
    BY DEF SocketInv, DaemonInv, DaemonTypeOK
  <2>2. daemon'.at \in {"journal", "hooks", "status"} => daemon'.event # 0
    BY DEF DaemonInv, DaemonTypeOK
  <2> QED BY <2>1, <2>2 DEF DaemonTypeOK, DaemonStates
<1>6. HandlingInv'
  BY <1>4 DEF DaemonInv, HandlingInv
<1>7. InboxInOrder'
  BY <1>3 DEF DaemonInv, InboxInOrder
<1>8. InboxComplete'
  BY <1>3 DEF DaemonInv, InboxComplete
<1>9. HooksAfterJournal'
  <2>1. \A i \in Delivery!Of(ran) : raised'[i] = raised[i]
    BY <1>3 DEF DaemonInv, HandlingInv
  <2> QED BY <2>1 DEF DaemonInv, HooksAfterJournal
<1> QED BY <1>1, <1>5, <1>6, <1>7, <1>8, <1>9 DEF DaemonInv

\* A step that leaves the control socket alone.
LEMMA OwnStep ==
    ASSUME DaemonInv, UNCHANGED vars
    PROVE  /\ SocketInv' /\ Refines /\ OkInv' /\ Keeps
           /\ got' = got /\ raised' = raised /\ call' = call
<1>1. SocketInv' /\ Refines
  BY SocketStep DEF DaemonInv
<1>2. OkInv'
  BY DEF DaemonInv, OkInv, vars
<1>3. got' = got /\ raised' = raised /\ call' = call
  BY DEF vars
<1>4. Keeps
  BY <1>3, Kept DEF DaemonInv, SocketInv
<1> QED BY <1>1, <1>2, <1>3, <1>4

\* The steps that only move the daemon on, or lose it its event.
LEMMA MovesStep ==
    ASSUME DaemonInv,
           DaemonStarts \/ DaemonStopRequested \/ JournalFails \/ HooksUnread
              \/ DaemonWritesStatus \/ StatusFails \/ DaemonExits
    PROVE  DaemonInv'
<1> USE DaemonAssumption
<1>1. UNCHANGED vars /\ inbox' = inbox /\ ran' = ran
  BY DEF DaemonStarts, DaemonStopRequested, JournalFails, HooksUnread, DaemonWritesStatus,
         StatusFails, DaemonExits, vars
<1>2. /\ SocketInv' /\ Refines /\ OkInv' /\ Keeps
      /\ got' = got /\ raised' = raised /\ call' = call
  BY <1>1, OwnStep
<1>3. /\ daemon \in DaemonStates /\ missed \subseteq Nat /\ DaemonStates' = DaemonStates
      /\ status \in [running : BOOLEAN, last : Nat] /\ Len(raised) \in Nat
      /\ call[Daemon].at # "idle" => daemon.at = "loop"
  BY <1>2 DEF DaemonInv, DaemonTypeOK, DaemonStates, HandlingInv, Keeps
<1>4. daemon.event \in Nat
  BY <1>3 DEF DaemonStates
<1>5. ASSUME daemon' \in DaemonStates, missed' \subseteq Nat, missed \subseteq missed',
             status' \in [running : BOOLEAN, last : Nat],
             daemon.at = "loop" => daemon'.at = "loop",
             daemon'.at \in {"journal", "hooks", "status"} =>
                daemon'.event = daemon.event /\ (daemon'.at = daemon.at \/ (daemon.at = "hooks" /\ daemon'.at = "status")),
             daemon.at = "journal" => daemon'.at = "journal" \/ daemon.event \in missed'
      PROVE  DaemonInv'
  BY <1>1, <1>2, <1>3, <1>5, Settles
<1>6. CASE DaemonStarts
  <2>1. /\ daemon' = [at |-> "loop", event |-> 0, stop |-> FALSE, starts |-> daemon.starts + 1]
        /\ status' = [running |-> TRUE, last |-> 0]
        /\ missed' = missed /\ daemon.at = "off" /\ daemon.starts + 1 \in 0 .. MaxStarts
    BY <1>3, <1>6 DEF DaemonStarts, DaemonStates
  <2>2. daemon' \in DaemonStates
    BY <2>1, <1>3 DEF DaemonStates
  <2> QED BY <2>1, <2>2, <1>3, <1>5
<1>7. CASE DaemonStopRequested
  <2>1. daemon' = [daemon EXCEPT !.stop = TRUE] /\ missed' = missed /\ status' = status
    BY <1>7 DEF DaemonStopRequested
  <2>2. daemon' \in DaemonStates /\ daemon'.at = daemon.at /\ daemon'.event = daemon.event
    BY <2>1, <1>3 DEF DaemonStates
  <2>3. missed' \subseteq Nat /\ missed \subseteq missed' /\ status' \in [running : BOOLEAN, last : Nat]
    BY <2>1, <1>3
  <2>4. /\ daemon'.at \in {"journal", "hooks", "status"} =>
             daemon'.event = daemon.event /\ (daemon'.at = daemon.at \/ (daemon.at = "hooks" /\ daemon'.at = "status"))
        /\ daemon.at = "journal" => daemon'.at = "journal" \/ daemon.event \in missed'
        /\ daemon.at = "loop" => daemon'.at = "loop"
    BY <2>2
  <2> QED BY <2>2, <2>3, <2>4, <1>5
<1>8. CASE JournalFails
  <2>1. daemon' = [daemon EXCEPT !.at = "exit"] /\ missed' = missed \cup {daemon.event}
        /\ daemon.at = "journal" /\ status' = status
    BY <1>8 DEF JournalFails, DaemonGoes
  <2>2. daemon' \in DaemonStates /\ daemon'.at = "exit"
    BY <2>1, <1>3 DEF DaemonStates
  <2>3. missed' \subseteq Nat /\ missed \subseteq missed' /\ daemon.event \in missed'
    BY <2>1, <1>3, <1>4
  <2> QED BY <2>1, <2>2, <2>3, <1>3, <1>5
<1>9. CASE HooksUnread
  BY <1>3, <1>5, <1>9 DEF HooksUnread, DaemonGoes, DaemonStates
<1>10. CASE DaemonWritesStatus
  BY <1>3, <1>4, <1>5, <1>10 DEF DaemonWritesStatus, DaemonGoes, DaemonStates
<1>11. CASE StatusFails
  BY <1>3, <1>5, <1>11 DEF StatusFails, DaemonGoes, DaemonStates
<1>12. CASE DaemonExits
  BY <1>3, <1>4, <1>5, <1>12 DEF DaemonExits, DaemonGoes, DaemonStates
<1> QED BY <1>6, <1>7, <1>8, <1>9, <1>10, <1>11, <1>12

\* A request that is sent, given up, or lost with the daemon.
LEMMA ExchangeStep ==
    ASSUME DaemonInv, DaemonAsks \/ DaemonGivesUp \/ DaemonKilled
    PROVE  DaemonInv'
<1> USE DaemonAssumption
<1>1. inbox' = inbox /\ ran' = ran /\ status' = status
  BY DEF DaemonAsks, DaemonGivesUp, DaemonKilled, daemonVars
<1>2. /\ daemon \in DaemonStates /\ missed \subseteq Nat /\ Len(raised) \in Nat
      /\ status \in [running : BOOLEAN, last : Nat]
      /\ call[Daemon].at # "idle" => daemon.at = "loop"
      /\ call \in [Clients -> CallStates] /\ server \in ServerStates
      /\ SocketInv /\ OkInv
  BY DEF DaemonInv, DaemonTypeOK, DaemonStates, HandlingInv, TypeOK, CallStates, ServerStates
<1>3. CASE UNCHANGED vars
  <2>1. /\ SocketInv' /\ Refines /\ OkInv' /\ Keeps
        /\ got' = got /\ raised' = raised /\ call' = call
    BY <1>3, OwnStep
  <2>2. DaemonStates' = DaemonStates
    BY <2>1 DEF DaemonStates
  <2>3. CASE DaemonAsks
    <3>1. missed' = missed
      BY <2>3 DEF DaemonAsks
    <3>2. CASE daemon.stop
      <4>1. call[Daemon].at = "idle" /\ daemon' = [daemon EXCEPT !.at = "exit"] /\ daemon.at = "loop"
        BY <2>3, <3>2 DEF DaemonAsks, DaemonGoes
      <4> QED BY <4>1, <3>1, <2>1, <2>2, <1>1, <1>2, Settles DEF DaemonStates
    <3>3. CASE ~daemon.stop
      <4>1. daemon' = daemon /\ daemon.at = "loop"
        BY <2>3, <3>3 DEF DaemonAsks
      <4> QED BY <4>1, <3>1, <2>1, <2>2, <1>1, <1>2, Settles DEF DaemonStates
    <3> QED BY <3>2, <3>3
  <2>4. CASE DaemonGivesUp
    <3>1. missed' = missed /\ daemon' = daemon /\ daemon.at = "loop"
      BY <2>4, <1>2 DEF DaemonGivesUp, daemonVars, GiveUp
    <3> QED BY <3>1, <2>1, <2>2, <1>1, <1>2, Settles DEF DaemonStates
  <2>5. CASE DaemonKilled
    <3>1. /\ daemon' = [daemon EXCEPT !.at = "off"]
          /\ missed' = IF daemon.at = "journal" THEN missed \cup {daemon.event} ELSE missed
          /\ call'[Daemon].at = "idle"
      BY <2>5, <2>1, <1>2, <1>3 DEF DaemonKilled, DaemonGoes, Vanish, CallStates
    <3> QED BY <3>1, <2>1, <2>2, <1>1, <1>2, Settles DEF DaemonStates
  <2> QED BY <2>3, <2>4, <2>5
<1>4. CASE \/ Ask(Daemon, "next_event") /\ UNCHANGED <<daemon, missed>> /\ daemon.at = "loop"
           \/ GiveUp(Daemon) /\ UNCHANGED <<daemon, missed>>
           \/ Vanish(Daemon) /\ DaemonKilled
  <2>1. SocketInv' /\ Refines
    BY <1>2, <1>4, AskStep, GoneStep
  <2>2. raised' = raised /\ got' = got /\ server'.reply = server.reply
    BY <1>2, <1>4 DEF Ask, GiveUp, Vanish, Abandon, ServerStates
  <2>3. Keeps /\ DaemonStates' = DaemonStates
    BY <1>2, <2>2, Kept DEF SocketInv, DaemonStates
  <2>4. call'[Daemon].reply = call[Daemon].reply \/ call'[Daemon].reply.event = 0
    BY <1>2, <1>4, ValueTypes DEF Ask, GiveUp, Vanish, Answered, CallStates
  <2>5. OkInv'
    BY <1>2, <2>2, <2>4 DEF OkInv
  <2>6. CASE ((Ask(Daemon, "next_event") /\ daemon.at = "loop") \/ GiveUp(Daemon)) /\ UNCHANGED <<daemon, missed>>
    <3>1. daemon.at = "loop"
      BY <2>6, <1>2 DEF GiveUp
    <3> QED BY <3>1, <2>6, <2>1, <2>2, <2>3, <2>5, <1>1, <1>2, Settles DEF DaemonStates
  <2>7. CASE Vanish(Daemon) /\ DaemonKilled
    <3>1. call'[Daemon].at = "idle"
      BY <2>7, <1>2 DEF Vanish
    <3>2. daemon.at = "loop" /\ daemon' = [daemon EXCEPT !.at = "off"] /\ missed' = missed
      BY <2>7, <1>2 DEF DaemonKilled, DaemonGoes, Vanish
    <3>3. daemon' \in DaemonStates /\ daemon'.at = "off"
      BY <3>2, <1>2 DEF DaemonStates
    <3> QED BY <3>1, <3>2, <3>3, <2>1, <2>2, <2>3, <2>5, <1>1, <1>2, Settles
  <2> QED BY <1>4, <2>6, <2>7
<1> QED BY <1>3, <1>4 DEF DaemonAsks, DaemonGivesUp, DaemonKilled, daemonVars

\* append_inbox_event: what is journaled is younger than all of the journal.
LEMMA JournalStep == ASSUME DaemonInv, DaemonJournals PROVE DaemonInv'
<1> USE DaemonAssumption
<1>1. /\ UNCHANGED vars /\ ran' = ran /\ missed' = missed /\ status' = status
      /\ daemon.at = "journal" /\ daemon' = [daemon EXCEPT !.at = "hooks"]
      /\ inbox' = IF raised[daemon.event] = "message" THEN Append(inbox, daemon.event) ELSE inbox
  BY DEF DaemonJournals, DaemonGoes
<1>2. /\ SocketInv' /\ Refines /\ OkInv' /\ Keeps
      /\ got' = got /\ raised' = raised /\ call' = call
  BY <1>1, OwnStep
<1>3. Proofs!Inv'
  BY <1>2, SameSteps, Proofs!InvNext DEF DaemonInv
<1>4. /\ daemon \in DaemonStates /\ DaemonStates' = DaemonStates /\ inbox \in Seq(Nat)
      /\ daemon.event \in Nat /\ daemon.event # 0
      /\ daemon.event \in Delivery!Of(got[Daemon])
      /\ \A e \in Delivery!Of(inbox) \cup Delivery!Of(ran) : e < daemon.event
      /\ call[Daemon].at = "idle"
  BY <1>1, <1>2 DEF DaemonInv, DaemonTypeOK, DaemonStates, HandlingInv
<1>5. daemon' \in DaemonStates /\ daemon'.at = "hooks" /\ daemon'.event = daemon.event
  BY <1>1, <1>4 DEF DaemonStates
<1>6. /\ inbox' \in Seq(Nat) /\ Delivery!Ascending(inbox')
      /\ Delivery!Of(inbox') = IF raised[daemon.event] = "message"
                               THEN Delivery!Of(inbox) \cup {daemon.event} ELSE Delivery!Of(inbox)
  BY <1>1, <1>4, Appends DEF DaemonInv, InboxInOrder
<1>7. DaemonTypeOK'
  BY <1>1, <1>2, <1>4, <1>5, <1>6 DEF DaemonInv, DaemonTypeOK, DaemonStates, SocketInv
<1>8. HandlingInv'
  BY <1>1, <1>2, <1>4, <1>5, <1>6 DEF DaemonInv, HandlingInv
<1>9. InboxInOrder' /\ InboxComplete'
  BY <1>1, <1>2, <1>4, <1>5, <1>6 DEF DaemonInv, InboxInOrder, InboxComplete
<1>10. HooksAfterJournal'
  BY <1>1, <1>2, <1>6 DEF DaemonInv, HooksAfterJournal
<1> QED BY <1>2, <1>3, <1>7, <1>8, <1>9, <1>10 DEF DaemonInv

\* The hooks are run for the event that has just been journaled.
LEMMA HooksStep ==
    ASSUME DaemonInv, DaemonRunsHooks \/ HookBreaksPipe
    PROVE  DaemonInv'
<1> USE DaemonAssumption
<1>1. /\ UNCHANGED vars /\ inbox' = inbox /\ missed' = missed /\ status' = status
      /\ daemon.at = "hooks"
      /\ daemon' = [daemon EXCEPT !.at = "status"] \/ daemon' = [daemon EXCEPT !.at = "off"]
      /\ ran' = Append(ran, daemon.event) \/ ran' = ran
  BY DEF DaemonRunsHooks, HookBreaksPipe, DaemonGoes
<1>2. /\ SocketInv' /\ Refines /\ OkInv' /\ Keeps
      /\ got' = got /\ raised' = raised /\ call' = call
  BY <1>1, OwnStep
<1>3. Proofs!Inv'
  BY <1>2, SameSteps, Proofs!InvNext DEF DaemonInv
<1>4. /\ daemon \in DaemonStates /\ DaemonStates' = DaemonStates /\ ran \in Seq(Nat)
      /\ daemon.event \in Nat /\ daemon.event # 0
      /\ daemon.event \in Delivery!Of(got[Daemon])
      /\ \A e \in Delivery!Of(ran) : e < daemon.event
      /\ raised[daemon.event] = "message" => daemon.event \in Delivery!Of(inbox)
      /\ call[Daemon].at = "idle"
  BY <1>1, <1>2 DEF DaemonInv, DaemonTypeOK, DaemonStates, HandlingInv
<1>5. daemon' \in DaemonStates /\ daemon'.at \in {"status", "off"} /\ daemon'.event = daemon.event
  BY <1>1, <1>4 DEF DaemonStates
<1>6. /\ ran' \in Seq(Nat) /\ Delivery!Ascending(ran')
      /\ Delivery!Of(ran') \subseteq Delivery!Of(ran) \cup {daemon.event}
  BY <1>1, <1>4, Appends DEF DaemonInv, HooksAfterJournal
<1>7. DaemonTypeOK'
  BY <1>1, <1>2, <1>4, <1>5, <1>6 DEF DaemonInv, DaemonTypeOK, DaemonStates, SocketInv
<1>8. HandlingInv'
  BY <1>1, <1>2, <1>4, <1>5, <1>6 DEF DaemonInv, HandlingInv
<1>9. InboxInOrder' /\ InboxComplete'
  BY <1>1, <1>2, <1>5 DEF DaemonInv, InboxInOrder, InboxComplete
<1>10. HooksAfterJournal'
  BY <1>1, <1>2, <1>4, <1>6 DEF DaemonInv, HooksAfterJournal
<1> QED BY <1>2, <1>3, <1>7, <1>8, <1>9, <1>10 DEF DaemonInv

\* next_event returns: the event the daemon takes is younger than all it has had.
LEMMA ReturnsStep == ASSUME DaemonInv, DaemonReturns PROVE DaemonInv'
<1> USE DaemonAssumption
<1> DEFINE event == call[Daemon].reply.event
<1>1. /\ Receive(Daemon) /\ call[Daemon].at = "answered"
      /\ inbox' = inbox /\ ran' = ran /\ missed' = missed /\ status' = status
  BY DEF DaemonReturns, Receive
<1>2. SocketInv /\ OkInv /\ call \in [Clients -> CallStates] /\ got \in [Clients -> Seq(Nat)]
      /\ server \in ServerStates
  BY DEF DaemonInv, SocketInv, TypeOK, CallStates, ServerStates
<1>3. SocketInv' /\ Refines
  BY <1>1, <1>2, ReceiveStep
<1>4. Proofs!Inv'
  BY <1>3, SameSteps, Proofs!InvNext DEF DaemonInv
<1>5. raised' = raised /\ server' = server /\ call'[Daemon] = [at |-> "idle", reply |-> NoReply]
  BY <1>1, <1>2 DEF Receive
<1>6. Keeps /\ DaemonStates' = DaemonStates
  BY <1>2, <1>5, Kept DEF SocketInv, DaemonStates
<1>7. OkInv'
  BY <1>2, <1>5, ValueTypes DEF OkInv
<1>8. daemon.at = "loop" /\ daemon \in DaemonStates /\ Len(raised) \in Nat
      /\ status \in [running : BOOLEAN, last : Nat] /\ missed \subseteq Nat
  BY <1>1, <1>6 DEF DaemonInv, HandlingInv, DaemonTypeOK, DaemonStates, Keeps
<1>9. CASE event = 0
  <2>1. got' = got
    BY <1>1, <1>9 DEF Receive
  <2>2. daemon' = [daemon EXCEPT !.at = "error"] \/ daemon' = daemon
    BY <1>9 DEF DaemonReturns, DaemonGoes
  <2>3. daemon' \in DaemonStates /\ daemon'.at \in {"error", "loop"}
    BY <2>2, <1>8 DEF DaemonStates
  <2>4. call'[Daemon].at = "idle" /\ daemon.at # "journal"
    BY <1>5, <1>8
  <2> QED BY <2>1, <2>3, <2>4, <1>1, <1>3, <1>6, <1>7, <1>8, Settles
<1>10. CASE event # 0
  <2>1. Underway(Daemon) = event
    BY <1>1, <1>2 DEF Underway, SocketInv
  <2>2. /\ event \in 0 .. Len(raised)
        /\ \A e \in Delivery!Of(got[Daemon]) : e < event
    BY <2>1, <1>2, <1>10, Received DEF DaemonInv
  <2>3. event \in Nat /\ got[Daemon] \in Seq(Nat)
    BY <2>2, <1>2, <1>8
  <2>4. got'[Daemon] = Append(got[Daemon], event)
    BY <1>1, <1>2, <1>10 DEF Receive
  <2>5. Delivery!Of(got'[Daemon]) = Delivery!Of(got[Daemon]) \cup {event}
    BY <2>3, <2>4, Appends
  <2>6. daemon' = [daemon EXCEPT !.at = "journal", !.event = event]
    BY <1>2, <1>10 DEF DaemonReturns, OkInv
  <2>7. daemon' \in DaemonStates /\ daemon'.at = "journal" /\ daemon'.event = event
    BY <2>2, <2>6, <1>8 DEF DaemonStates
  <2> HIDE DEF event
  <2>8. DaemonTypeOK'
    BY <2>7, <1>1, <1>3, <1>6, <1>8, <1>10 DEF DaemonInv, DaemonTypeOK, DaemonStates, SocketInv
  <2>9. Delivery!Of(inbox) \subseteq Delivery!Of(got[Daemon])
        /\ Delivery!Of(ran) \subseteq Delivery!Of(got[Daemon])
    BY DEF DaemonInv, InboxInOrder, HandlingInv
  <2>10. HandlingInv'
    BY <2>2, <2>5, <2>7, <2>9, <1>1, <1>5 DEF HandlingInv
  <2>11. InboxInOrder' /\ InboxComplete'
    BY <2>5, <2>7, <1>1, <1>5, <1>8 DEF DaemonInv, InboxInOrder, InboxComplete
  <2>12. HooksAfterJournal'
    BY <1>1, <1>5 DEF DaemonInv, HooksAfterJournal
  <2> QED BY <2>8, <2>10, <2>11, <2>12, <1>3, <1>4, <1>7 DEF DaemonInv
<1> QED BY <1>9, <1>10

\* A step of another process, of the server or of the plugin.
LEMMA NotOursStep ==
    ASSUME DaemonInv, (StepOfOthers /\ UNCHANGED daemonVars) \/ UNCHANGED allVars
    PROVE  DaemonInv'
<1> USE DaemonAssumption
<1>1. UNCHANGED daemonVars
  BY DEF allVars
<1>2. /\ SocketInv' /\ Refines /\ OkInv' /\ Keeps
      /\ got'[Daemon] = got[Daemon]
      /\ call'[Daemon].at # "idle" => call[Daemon].at # "idle"
  <2>1. CASE StepOfOthers
    BY <2>1, OthersStep DEF DaemonInv
  <2>2. CASE UNCHANGED allVars
    BY <2>2, OwnStep DEF allVars
  <2> QED BY <2>1, <2>2
<1>3. /\ daemon' = daemon /\ inbox' = inbox /\ ran' = ran /\ missed' = missed /\ status' = status
  BY <1>1 DEF daemonVars
<1>4. daemon' \in DaemonStates'
  BY <1>2, <1>3 DEF DaemonInv, DaemonTypeOK, DaemonStates, Keeps
<1>5. status' \in [running : BOOLEAN, last : Nat] /\ missed' \subseteq Nat
  BY <1>3 DEF DaemonInv, DaemonTypeOK
<1>6. call'[Daemon].at # "idle" => daemon'.at = "loop"
  BY <1>2, <1>3 DEF DaemonInv, HandlingInv
<1>7. /\ missed \subseteq missed'
      /\ daemon'.at \in {"journal", "hooks", "status"} =>
           daemon'.event = daemon.event /\ (daemon'.at = daemon.at \/ (daemon.at = "hooks" /\ daemon'.at = "status"))
      /\ daemon.at = "journal" => daemon'.at = "journal" \/ daemon.event \in missed'
                                  \/ raised[daemon.event] # "message"
  BY <1>3
<1> HIDE DaemonAssumption
<1> QED BY <1>2, <1>3, <1>4, <1>5, <1>6, <1>7, Settles

\* Each step of the daemon, and of everything around it, keeps the invariant.
LEMMA DaemonStep == DaemonInv /\ [DaemonNext]_allVars => DaemonInv'
<1> SUFFICES ASSUME DaemonInv, [DaemonNext]_allVars PROVE DaemonInv'
  OBVIOUS
<1>1. CASE DaemonStarts \/ DaemonStopRequested \/ JournalFails \/ HooksUnread
              \/ DaemonWritesStatus \/ StatusFails \/ DaemonExits
  BY <1>1, MovesStep
<1>2. CASE DaemonAsks \/ DaemonGivesUp \/ DaemonKilled
  BY <1>2, ExchangeStep
<1>3. CASE DaemonReturns
  BY <1>3, ReturnsStep
<1>4. CASE DaemonJournals
  BY <1>4, JournalStep
<1>5. CASE DaemonRunsHooks \/ HookBreaksPipe
  BY <1>5, HooksStep
<1>6. CASE (StepOfOthers /\ UNCHANGED daemonVars) \/ UNCHANGED allVars
  BY <1>6, NotOursStep
<1> QED BY <1>1, <1>2, <1>3, <1>4, <1>5, <1>6 DEF DaemonNext, StepOfDaemon, DaemonRuns

\* The invariant holds in every state the daemon and its socket can reach, over any
\* number of restarts, processes, events and waiting connections.
THEOREM DaemonInvariant == DaemonSpec => []DaemonInv
BY DaemonInvInit, DaemonStep, PTL DEF DaemonSpec

\* The variables of run_event_daemon stay in their types; in particular it handles
\* an event only when it has one.
THEOREM DaemonTypeCorrect == DaemonSpec => []DaemonTypeOK
<1>1. DaemonInv => DaemonTypeOK
  BY DEF DaemonInv
<1> QED BY <1>1, DaemonInvariant, PTL

\* The journal holds messages the daemon received, once each and in order, over
\* crashes and restarts of the daemon.
THEOREM InboxOrderCorrect == DaemonSpec => []InboxInOrder
<1>1. DaemonInv => InboxInOrder
  BY DEF DaemonInv
<1> QED BY <1>1, DaemonInvariant, PTL

\* No message the daemon received is passed over: it is journaled, at hand, or was
\* lost with a daemon that ended before it could write it.
THEOREM InboxCompleteCorrect == DaemonSpec => []InboxComplete
<1>1. DaemonInv => InboxComplete
  BY DEF DaemonInv
<1> QED BY <1>1, DaemonInvariant, PTL

\* Hooks run in the order of their events, at most once each, and find a message
\* they are run for in the journal.
THEOREM HooksCorrect == DaemonSpec => []HooksAfterJournal
<1>1. DaemonInv => HooksAfterJournal
  BY DEF DaemonInv
<1> QED BY <1>1, DaemonInvariant, PTL

\* Each step of the daemon is one of EventDelivery, or invisible to it: all the
\* daemon does to the socket is to ask, to give up, to vanish and to receive.
LEMMA DaemonStepRefines == DaemonInv /\ [DaemonNext]_allVars => Refines
<1> SUFFICES ASSUME DaemonInv, [DaemonNext]_allVars PROVE Refines
  OBVIOUS
<1> USE DaemonAssumption
<1>1. SocketInv
  BY DEF DaemonInv
<1>2. CASE UNCHANGED vars
  BY <1>2, OwnStep
<1>3. CASE DaemonReturns
  BY <1>1, <1>3, ReceiveStep DEF DaemonReturns
<1>4. CASE DaemonAsks \/ DaemonGivesUp \/ DaemonKilled
  <2>1. \/ UNCHANGED vars
        \/ Ask(Daemon, "next_event") \/ GiveUp(Daemon) \/ Vanish(Daemon)
    BY <1>4 DEF DaemonAsks, DaemonGivesUp, DaemonKilled
  <2> QED BY <1>1, <1>2, <2>1, AskStep, GoneStep
<1>5. CASE StepOfOthers /\ UNCHANGED daemonVars
  BY <1>5, OthersStep DEF DaemonInv
<1>6. CASE \/ DaemonStarts \/ DaemonStopRequested \/ DaemonJournals \/ DaemonRunsHooks
           \/ DaemonWritesStatus \/ DaemonExits \/ JournalFails \/ HooksUnread
           \/ HookBreaksPipe \/ StatusFails \/ UNCHANGED allVars
  <2>1. UNCHANGED vars
    BY <1>6 DEF DaemonStarts, DaemonStopRequested, DaemonJournals, DaemonRunsHooks,
       DaemonWritesStatus, DaemonExits, JournalFails, HooksUnread, HookBreaksPipe, StatusFails,
       allVars
  <2> QED BY <1>2, <2>1
<1> QED BY <1>3, <1>4, <1>5, <1>6 DEF DaemonNext, StepOfDaemon, DaemonRuns

\* The daemon and the processes around it deliver events as EventDelivery promises:
\* what run_event_daemon takes is taken from nobody else, and what a killed daemon
\* had on its way is lost and never delivered to another.
THEOREM DaemonDeliversOnce == DaemonSpec => ImplementsDelivery
<1>1. DaemonInit => Delivery!Init
  <2> SUFFICES ASSUME DaemonInit PROVE Delivery!Init
    OBVIOUS
  <2>1. Init /\ \A c \in Clients : Underway(c) = 0
    BY SocketInit, NothingUnderway DEF DaemonInit, Init
  <2>2. [c \in Clients |-> Underway(c)] = [c \in Clients |-> 0]
    BY <2>1
  <2> QED BY <2>1, <2>2 DEF Init, Delivery!Init
<1>2. DaemonInv /\ [DaemonNext]_allVars => [Delivery!Next]_(Delivery!vars)
  BY DaemonStepRefines DEF Refines
<1> QED BY <1>1, <1>2, DaemonInvariant, PTL DEF DaemonSpec, ImplementsDelivery, Delivery!Spec

================================================================================
