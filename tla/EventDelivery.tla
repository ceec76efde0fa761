----------------------------- MODULE EventDelivery -----------------------------
(* What the event path between TeamSpeak and the ts processes promises.  The   *)
(* plugin numbers nothing; the numbers here are the positions of the events in *)
(* the order TeamSpeak raised them.  Every event is waiting in the queue, on   *)
(* its way to one process, received by one process, or lost; a process         *)
(* receives events in the order they were raised and never one twice.          *)
EXTENDS Naturals, Sequences

CONSTANTS
    Clients       \* the ts processes that ask the plugin for events

VARIABLES
    raised,       \* number of events raised so far
    queue,        \* the events nobody has been given yet, oldest first
    underway,     \* the event on its way to each process, 0 for none
    got           \* history: the events each process received, oldest first

vars == <<raised, queue, underway, got>>

TypeOK ==
    /\ raised \in Nat
    /\ queue \in Seq(Nat)
    /\ underway \in [Clients -> Nat]
    /\ got \in [Clients -> Seq(Nat)]

Init ==
    /\ raised = 0
    /\ queue = <<>>
    /\ underway = [c \in Clients |-> 0]
    /\ got = [c \in Clients |-> <<>>]

Raise ==
    /\ raised' = raised + 1
    /\ queue' = Append(queue, raised + 1)
    /\ UNCHANGED <<underway, got>>

\* The oldest event is taken for the process whose turn it is ...
Take(c) ==
    /\ queue # <<>>
    /\ underway[c] = 0
    /\ underway' = [underway EXCEPT ![c] = Head(queue)]
    /\ queue' = Tail(queue)
    /\ UNCHANGED <<raised, got>>

\* ... or for a process that has stopped waiting for its answer.
Discard ==
    /\ queue # <<>>
    /\ queue' = Tail(queue)
    /\ UNCHANGED <<raised, underway, got>>

Deliver(c) ==
    /\ underway[c] # 0
    /\ got' = [got EXCEPT ![c] = Append(@, underway[c])]
    /\ underway' = [underway EXCEPT ![c] = 0]
    /\ UNCHANGED <<raised, queue>>

\* A process that goes away loses what is on its way to it.
Lose(c) ==
    /\ underway[c] # 0
    /\ underway' = [underway EXCEPT ![c] = 0]
    /\ UNCHANGED <<raised, queue, got>>

\* The plugin is unloaded and takes its queue with it.
Forget ==
    /\ queue' = <<>>
    /\ UNCHANGED <<raised, underway, got>>

Next ==
    \/ Raise
    \/ Discard
    \/ Forget
    \/ \E c \in Clients : Take(c) \/ Deliver(c) \/ Lose(c)

Spec == Init /\ [][Next]_vars

--------------------------------------------------------------------------------
Ascending(s) == \A i, j \in DOMAIN s : i < j => s[i] < s[j]

Of(s) == {s[i] : i \in DOMAIN s}

\* A process receives events in the order TeamSpeak raised them, and never one
\* twice (EventQueue is first in, first out, and each answer carries one event).
InOrder == \A c \in Clients : Ascending(got[c])

\* No event reaches two processes.
AtMostOnce ==
    \A c, d \in Clients : c # d => Of(got[c]) \cap Of(got[d]) = {}

================================================================================
