------------------------- MODULE EventDelivery_proofs -------------------------
EXTENDS EventDelivery, SequenceTheorems, TLAPS

\* The events a process has received or is about to.
Held(c) == Of(got[c]) \cup {e \in {underway[c]} : e # 0}

\* What keeps InOrder and AtMostOnce so: whatever a process holds is older than
\* everything in the queue, and younger is only what is on its way.
Inv ==
    /\ TypeOK
    /\ Ascending(queue)
    /\ \A e \in Of(queue) : 1 <= e /\ e <= raised
    /\ \A c \in Clients : Ascending(got[c])
    /\ \A c \in Clients : \A e \in Held(c) : 1 <= e /\ e <= raised
    /\ \A c \in Clients : \A e \in Held(c), f \in Of(queue) : e < f
    /\ \A c \in Clients : underway[c] # 0 => \A e \in Of(got[c]) : e < underway[c]
    /\ \A c, d \in Clients : c # d => Held(c) \cap Held(d) = {}

\* The empty sequence holds nothing.
LEMMA EmptyHolds == Ascending(<<>>) /\ Of(<<>>) = {} /\ <<>> \in Seq(Nat)
BY DEF Ascending, Of

\* Appending what is greater than all the rest keeps a sequence ascending.
LEMMA AppendAscends ==
    ASSUME NEW s \in Seq(Nat), NEW e \in Nat
    PROVE  /\ Append(s, e) \in Seq(Nat)
           /\ Of(Append(s, e)) = Of(s) \cup {e}
           /\ Ascending(s) /\ (\A x \in Of(s) : x < e) => Ascending(Append(s, e))
<1>1. /\ Append(s, e) \in Seq(Nat)
      /\ Len(Append(s, e)) = Len(s) + 1
      /\ \A i \in 1 .. Len(s) : Append(s, e)[i] = s[i]
      /\ Append(s, e)[Len(s) + 1] = e
  BY AppendProperties
<1>2. Len(s) \in Nat /\ DOMAIN s = 1 .. Len(s) /\ DOMAIN Append(s, e) = 1 .. Len(s) + 1
  BY <1>1, LenProperties
<1>3. Of(Append(s, e)) = Of(s) \cup {e}
  <2>1. ASSUME NEW x \in Of(Append(s, e)) PROVE x \in Of(s) \cup {e}
    BY <1>1, <1>2 DEF Of
  <2>2. ASSUME NEW x \in Of(s) \cup {e} PROVE x \in Of(Append(s, e))
    <3>1. CASE x = e
      BY <3>1, <1>1, <1>2 DEF Of
    <3>2. CASE x \in Of(s)
      BY <3>2, <1>1, <1>2 DEF Of
    <3> QED BY <3>1, <3>2
  <2> QED BY <2>1, <2>2
<1>4. ASSUME Ascending(s), \A x \in Of(s) : x < e PROVE Ascending(Append(s, e))
  <2> SUFFICES ASSUME NEW i \in 1 .. Len(s) + 1, NEW j \in 1 .. Len(s) + 1, i < j
               PROVE  Append(s, e)[i] < Append(s, e)[j]
    BY <1>2 DEF Ascending
  <2>1. CASE j = Len(s) + 1
    BY <2>1, <1>1, <1>2, <1>4 DEF Of
  <2>2. CASE j # Len(s) + 1
    BY <2>2, <1>1, <1>2, <1>4 DEF Ascending
  <2> QED BY <2>1, <2>2
<1> QED BY <1>1, <1>3, <1>4

\* The tail of an ascending sequence ascends, and its head is below all of it.
LEMMA TailAscends ==
    ASSUME NEW s \in Seq(Nat), s # <<>>, Ascending(s)
    PROVE  /\ Tail(s) \in Seq(Nat) /\ Head(s) \in Nat
           /\ Ascending(Tail(s))
           /\ Head(s) \in Of(s) /\ Of(Tail(s)) \subseteq Of(s)
           /\ \A x \in Of(Tail(s)) : Head(s) < x
<1>1. /\ Len(s) \in Nat /\ Len(s) # 0 /\ DOMAIN s = 1 .. Len(s)
      /\ \A i \in 1 .. Len(s) : s[i] \in Nat
  BY LenProperties, ElementOfSeq, EmptySeq
<1>2. /\ Head(s) = s[1] /\ Tail(s) \in Seq(Nat) /\ Len(Tail(s)) = Len(s) - 1
      /\ \A i \in 1 .. Len(Tail(s)) : Tail(s)[i] = s[i + 1]
  BY HeadTailProperties
<1>3. DOMAIN Tail(s) = 1 .. Len(s) - 1
  BY <1>2, LenProperties
<1>4. Ascending(Tail(s))
  BY <1>1, <1>2, <1>3 DEF Ascending
<1>5. Head(s) \in Of(s) /\ Head(s) \in Nat
  BY <1>1, <1>2 DEF Of
<1>6. \A x \in Of(Tail(s)) : x \in Of(s) /\ Head(s) < x
  <2> SUFFICES ASSUME NEW i \in 1 .. Len(s) - 1 PROVE Tail(s)[i] \in Of(s) /\ Head(s) < Tail(s)[i]
    BY <1>3 DEF Of
  <2>1. Tail(s)[i] = s[i + 1] /\ i + 1 \in DOMAIN s /\ 1 \in DOMAIN s /\ 1 < i + 1
    BY <1>1, <1>2
  <2>2. s[1] < s[i + 1]
    BY <2>1 DEF Ascending
  <2>3. s[i + 1] \in Of(s)
    BY <2>1 DEF Of
  <2> QED BY <2>1, <2>2, <2>3, <1>2
<1> QED BY <1>2, <1>4, <1>5, <1>6

\* What a process holds are numbers.
LEMMA HeldNat == TypeOK => \A c \in Clients : \A e \in Held(c) : e \in Nat
BY DEF TypeOK, Held, Of

\* Nothing is held before anything was raised.
LEMMA InvInit == Init => Inv
<1> SUFFICES ASSUME Init PROVE Inv
  OBVIOUS
<1>1. TypeOK
  BY EmptyHolds DEF Init, TypeOK
<1>2. \A c \in Clients : Held(c) = {} /\ Of(got[c]) = {} /\ Ascending(got[c])
  BY EmptyHolds DEF Init, Held
<1>3. Of(queue) = {} /\ Ascending(queue)
  BY EmptyHolds DEF Init
<1> QED BY <1>1, <1>2, <1>3 DEF Inv

\* An event raised is the youngest, and waits at the end of the queue.
LEMMA InvRaise == Inv /\ Raise => Inv'
<1> SUFFICES ASSUME Inv, Raise PROVE Inv'
  OBVIOUS
<1>1. /\ raised \in Nat /\ raised' = raised + 1 /\ queue \in Seq(Nat)
      /\ queue' = Append(queue, raised + 1) /\ underway' = underway /\ got' = got
  BY DEF Inv, TypeOK, Raise
<1>2. /\ queue' \in Seq(Nat) /\ Of(queue') = Of(queue) \cup {raised + 1}
      /\ Ascending(queue')
  <2>1. \A x \in Of(queue) : x < raised + 1
    <3>1. \A x \in Of(queue) : x \in Nat
      BY <1>1 DEF Of
    <3> QED BY <3>1, <1>1 DEF Inv
  <2> QED BY <2>1, <1>1, AppendAscends DEF Inv
<1>3. \A c \in Clients : Held(c)' = Held(c)
  BY <1>1 DEF Held
<1>4. \A c \in Clients : \A e \in Held(c) : e \in Nat /\ e < raised + 1
  BY <1>1, HeldNat DEF Inv, TypeOK
<1>5. \A e \in Of(queue) : e \in Nat
  BY <1>1 DEF Of
<1>6. TypeOK'
  BY <1>1, <1>2 DEF Inv, TypeOK
<1> QED BY <1>1, <1>2, <1>3, <1>4, <1>5, <1>6 DEF Inv

\* What is taken from the queue is older than the rest of it.
LEMMA InvTake == \A c \in Clients : Inv /\ Take(c) => Inv'
<1> SUFFICES ASSUME NEW c \in Clients, Inv, Take(c) PROVE Inv'
  OBVIOUS
<1>1. /\ queue \in Seq(Nat) /\ queue # <<>> /\ queue' = Tail(queue)
      /\ underway \in [Clients -> Nat] /\ underway[c] = 0 /\ raised' = raised /\ got' = got
      /\ underway' = [underway EXCEPT ![c] = Head(queue)]
  BY DEF Inv, TypeOK, Take
<1>2. /\ Tail(queue) \in Seq(Nat) /\ Head(queue) \in Nat /\ Ascending(Tail(queue))
      /\ Head(queue) \in Of(queue) /\ Of(Tail(queue)) \subseteq Of(queue)
      /\ \A x \in Of(Tail(queue)) : Head(queue) < x
  BY <1>1, TailAscends DEF Inv
<1>3. TypeOK'
  BY <1>1, <1>2 DEF Inv, TypeOK
<1>4. underway'[c] = Head(queue) /\ Head(queue) # 0
  BY <1>1, <1>2 DEF Inv
<1>5. Held(c)' = Held(c) \cup {Head(queue)}
  BY <1>1, <1>4 DEF Held
<1>6. \A d \in Clients : d # c => Held(d)' = Held(d) /\ underway'[d] = underway[d]
  BY <1>1 DEF Held
<1>7. \A d \in Clients : \A e \in Held(d) : e # Head(queue)
  BY <1>2, HeldNat DEF Inv
<1>8. \A d, e \in Clients : d # e => Held(d)' \cap Held(e)' = {}
  BY <1>5, <1>6, <1>7 DEF Inv
<1>9. \A d \in Clients : \A e \in Held(d)', f \in Of(queue)' : e < f
  BY <1>1, <1>2, <1>5, <1>6 DEF Inv
<1>10. \A d \in Clients : underway'[d] # 0 => \A e \in Of(got'[d]) : e < underway'[d]
  <2>1. \A e \in Of(got[c]) : e \in Held(c)
    BY DEF Held
  <2> QED BY <2>1, <1>1, <1>2, <1>4, <1>6 DEF Inv
<1>11. \A d \in Clients : \A e \in Held(d)' : 1 <= e /\ e <= raised'
  BY <1>1, <1>2, <1>5, <1>6 DEF Inv
<1>12. (Ascending(queue) /\ \A e \in Of(queue) : 1 <= e /\ e <= raised)'
  BY <1>1, <1>2 DEF Inv
<1> QED BY <1>1, <1>3, <1>8, <1>9, <1>10, <1>11, <1>12 DEF Inv

\* Taking events for nobody leaves the rest of the queue as it was.
LEMMA InvDrop == Inv /\ (Discard \/ Forget) => Inv'
<1> SUFFICES ASSUME Inv, Discard \/ Forget PROVE Inv'
  OBVIOUS
<1>1. /\ queue \in Seq(Nat) /\ raised' = raised /\ got' = got /\ underway' = underway
  BY DEF Inv, TypeOK, Discard, Forget
<1>2. queue' \in Seq(Nat) /\ Of(queue') \subseteq Of(queue) /\ Ascending(queue')
  <2>1. CASE Discard
    BY <2>1, <1>1, TailAscends DEF Discard, Inv
  <2>2. CASE Forget
    BY <2>2, EmptyHolds DEF Forget
  <2> QED BY <2>1, <2>2
<1>3. \A c \in Clients : Held(c)' = Held(c)
  BY <1>1 DEF Held
<1>4. TypeOK'
  BY <1>1, <1>2 DEF Inv, TypeOK
<1> QED BY <1>1, <1>2, <1>3, <1>4 DEF Inv

\* What reaches a process is younger than everything it has received.
LEMMA InvDeliver == \A c \in Clients : Inv /\ Deliver(c) => Inv'
<1> SUFFICES ASSUME NEW c \in Clients, Inv, Deliver(c) PROVE Inv'
  OBVIOUS
<1>1. /\ underway \in [Clients -> Nat] /\ got \in [Clients -> Seq(Nat)] /\ underway[c] # 0
      /\ raised' = raised /\ queue' = queue
      /\ got' = [got EXCEPT ![c] = Append(got[c], underway[c])]
      /\ underway' = [underway EXCEPT ![c] = 0]
  BY DEF Inv, TypeOK, Deliver
<1>2. /\ got'[c] \in Seq(Nat) /\ Of(got'[c]) = Of(got[c]) \cup {underway[c]}
      /\ Ascending(got'[c])
  <2>1. got'[c] = Append(got[c], underway[c]) /\ got[c] \in Seq(Nat) /\ underway[c] \in Nat
    BY <1>1
  <2> QED BY <2>1, <1>1, AppendAscends DEF Inv
<1>3. underway'[c] = 0 /\ \A d \in Clients : d # c => got'[d] = got[d] /\ underway'[d] = underway[d]
  BY <1>1
<1>4. \A d \in Clients : Held(d)' = Held(d)
  BY <1>1, <1>2, <1>3 DEF Held
<1>5. TypeOK'
  BY <1>1, <1>2 DEF Inv, TypeOK
<1>6. \A d \in Clients : Ascending(got'[d])
  BY <1>2, <1>3 DEF Inv
<1>7. \A d \in Clients : underway'[d] # 0 => \A e \in Of(got'[d]) : e < underway'[d]
  BY <1>3 DEF Inv
<1> QED BY <1>1, <1>4, <1>5, <1>6, <1>7 DEF Inv

\* A process that loses what is on its way keeps what it received.
LEMMA InvLose == \A c \in Clients : Inv /\ Lose(c) => Inv'
<1> SUFFICES ASSUME NEW c \in Clients, Inv, Lose(c) PROVE Inv'
  OBVIOUS
<1>1. /\ underway \in [Clients -> Nat] /\ raised' = raised /\ queue' = queue /\ got' = got
      /\ underway' = [underway EXCEPT ![c] = 0]
  BY DEF Inv, TypeOK, Lose
<1>2. underway'[c] = 0 /\ \A d \in Clients : d # c => underway'[d] = underway[d]
  BY <1>1
<1>3. \A d \in Clients : Held(d)' \subseteq Held(d)
  BY <1>1, <1>2 DEF Held
<1>4. TypeOK'
  BY <1>1 DEF Inv, TypeOK
<1> QED BY <1>1, <1>2, <1>3, <1>4 DEF Inv

\* Every step keeps Inv.
LEMMA InvNext == Inv /\ [Next]_vars => Inv'
<1> SUFFICES ASSUME Inv, [Next]_vars PROVE Inv'
  OBVIOUS
<1>1. CASE Raise
  BY <1>1, InvRaise
<1>2. CASE Discard \/ Forget
  BY <1>2, InvDrop
<1>3. ASSUME NEW c \in Clients, Take(c) \/ Deliver(c) \/ Lose(c) PROVE Inv'
  BY <1>3, InvTake, InvDeliver, InvLose
<1>4. CASE UNCHANGED vars
  BY <1>4 DEF vars, Inv, TypeOK, Held
<1> QED BY <1>1, <1>2, <1>3, <1>4 DEF Next

\* The inductive invariant of the event path.
THEOREM DeliveryInvariant == Spec => []Inv
BY InvInit, InvNext, PTL DEF Spec

\* A process receives events in the order they were raised and never one twice,
\* for any set of processes and any number of events.
THEOREM OrderCorrect == Spec => []InOrder
<1>1. Inv => InOrder
  BY DEF Inv, InOrder
<1> QED BY <1>1, DeliveryInvariant, PTL

\* No event reaches two processes.
THEOREM OnceCorrect == Spec => []AtMostOnce
<1>1. Inv => AtMostOnce
  BY DEF Inv, AtMostOnce, Held
<1> QED BY <1>1, DeliveryInvariant, PTL

================================================================================
