---------------------------- MODULE Processes_proofs ----------------------------
(* Proofs about the ts processes of one user: the daemon commands and the       *)
(* daemons they start, the client commands and the client, and the commands     *)
(* that edit config.ini or the hook list.  They share no process and no file.   *)
(* Before the processes are put together, what a command and the plugin say to  *)
(* each other over the control socket is proved to arrive as it was meant.      *)
EXTENDS MCProcesses, BridgeProtocol, SequenceTheorems, FiniteSetTheorems, TLAPS

--------------------------------------------------------------------------------
(* The daemon commands                                                         *)

\* While no two commands overlapped there is one daemon at most, and the pid file
\* leads to it but for the moments in which it, or its parent, writes the file.
OneInv ==
    /\ \A p, q \in Daemons : p = q
    /\ \A c, d \in Commands : command[c].at # "idle" /\ command[d].at # "idle" => c = d
    /\ \A p \in Daemons :
          \/ process[p].at \in {"pid", "write"}
          \/ pidFile = p
          \/ \E c \in Commands : command[c].at = "write" /\ command[c].pid = p

\* What a command knows of the daemons at each of its steps.
KnowsInv ==
    \A c \in Commands :
       /\ command[c].at \in {"probe", "signal", "wait"} => \A p \in Daemons :
             p = command[c].pid /\ process[p].at \notin {"pid", "write"}
       /\ command[c].at \in {"record", "write"} => \A p \in Daemons : p = command[c].pid
       /\ command[c].at \in {"unlink", "fork", "forget", "report"} => Daemons = {}
       /\ command[c].at = "report" => pidFile = "none"

\* What the last command said was so, and after a stop still is.
ToldInv ==
    /\ told.said \in {"stopped", "absent", "not running"} => ~told.daemon
    /\ told.said = "stopped" /\ (\A c \in Commands : command[c].at = "idle") =>
          pidFile = "none" /\ ~statusSays /\ Daemons = {}

DaemonProcessInv ==
    /\ DaemonProcessTypeOK
    /\ ~disturbed => OneInv /\ KnowsInv /\ ToldInv

--------------------------------------------------------------------------------
(* The process table                                                           *)

ProcessStates ==
    [is : {"free", "daemon", "zombie", "stranger"},
     at : {"off", "pid", "write", "begin", "run", "end", "guard"},
     stop : BOOLEAN, guard : BOOLEAN, parent : Commands \cup {Nobody}]

\* A process table of the type the invariant asks for.
Table(ps) ==
    /\ ps \in [Pids -> ProcessStates]
    /\ \A p \in Pids : ps[p].is = "daemon" <=> ps[p].at # "off"

\* Nothing became a daemon, and no daemon moved.
NoneNew(ps, qs) ==
    \A p \in Pids : qs[p].is = "daemon" => ps[p].is = "daemon" /\ qs[p].at = ps[p].at

\* A process that is gone is no daemon.
LEMMA DeadIsNoDaemon ==
    ASSUME NEW p \in Pids, Table(process)
    PROVE  Dead(p) \in ProcessStates /\ Dead(p).is # "daemon" /\ Dead(p).at = "off"
<1>1. process[p].parent \in Commands \cup {Nobody}
  BY DEF Table, ProcessStates
<1> QED
  BY <1>1 DEF Dead, FreePid, ProcessStates

\* A command that ends takes no daemon with it.
LEMMA OrphanedIsTable ==
    ASSUME NEW ps, Table(ps), NEW c \in Commands
    PROVE  Table(Orphaned(ps, c)) /\ NoneNew(ps, Orphaned(ps, c))
<1> DEFINE qs == Orphaned(ps, c)
<1>1. \A p \in Pids : /\ qs[p] \in ProcessStates
                      /\ qs[p].is = "daemon" <=> qs[p].at # "off"
                      /\ qs[p].is = "daemon" => ps[p].is = "daemon" /\ qs[p].at = ps[p].at
  <2> TAKE p \in Pids
  <2>1. ps[p] \in ProcessStates /\ (ps[p].is = "daemon" <=> ps[p].at # "off")
    BY DEF Table
  <2>2. CASE ps[p].parent # c
    <3>1. qs[p] = ps[p]
      BY <2>2 DEF Orphaned
    <3> QED
      BY <3>1, <2>1
  <2>3. CASE ps[p].parent = c /\ ps[p].is = "zombie"
    <3>1. qs[p] = FreePid
      BY <2>3 DEF Orphaned
    <3> QED
      BY <3>1 DEF FreePid, ProcessStates
  <2>4. CASE ps[p].parent = c /\ ps[p].is # "zombie"
    <3>1. qs[p] = [ps[p] EXCEPT !.parent = Nobody]
      BY <2>4 DEF Orphaned
    <3> QED
      BY <3>1, <2>1 DEF ProcessStates
  <2> QED
    BY <2>2, <2>3, <2>4
<1>2. qs \in [Pids -> ProcessStates]
  BY <1>1 DEF Orphaned
<1> QED
  BY <1>1, <1>2 DEF Table, NoneNew

\* A table in which one number stands for something else that is no new daemon.
LEMMA ReplacedIsTable ==
    ASSUME Table(process), NEW p \in Pids, NEW r \in ProcessStates,
           r.is = "daemon" <=> r.at # "off",
           r.is = "daemon" => process[p].is = "daemon" /\ r.at = process[p].at
    PROVE  /\ Table([process EXCEPT ![p] = r])
           /\ NoneNew(process, [process EXCEPT ![p] = r])
BY DEF Table, NoneNew

\* A signal ends a process or leaves it where it is.
LEMMA SignalledIsTable ==
    ASSUME Table(process), NEW p \in Pids
    PROVE  LET qs == [process EXCEPT ![p] = Signalled(p)]
           IN  Table(qs) /\ NoneNew(process, qs)
<1>1. process[p] \in ProcessStates /\ (process[p].is = "daemon" <=> process[p].at # "off")
  BY DEF Table
<1>2. /\ Signalled(p) \in ProcessStates
      /\ Signalled(p).is = "daemon" <=> Signalled(p).at # "off"
      /\ Signalled(p).is = "daemon" =>
            process[p].is = "daemon" /\ Signalled(p).at = process[p].at
  <2>1. CASE process[p].at \in {"begin", "run", "end"}
    <3>1. Signalled(p) = [process[p] EXCEPT !.stop = TRUE]
      BY <2>1 DEF Signalled
    <3> QED
      BY <3>1, <1>1 DEF ProcessStates
  <2>2. CASE /\ process[p].at \notin {"begin", "run", "end"}
             /\ process[p].is \in {"daemon", "stranger"}
    <3>1. Signalled(p) = Dead(p)
      BY <2>2 DEF Signalled
    <3> QED
      BY <3>1, DeadIsNoDaemon
  <2>3. CASE /\ process[p].at \notin {"begin", "run", "end"}
             /\ process[p].is \notin {"daemon", "stranger"}
    <3>1. Signalled(p) = process[p]
      BY <2>3 DEF Signalled
    <3> QED
      BY <3>1, <1>1
  <2> QED
    BY <2>1, <2>2, <2>3
<1> QED
  BY <1>2, ReplacedIsTable

--------------------------------------------------------------------------------
(* The commands                                                                *)

CommandStates ==
    [at : {"idle", "probe", "unlink", "fork", "record", "write", "signal", "wait",
           "forget", "report"},
     task : {"none", "start", "stop", "status"}, pid : Pids \cup {Nobody}]

\* The commands are of the type the invariant asks for.
Orders(cs) ==
    /\ cs \in [Commands -> CommandStates]
    /\ \A c \in Commands :
          /\ cs[c].at = "idle" <=> cs[c].task = "none"
          /\ cs[c].at \notin {"idle", "fork"} => cs[c].pid # Nobody

Sayings == {"nothing", "started", "already", "stopped", "absent", "timeout", "failed",
            "running", "not running"}

\* The last answer is one of them.
Told(t) == t \in [said : Sayings, daemon : BOOLEAN]

\* The type invariant, in the parts that a step changes.
LEMMA TypeParts ==
    DaemonProcessTypeOK <=>
       /\ pidFile \in Pids \cup {"none", "empty"}
       /\ statusSays \in BOOLEAN
       /\ Table(process)
       /\ Orders(command)
       /\ Told(told)
       /\ disturbed \in BOOLEAN
BY DEF DaemonProcessTypeOK, Table, ProcessStates, Orders, CommandStates, Told, Sayings

\* ... and the same of the state after a step.
LEMMA TypePartsNext ==
    ASSUME pidFile' \in Pids \cup {"none", "empty"}, statusSays' \in BOOLEAN, Table(process'),
           Orders(command'), Told(told'), disturbed' \in BOOLEAN
    PROVE  DaemonProcessTypeOK'
BY DEF DaemonProcessTypeOK, Table, ProcessStates, Orders, CommandStates, Told, Sayings

\* A command that ends with an answer.
LEMMA SaysFacts ==
    ASSUME Orders(command), NEW c \in Commands, NEW what \in Sayings, Says(c, what)
    PROVE  /\ Orders(command') /\ Told(told')
           /\ command'[c].at = "idle"
           /\ \A d \in Commands : d # c => command'[d] = command[d]
           /\ told'.said = what
           /\ told'.daemon <=> Daemons # {}
BY DEF Says, Orders, CommandStates, NoCommand, Told, Daemons

\* A command that goes on.
LEMMA GoesFacts ==
    ASSUME Orders(command), Told(told), NEW c \in Commands, command[c].at # "idle",
           NEW at \in {"unlink", "fork", "record", "write", "signal", "wait", "forget", "report"},
           at # "fork" => command[c].pid # Nobody,
           Goes(c, at)
    PROVE  /\ Orders(command') /\ Told(told')
           /\ command'[c].at = at /\ command'[c].pid = command[c].pid
           /\ \A d \in Commands : d # c => command'[d] = command[d]
           /\ told' = told
<1>1. command[c] \in CommandStates /\ command[c].task # "none"
  BY DEF Orders
<1> DEFINE r == [command[c] EXCEPT !.at = at]
<1>2. /\ r \in CommandStates
      /\ r.at = at /\ r.pid = command[c].pid /\ r.task = command[c].task
  BY <1>1 DEF CommandStates
<1>3. command' = [command EXCEPT ![c] = r]
  BY DEF Goes
<1>4. told' = told
  BY DEF Goes
<1> HIDE DEF r
<1> QED
  BY <1>1, <1>2, <1>3, <1>4 DEF Orders

--------------------------------------------------------------------------------
(* The steps of a command                                                      *)

\* No daemon appears where none is new.
LEMMA FewerDaemons ==
    ASSUME NoneNew(process, process')
    PROVE  /\ Daemons' \subseteq Daemons
           /\ \A p \in Daemons' : process'[p].at = process[p].at
BY DEF NoneNew, Daemons

\* The only command to run.
LEMMA RunsAlone ==
    ASSUME OneInv, NEW c \in Commands, command[c].at # "idle"
    PROVE  \A d \in Commands : d # c => command[d].at = "idle"
BY DEF OneInv

\* Where nothing runs but daemons whose number the file holds, or who are about to
\* write it, the invariant holds.
LEMMA QuietInv ==
    ASSUME \A d \in Commands : command'[d].at = "idle",
           \A p, q \in Daemons' : p = q,
           \A p \in Daemons' : process'[p].at \in {"pid", "write"} \/ pidFile' = p
    PROVE  OneInv' /\ KnowsInv'
BY DEF OneInv, KnowsInv

\* What one command knows, and the daemon, if there is one: the rest are idle.
LEMMA BusyInv ==
    ASSUME NEW c \in Commands,
           \A d \in Commands : d # c => command'[d].at = "idle",
           \A p, q \in Daemons' : p = q,
           \A p \in Daemons' :
              \/ process'[p].at \in {"pid", "write"}
              \/ pidFile' = p
              \/ command'[c].at = "write" /\ command'[c].pid = p,
           command'[c].at \in {"probe", "signal", "wait"} => \A p \in Daemons' :
              p = command'[c].pid /\ process'[p].at \notin {"pid", "write"},
           command'[c].at \in {"record", "write"} => \A p \in Daemons' : p = command'[c].pid,
           command'[c].at \in {"unlink", "fork", "forget", "report"} => Daemons' = {},
           command'[c].at = "report" => pidFile' = "none",
           command'[c].at # "idle",
           told' = told, ToldInv
    PROVE  OneInv' /\ KnowsInv' /\ ToldInv'
<1>1. OneInv'
  BY DEF OneInv
<1>2. KnowsInv'
  <2> SUFFICES ASSUME NEW d \in Commands, command'[d].at # "idle"
               PROVE  d = c
    BY DEF KnowsInv
  <2> QED
    OBVIOUS
<1>3. ToldInv'
  BY DEF ToldInv
<1> QED
  BY <1>1, <1>2, <1>3

\* Reading the pid file: it names the only daemon, for nothing is being written.
LEMMA BeginsInv ==
    ASSUME DaemonProcessInv, NEW c \in Commands, NEW task \in {"start", "stop", "status"},
           Begins(c, task)
    PROVE  DaemonProcessInv'
<1> USE DEF DaemonProcessInv
<1>1. /\ Table(process) /\ Orders(command) /\ Told(told)
      /\ pidFile \in Pids \cup {"none", "empty"} /\ statusSays \in BOOLEAN
      /\ disturbed \in BOOLEAN
  BY TypeParts
<1>2. /\ command[c].at = "idle"
      /\ disturbed' = (disturbed \/ Busy)
      /\ UNCHANGED <<pidFile, statusSays, process>>
  BY DEF Begins
<1>3. CASE pidFile \in Pids \/ task = "start"
  <2> DEFINE r == IF pidFile \in Pids THEN [at |-> "probe", task |-> task, pid |-> pidFile]
                  ELSE [at |-> "fork", task |-> task, pid |-> Nobody]
  <2>1. command' = [command EXCEPT ![c] = r] /\ told' = told
    BY <1>3 DEF Begins
  <2>2. /\ r \in CommandStates /\ r.task # "none" /\ r.at \in {"probe", "fork"}
        /\ r.at = "probe" => r.pid = pidFile /\ pidFile \in Pids
        /\ r.at = "fork" => pidFile \notin Pids
    BY <1>3, PidsAssumption DEF CommandStates
  <2> HIDE DEF r
  <2>3. Orders(command')
    <3>1. pidFile \in Pids => pidFile # Nobody
      BY PidsAssumption
    <3> QED
      BY <1>1, <2>1, <2>2, <3>1 DEF Orders
  <2>4. DaemonProcessTypeOK'
    BY <1>1, <1>2, <2>1, <2>3, TypePartsNext
  <2>5. ASSUME ~disturbed' PROVE OneInv' /\ KnowsInv' /\ ToldInv'
    <3>1. /\ OneInv /\ KnowsInv /\ ToldInv
          /\ \A d \in Commands : command[d].at = "idle"
          /\ \A p \in Pids : process[p].at \notin {"pid", "write"}
      BY <1>2, <2>5 DEF Busy
    <3>2. Daemons' = Daemons /\ pidFile' = pidFile /\ process' = process
      BY <1>2 DEF Daemons
    <3>3. \A p \in Daemons : p \in Pids /\ pidFile = p
      BY <3>1 DEF OneInv, Daemons
    <3>4. /\ command'[c] = r
          /\ \A d \in Commands : d # c => command'[d].at = "idle"
      BY <1>1, <2>1, <3>1 DEF Orders
    <3> QED
      BY <2>1, <2>2, <3>1, <3>2, <3>3, <3>4, BusyInv DEF Daemons
  <2> QED
    BY <2>4, <2>5
<1>4. CASE ~(pidFile \in Pids \/ task = "start")
  <2> DEFINE what == IF task = "stop" THEN "absent" ELSE "not running"
  <2>1. Says(c, what) /\ what \in Sayings /\ what # "stopped"
    BY <1>4 DEF Begins, Sayings
  <2> HIDE DEF what
  <2>2. /\ Orders(command') /\ Told(told') /\ command'[c].at = "idle"
        /\ \A d \in Commands : d # c => command'[d] = command[d]
        /\ told'.said = what /\ (told'.daemon <=> Daemons # {})
    BY <1>1, <2>1, SaysFacts
  <2>3. DaemonProcessTypeOK'
    BY <1>1, <1>2, <2>2, TypePartsNext
  <2>4. ASSUME ~disturbed' PROVE OneInv' /\ KnowsInv' /\ ToldInv'
    <3>1. /\ OneInv
          /\ \A d \in Commands : command[d].at = "idle"
          /\ \A p \in Pids : process[p].at \notin {"pid", "write"}
      BY <1>2, <2>4 DEF Busy
    <3>2. Daemons = {}
      BY <1>4, <3>1 DEF OneInv, Daemons
    <3>3. Daemons' = {}
      BY <1>2, <3>2 DEF Daemons
    <3>4. OneInv' /\ KnowsInv'
      BY <2>2, <3>1, <3>3, QuietInv
    <3>5. ToldInv'
      BY <2>1, <2>2, <3>2 DEF ToldInv
    <3> QED
      BY <3>4, <3>5
  <2> QED
    BY <2>3, <2>4
<1> QED
  BY <1>3, <1>4

\* A command that ends with an answer which is so.
LEMMA AnswersInv ==
    ASSUME DaemonProcessInv, NEW c \in Commands, command[c].at # "idle",
           NEW what \in Sayings, Says(c, what),
           pidFile' \in Pids \cup {"none", "empty"}, statusSays' \in BOOLEAN, Table(process'),
           disturbed' = disturbed,
           ~disturbed => /\ \A p, q \in Daemons' : p = q
                         /\ \A p \in Daemons' : process'[p].at \in {"pid", "write"} \/ pidFile' = p
                         /\ what \in {"stopped", "absent", "not running"} => Daemons = {}
                         /\ what = "stopped" => pidFile' = "none" /\ ~statusSays' /\ Daemons' = {}
    PROVE  DaemonProcessInv'
<1> USE DEF DaemonProcessInv
<1>1. Orders(command) /\ disturbed \in BOOLEAN
  BY TypeParts
<1>2. /\ Orders(command') /\ Told(told') /\ command'[c].at = "idle"
      /\ \A d \in Commands : d # c => command'[d] = command[d]
      /\ told'.said = what /\ (told'.daemon <=> Daemons # {})
  BY <1>1, SaysFacts
<1>3. DaemonProcessTypeOK'
  BY <1>1, <1>2, TypePartsNext
<1>4. ASSUME ~disturbed' PROVE OneInv' /\ KnowsInv' /\ ToldInv'
  <2>1. \A d \in Commands : command'[d].at = "idle"
    <3>1. OneInv
      BY <1>4
    <3>2. \A d \in Commands : d # c => command[d].at = "idle"
      BY <3>1, RunsAlone
    <3> QED
      BY <1>2, <3>2
  <2>2. OneInv' /\ KnowsInv'
    BY <1>4, <2>1, QuietInv
  <2>3. ToldInv'
    BY <1>2, <1>4 DEF ToldInv
  <2> QED
    BY <2>2, <2>3
<1> QED
  BY <1>3, <1>4

\* A command that goes on, knowing what it has to at the next step.
LEMMA GoesInv ==
    ASSUME DaemonProcessInv, NEW c \in Commands, command[c].at # "idle",
           NEW at \in {"unlink", "fork", "record", "write", "signal", "wait", "forget", "report"},
           at # "fork" => command[c].pid # Nobody,
           Goes(c, at),
           pidFile' \in Pids \cup {"none", "empty"}, statusSays' \in BOOLEAN, Table(process'),
           disturbed' = disturbed,
           ~disturbed =>
              /\ \A p, q \in Daemons' : p = q
              /\ \A p \in Daemons' : \/ process'[p].at \in {"pid", "write"}
                                     \/ pidFile' = p
                                     \/ at = "write" /\ command[c].pid = p
              /\ at \in {"signal", "wait"} => \A p \in Daemons' :
                    p = command[c].pid /\ process'[p].at \notin {"pid", "write"}
              /\ at \in {"record", "write"} => \A p \in Daemons' : p = command[c].pid
              /\ at \in {"unlink", "fork", "forget", "report"} => Daemons' = {}
              /\ at = "report" => pidFile' = "none"
    PROVE  DaemonProcessInv'
<1> USE DEF DaemonProcessInv
<1>1. Orders(command) /\ Told(told) /\ disturbed \in BOOLEAN
  BY TypeParts
<1>2. /\ Orders(command') /\ Told(told')
      /\ command'[c].at = at /\ command'[c].pid = command[c].pid
      /\ \A d \in Commands : d # c => command'[d] = command[d]
      /\ told' = told
  BY <1>1, GoesFacts
<1>3. DaemonProcessTypeOK'
  BY <1>1, <1>2, TypePartsNext
<1>4. ASSUME ~disturbed' PROVE OneInv' /\ KnowsInv' /\ ToldInv'
  <2>1. \A d \in Commands : d # c => command'[d].at = "idle"
    BY <1>2, <1>4, RunsAlone
  <2> QED
    BY <1>2, <1>4, <2>1, BusyInv
<1> QED
  BY <1>3, <1>4

\* What holds of the daemons while the process table and the pid file stay.
LEMMA SameDaemons ==
    ASSUME DaemonProcessInv, ~disturbed, NEW c \in Commands, command[c].at # "idle",
           process' = process
    PROVE  /\ Daemons' = Daemons
           /\ \A p, q \in Daemons : p = q
           /\ \A p \in Daemons : \/ process[p].at \in {"pid", "write"}
                                 \/ pidFile = p
                                 \/ command[c].at = "write" /\ command[c].pid = p
BY RunsAlone DEF DaemonProcessInv, OneInv, Daemons

\* A number that stands for nothing is no daemon's.
LEMMA ProbesInv ==
    ASSUME DaemonProcessInv, NEW c \in Commands, Probes(c)
    PROVE  DaemonProcessInv'
<1>1. /\ Table(process) /\ Orders(command)
      /\ pidFile \in Pids \cup {"none", "empty"} /\ statusSays \in BOOLEAN
  BY TypeParts DEF DaemonProcessInv
<1>2. /\ command[c].at = "probe"
      /\ UNCHANGED <<pidFile, statusSays, process, disturbed>>
  BY DEF Probes
<1>3. command[c].task \in {"start", "stop", "status"} /\ command[c].pid # Nobody
  BY <1>1, <1>2 DEF Orders, CommandStates
<1>4. ~disturbed => /\ Daemons' = Daemons
                    /\ \A p, q \in Daemons : p = q
                    /\ \A p \in Daemons : process[p].at \in {"pid", "write"} \/ pidFile = p
                    /\ \A p \in Daemons :
                          p = command[c].pid /\ process[p].at \notin {"pid", "write"}
  BY <1>2, SameDaemons DEF DaemonProcessInv, KnowsInv
<1>5. CASE ~Running(command[c].pid)
  <2>1. Goes(c, "unlink")
    BY <1>5 DEF Probes
  <2>2. ~disturbed => Daemons = {}
    BY <1>4, <1>5 DEF Running, Daemons
  <2> QED
    BY <1>1, <1>2, <1>3, <1>4, <2>1, <2>2, GoesInv
<1>6. CASE Running(command[c].pid) /\ command[c].task = "start"
  <2>1. Says(c, "already")
    BY <1>6 DEF Probes
  <2> QED
    BY <1>1, <1>2, <1>4, <2>1, AnswersInv DEF Sayings
<1>7. CASE Running(command[c].pid) /\ command[c].task = "stop"
  <2>1. Goes(c, "signal")
    BY <1>7 DEF Probes
  <2> QED
    BY <1>1, <1>2, <1>3, <1>4, <2>1, GoesInv
<1>8. CASE Running(command[c].pid) /\ command[c].task = "status"
  <2>1. Says(c, "running")
    BY <1>8 DEF Probes
  <2> QED
    BY <1>1, <1>2, <1>4, <2>1, AnswersInv DEF Sayings
<1> QED
  BY <1>3, <1>5, <1>6, <1>7, <1>8

\* The types a step starts from.
LEMMA CommandTypes ==
    ASSUME DaemonProcessInv, NEW c \in Commands, command[c].at # "idle"
    PROVE  /\ Table(process) /\ Orders(command) /\ Told(told)
           /\ pidFile \in Pids \cup {"none", "empty"} /\ statusSays \in BOOLEAN
           /\ disturbed \in BOOLEAN
           /\ command[c] \in CommandStates
           /\ command[c].task \in {"start", "stop", "status"}
           /\ command[c].at # "fork" => command[c].pid \in Pids
BY TypeParts, PidsAssumption DEF DaemonProcessInv, Orders, CommandStates

LEMMA UnlinksInv ==
    ASSUME DaemonProcessInv, NEW c \in Commands, Unlinks(c)
    PROVE  DaemonProcessInv'
<1>1. /\ command[c].at = "unlink" /\ pidFile' = "none"
      /\ UNCHANGED <<statusSays, process, disturbed>>
  BY DEF Unlinks
<1>2. /\ Table(process) /\ statusSays \in BOOLEAN
      /\ command[c].task \in {"start", "stop", "status"} /\ command[c].pid # Nobody
  BY <1>1, CommandTypes, PidsAssumption
<1>3. ~disturbed => Daemons = {} /\ Daemons' = {}
  BY <1>1 DEF DaemonProcessInv, KnowsInv, Daemons
<1>4. \E at \in {"fork", "wait", "report"} : Goes(c, at)
  BY <1>2 DEF Unlinks
<1> QED
  BY <1>1, <1>2, <1>3, <1>4, GoesInv

LEMMA StartForksInv ==
    ASSUME DaemonProcessInv, NEW c \in Commands, NEW p \in Pids, NEW foreground \in BOOLEAN,
           StartForks(c, p, foreground)
    PROVE  DaemonProcessInv'
<1> DEFINE new == [is |-> "daemon", at |-> "pid", stop |-> FALSE, guard |-> foreground,
                   parent |-> IF foreground THEN Nobody ELSE c]
<1>1. /\ command[c].at = "fork"
      /\ process' = [process EXCEPT ![p] = new]
      /\ UNCHANGED <<pidFile, statusSays, disturbed>>
  BY DEF StartForks
<1>2. new \in ProcessStates /\ new.is = "daemon" /\ new.at = "pid"
  BY DEF ProcessStates
<1> HIDE DEF new
<1>3. /\ Table(process) /\ Orders(command) /\ Told(told)
      /\ pidFile \in Pids \cup {"none", "empty"} /\ statusSays \in BOOLEAN
      /\ disturbed \in BOOLEAN /\ command[c] \in CommandStates
      /\ command[c].task \in {"start", "stop", "status"}
  BY <1>1, CommandTypes
<1>4. Table(process')
  BY <1>1, <1>2, <1>3 DEF Table
<1>5. ~disturbed => Daemons' \subseteq {p} /\ Daemons = {}
  BY <1>1 DEF DaemonProcessInv, KnowsInv, Daemons
<1>6. process'[p].at = "pid"
  BY <1>1, <1>2, <1>3 DEF Table
<1>7. CASE foreground
  <2>1. Says(c, "started")
    BY <1>7 DEF StartForks
  <2> QED
    BY <1>1, <1>3, <1>4, <1>5, <1>6, <2>1, AnswersInv DEF Sayings
<1>8. CASE ~foreground
  <2> DEFINE r == [command[c] EXCEPT !.at = "record", !.pid = p]
  <2>1. command' = [command EXCEPT ![c] = r] /\ told' = told
    BY <1>8 DEF StartForks
  <2>2. r \in CommandStates /\ r.at = "record" /\ r.pid = p /\ r.task # "none" /\ p # Nobody
    BY <1>3, PidsAssumption DEF CommandStates
  <2> HIDE DEF r
  <2>3. Orders(command')
    BY <1>3, <2>1, <2>2 DEF Orders
  <2>4. DaemonProcessTypeOK'
    BY <1>1, <1>3, <1>4, <2>1, <2>3, TypePartsNext
  <2>5. ASSUME ~disturbed' PROVE OneInv' /\ KnowsInv' /\ ToldInv'
    <3>1. OneInv /\ ToldInv /\ Daemons' \subseteq {p}
      BY <1>1, <1>5, <2>5 DEF DaemonProcessInv
    <3>2. /\ command'[c] = r
          /\ \A d \in Commands : d # c => command'[d].at = "idle"
      BY <1>1, <1>3, <2>1, <3>1, RunsAlone DEF Orders
    <3> QED
      BY <1>6, <2>1, <2>2, <3>1, <3>2, BusyInv
  <2> QED
    BY <2>4, <2>5 DEF DaemonProcessInv
<1> QED
  BY <1>7, <1>8

LEMMA StartFailsInv ==
    ASSUME DaemonProcessInv, NEW c \in Commands, StartFails(c)
    PROVE  DaemonProcessInv'
<1>1. /\ command[c].at = "fork" /\ Says(c, "failed")
      /\ UNCHANGED <<pidFile, statusSays, process, disturbed>>
  BY DEF StartFails
<1>2. /\ Table(process) /\ statusSays \in BOOLEAN
      /\ pidFile \in Pids \cup {"none", "empty"}
  BY <1>1, CommandTypes
<1>3. ~disturbed => Daemons' = {}
  BY <1>1 DEF DaemonProcessInv, KnowsInv, Daemons
<1> QED
  BY <1>1, <1>2, <1>3, AnswersInv DEF Sayings

LEMMA StartRecordsInv ==
    ASSUME DaemonProcessInv, NEW c \in Commands, StartRecords(c)
    PROVE  DaemonProcessInv'
<1>1. /\ command[c].at = "record" /\ Goes(c, "write") /\ pidFile' = "empty"
      /\ UNCHANGED <<statusSays, process, disturbed>>
  BY DEF StartRecords
<1>2. /\ Table(process) /\ statusSays \in BOOLEAN /\ command[c].pid # Nobody
  BY <1>1, CommandTypes, PidsAssumption
<1>3. ~disturbed => /\ Daemons' = Daemons
                    /\ \A p, q \in Daemons : p = q
                    /\ \A p \in Daemons : p = command[c].pid
  BY <1>1, SameDaemons DEF DaemonProcessInv, KnowsInv
<1> QED
  BY <1>1, <1>2, <1>3, GoesInv

LEMMA StartWritesInv ==
    ASSUME DaemonProcessInv, NEW c \in Commands, StartWrites(c)
    PROVE  DaemonProcessInv'
<1>1. /\ command[c].at = "write" /\ pidFile' = command[c].pid /\ Says(c, "started")
      /\ process' = Orphaned(process, c)
      /\ UNCHANGED <<statusSays, disturbed>>
  BY DEF StartWrites
<1>2. /\ Table(process) /\ statusSays \in BOOLEAN /\ command[c].pid \in Pids
  BY <1>1, CommandTypes
<1>3. Table(process') /\ NoneNew(process, process')
  BY <1>1, <1>2, OrphanedIsTable
<1>4. ~disturbed => /\ \A p, q \in Daemons' : p = q
                    /\ \A p \in Daemons' : p = command[c].pid
  BY <1>1, <1>3, FewerDaemons DEF DaemonProcessInv, OneInv, KnowsInv
<1> QED
  BY <1>1, <1>2, <1>3, <1>4, AnswersInv DEF Sayings

\* A child that outlives the signal of its parent has written the file itself.
LEMMA RecordFailsInv ==
    ASSUME DaemonProcessInv, NEW c \in Commands, RecordFails(c)
    PROVE  DaemonProcessInv'
<1> DEFINE p == command[c].pid
           qs == [process EXCEPT ![p] = Signalled(p)]
<1>1. /\ command[c].at = "record" /\ Says(c, "failed")
      /\ process' = Orphaned(qs, c)
      /\ UNCHANGED <<pidFile, statusSays, disturbed>>
  BY DEF RecordFails
<1>2. /\ Table(process) /\ statusSays \in BOOLEAN /\ p \in Pids
      /\ pidFile \in Pids \cup {"none", "empty"}
  BY <1>1, CommandTypes
<1>3. Table(qs) /\ NoneNew(process, qs)
  BY <1>2, SignalledIsTable
<1>4. Table(process') /\ NoneNew(qs, process')
  BY <1>1, <1>3, OrphanedIsTable
<1>5. NoneNew(process, process')
  BY <1>3, <1>4 DEF NoneNew
<1>6. ~disturbed => \A q \in Daemons' :
                       /\ q \in Daemons /\ q = p
                       /\ process'[q].at = process[q].at
  BY <1>1, <1>5, FewerDaemons DEF DaemonProcessInv, KnowsInv
<1>7. ~disturbed => \A q \in Daemons' : process[q].at \in {"pid", "write"} \/ pidFile = q
  BY <1>1, <1>6, RunsAlone DEF DaemonProcessInv, OneInv
<1> HIDE DEF p, qs
<1> QED
  BY <1>1, <1>2, <1>4, <1>6, <1>7, AnswersInv DEF Sayings

LEMMA StopSignalsInv ==
    ASSUME DaemonProcessInv, NEW c \in Commands, StopSignals(c)
    PROVE  DaemonProcessInv'
<1> DEFINE p == command[c].pid
<1>1. /\ command[c].at = "signal" /\ Goes(c, "wait")
      /\ process' = [process EXCEPT ![p] = Signalled(p)]
      /\ UNCHANGED <<pidFile, statusSays, disturbed>>
  BY DEF StopSignals
<1>2. /\ Table(process) /\ statusSays \in BOOLEAN /\ p \in Pids
      /\ pidFile \in Pids \cup {"none", "empty"}
  BY <1>1, CommandTypes
<1>3. Table(process') /\ NoneNew(process, process')
  BY <1>1, <1>2, SignalledIsTable
<1>4. ~disturbed => \A q \in Daemons' :
                       /\ q = p
                       /\ process'[q].at \notin {"pid", "write"}
                       /\ pidFile = q
  <2> SUFFICES ASSUME ~disturbed, NEW q \in Daemons'
               PROVE  q = p /\ process'[q].at \notin {"pid", "write"} /\ pidFile = q
    OBVIOUS
  <2>1. q \in Daemons /\ process'[q].at = process[q].at
    BY <1>3, FewerDaemons
  <2>2. q = p /\ process[q].at \notin {"pid", "write"}
    BY <1>1, <2>1 DEF DaemonProcessInv, KnowsInv
  <2>3. pidFile = q
    BY <1>1, <2>1, <2>2, RunsAlone DEF DaemonProcessInv, OneInv
  <2> QED
    BY <2>1, <2>2, <2>3
<1>5. p # Nobody
  BY <1>2, PidsAssumption
<1> HIDE DEF p
<1> QED
  BY <1>1, <1>2, <1>3, <1>4, <1>5, GoesInv DEF p

LEMMA StopWaitsInv ==
    ASSUME DaemonProcessInv, NEW c \in Commands, StopWaits(c)
    PROVE  DaemonProcessInv'
<1>1. /\ command[c].at = "wait" /\ Goes(c, "forget") /\ ~Running(command[c].pid)
      /\ UNCHANGED <<pidFile, statusSays, process, disturbed>>
  BY DEF StopWaits
<1>2. /\ Table(process) /\ statusSays \in BOOLEAN /\ command[c].pid # Nobody
      /\ pidFile \in Pids \cup {"none", "empty"}
  BY <1>1, CommandTypes, PidsAssumption
<1>3. ~disturbed => Daemons' = {}
  BY <1>1 DEF DaemonProcessInv, KnowsInv, Running, Daemons
<1> QED
  BY <1>1, <1>2, <1>3, GoesInv

LEMMA StopTimesOutInv ==
    ASSUME DaemonProcessInv, NEW c \in Commands, StopTimesOut(c)
    PROVE  DaemonProcessInv'
<1>1. /\ command[c].at = "wait" /\ Says(c, "timeout")
      /\ UNCHANGED <<pidFile, statusSays, process, disturbed>>
  BY DEF StopTimesOut
<1>2. /\ Table(process) /\ statusSays \in BOOLEAN
      /\ pidFile \in Pids \cup {"none", "empty"}
  BY <1>1, CommandTypes
<1>3. ~disturbed => /\ Daemons' = Daemons
                    /\ \A p, q \in Daemons : p = q
                    /\ \A p \in Daemons : process[p].at \in {"pid", "write"} \/ pidFile = p
  BY <1>1, SameDaemons
<1> QED
  BY <1>1, <1>2, <1>3, AnswersInv DEF Sayings

LEMMA StopForgetsInv ==
    ASSUME DaemonProcessInv, NEW c \in Commands, StopForgets(c)
    PROVE  DaemonProcessInv'
<1>1. /\ command[c].at = "forget" /\ Goes(c, "report") /\ pidFile' = "none"
      /\ UNCHANGED <<statusSays, process, disturbed>>
  BY DEF StopForgets
<1>2. /\ Table(process) /\ statusSays \in BOOLEAN /\ command[c].pid # Nobody
  BY <1>1, CommandTypes, PidsAssumption
<1>3. ~disturbed => Daemons' = {}
  BY <1>1 DEF DaemonProcessInv, KnowsInv, Daemons
<1> QED
  BY <1>1, <1>2, <1>3, GoesInv

LEMMA ReportsInv ==
    ASSUME DaemonProcessInv, NEW c \in Commands, Reports(c)
    PROVE  DaemonProcessInv'
<1>1. /\ command[c].at = "report" /\ statusSays' = FALSE
      /\ UNCHANGED <<pidFile, process, disturbed>>
  BY DEF Reports
<1>2. Table(process) /\ pidFile \in Pids \cup {"none", "empty"}
  BY <1>1, CommandTypes
<1>3. ~disturbed => Daemons = {} /\ Daemons' = {} /\ pidFile' = "none"
  BY <1>1 DEF DaemonProcessInv, KnowsInv, Daemons
<1>4. \E what \in {"stopped", "not running"} : Says(c, what)
  BY DEF Reports
<1> QED
  BY <1>1, <1>2, <1>3, <1>4, AnswersInv DEF Sayings

\* Killed while it writes the file a command leaves it empty: that is a disturbance.
LEMMA CommandKilledInv ==
    ASSUME DaemonProcessInv, NEW c \in Commands, CommandKilled(c)
    PROVE  DaemonProcessInv'
<1>1. /\ command[c].at # "idle"
      /\ command' = [command EXCEPT ![c] = NoCommand]
      /\ told' = [said |-> "nothing", daemon |-> FALSE]
      /\ process' = Orphaned(process, c)
      /\ disturbed' = (disturbed \/ command[c].at = "write")
      /\ UNCHANGED <<pidFile, statusSays>>
  BY DEF CommandKilled
<1>2. /\ Table(process) /\ Orders(command) /\ statusSays \in BOOLEAN
      /\ pidFile \in Pids \cup {"none", "empty"} /\ disturbed \in BOOLEAN
  BY <1>1, CommandTypes
<1>3. Table(process') /\ NoneNew(process, process')
  BY <1>1, <1>2, OrphanedIsTable
<1>4. Orders(command')
  BY <1>1, <1>2 DEF Orders, CommandStates, NoCommand
<1>5. Told(told')
  BY <1>1 DEF Told, Sayings
<1>6. DaemonProcessTypeOK'
  BY <1>1, <1>2, <1>3, <1>4, <1>5, TypePartsNext
<1>7. ASSUME ~disturbed' PROVE OneInv' /\ KnowsInv' /\ ToldInv'
  <2>1. OneInv /\ command[c].at # "write"
    BY <1>1, <1>7 DEF DaemonProcessInv
  <2>2. \A d \in Commands : command'[d].at = "idle"
    BY <1>1, <1>2, <2>1, RunsAlone DEF Orders, NoCommand
  <2>3. /\ \A p, q \in Daemons' : p = q
        /\ \A p \in Daemons' : process'[p].at \in {"pid", "write"} \/ pidFile' = p
    <3>1. \A p \in Daemons : process[p].at \in {"pid", "write"} \/ pidFile = p
      BY <1>1, <2>1, RunsAlone DEF OneInv
    <3> QED
      BY <1>1, <1>3, <2>1, <3>1, FewerDaemons DEF OneInv
  <2>4. OneInv' /\ KnowsInv'
    BY <2>2, <2>3, QuietInv
  <2> QED
    BY <1>1, <2>4 DEF ToldInv
<1> QED
  BY <1>6, <1>7 DEF DaemonProcessInv

--------------------------------------------------------------------------------
(* The steps of a daemon                                                       *)

\* A step of the process table, and perhaps of the files, while no command steps.
LEMMA TableStepInv ==
    ASSUME DaemonProcessInv, Table(process'),
           pidFile' \in Pids \cup {"none", "empty"}, statusSays' \in BOOLEAN,
           UNCHANGED <<command, told, disturbed>>,
           Daemons' \subseteq Daemons,
           ~disturbed => /\ \A p \in Daemons' :
                               \/ process'[p].at \in {"pid", "write"}
                               \/ pidFile' = p
                               \/ \E c \in Commands : command[c].at = "write" /\ command[c].pid = p
                         /\ \A p \in Daemons' : process[p].at \notin {"pid", "write"} =>
                                                   process'[p].at \notin {"pid", "write"}
                         /\ pidFile = "none" => pidFile' = "none" \/ Daemons # {}
                         /\ ~statusSays => ~statusSays' \/ Daemons # {}
    PROVE  DaemonProcessInv'
<1>1. DaemonProcessTypeOK'
  BY TypeParts, TypePartsNext DEF DaemonProcessInv
<1>2. ASSUME ~disturbed' PROVE OneInv' /\ KnowsInv' /\ ToldInv'
  <2>1. OneInv /\ KnowsInv /\ ToldInv
    BY <1>2 DEF DaemonProcessInv
  <2>2. OneInv'
    BY <1>2, <2>1 DEF OneInv
  <2>3. KnowsInv'
    BY <1>2, <2>1 DEF KnowsInv
  <2>4. ToldInv'
    BY <1>2, <2>1 DEF ToldInv
  <2> QED
    BY <2>2, <2>3, <2>4
<1> QED
  BY <1>1, <1>2 DEF DaemonProcessInv

\* The types a daemon's step starts from.
LEMMA DaemonTypes ==
    ASSUME DaemonProcessInv
    PROVE  /\ Table(process) /\ statusSays \in BOOLEAN
           /\ pidFile \in Pids \cup {"none", "empty"}
BY TypeParts DEF DaemonProcessInv

\* A daemon that moves is still the daemon it was.
LEMMA MovesFacts ==
    ASSUME Table(process), NEW p \in Pids, process[p].at # "off",
           NEW at \in {"write", "begin", "run", "end", "guard"},
           process' = [process EXCEPT ![p].at = at]
    PROVE  /\ Table(process')
           /\ Daemons' = Daemons /\ p \in Daemons
           /\ process'[p].at = at
           /\ \A q \in Daemons : q # p => process'[q].at = process[q].at
<1> DEFINE r == [process[p] EXCEPT !.at = at]
<1>1. process[p] \in ProcessStates /\ process[p].is = "daemon"
  BY DEF Table
<1>2. r \in ProcessStates /\ r.is = "daemon" /\ r.at = at
  BY <1>1 DEF ProcessStates
<1>3. process' = [process EXCEPT ![p] = r]
  OBVIOUS
<1> HIDE DEF r
<1> QED
  BY <1>1, <1>2, <1>3 DEF Table, Daemons

LEMMA DaemonRecordsInv ==
    ASSUME DaemonProcessInv, NEW p \in Pids, DaemonRecords(p)
    PROVE  DaemonProcessInv'
<1>1. /\ process[p].at = "pid" /\ pidFile' = "empty"
      /\ process' = [process EXCEPT ![p].at = "write"]
      /\ UNCHANGED <<statusSays, command, told, disturbed>>
  BY DEF DaemonRecords, Moves
<1>2. /\ Table(process') /\ Daemons' = Daemons /\ p \in Daemons /\ process'[p].at = "write"
  BY <1>1, MovesFacts, DaemonTypes
<1>3. ~disturbed => \A q \in Daemons : q = p
  BY <1>2 DEF DaemonProcessInv, OneInv
<1> QED
  BY <1>1, <1>2, <1>3, DaemonTypes, TableStepInv

LEMMA DaemonWritesInv ==
    ASSUME DaemonProcessInv, NEW p \in Pids, DaemonWrites(p)
    PROVE  DaemonProcessInv'
<1>1. /\ process[p].at = "write" /\ pidFile' = p
      /\ process' = [process EXCEPT ![p].at = "begin"]
      /\ UNCHANGED <<statusSays, command, told, disturbed>>
  BY DEF DaemonWrites, Moves
<1>2. /\ Table(process') /\ Daemons' = Daemons /\ p \in Daemons /\ process'[p].at = "begin"
  BY <1>1, MovesFacts, DaemonTypes
<1>3. ~disturbed => \A q \in Daemons : q = p
  BY <1>2 DEF DaemonProcessInv, OneInv
<1> QED
  BY <1>1, <1>2, <1>3, DaemonTypes, TableStepInv

\* The status file says running, or no more: only while the daemon runs.
LEMMA DaemonTurnsInv ==
    ASSUME DaemonProcessInv, NEW p \in Pids, DaemonBegins(p) \/ DaemonEnds(p)
    PROVE  DaemonProcessInv'
<1>1. \E at \in {"run", "end"} :
         /\ process[p].at \in {"begin", "run"}
         /\ process' = [process EXCEPT ![p].at = at]
         /\ statusSays' \in BOOLEAN
         /\ UNCHANGED <<pidFile, command, told, disturbed>>
  BY DEF DaemonBegins, DaemonEnds, Moves
<1>2. /\ Table(process') /\ Daemons' = Daemons /\ p \in Daemons
      /\ process'[p].at \in {"run", "end"}
  BY <1>1, MovesFacts, DaemonTypes
<1>3. ~disturbed => /\ \A q \in Daemons : q = p
                    /\ \/ pidFile = p
                       \/ \E c \in Commands : command[c].at = "write" /\ command[c].pid = p
  BY <1>1, <1>2 DEF DaemonProcessInv, OneInv
<1> QED
  BY <1>1, <1>2, <1>3, DaemonTypes, TableStepInv

\* A process gone from the table, or replaced by no daemon.
LEMMA GoneInv ==
    ASSUME DaemonProcessInv, NoneNew(process, process'), Table(process'),
           UNCHANGED <<pidFile, statusSays, command, told, disturbed>>
    PROVE  DaemonProcessInv'
<1>1. /\ Daemons' \subseteq Daemons
      /\ \A p \in Daemons' : process'[p].at = process[p].at
  BY FewerDaemons
<1> QED
  BY <1>1, DaemonTypes, TableStepInv DEF DaemonProcessInv, OneInv

LEMMA DaemonLeavesInv ==
    ASSUME DaemonProcessInv, NEW p \in Pids, DaemonLeaves(p)
    PROVE  DaemonProcessInv'
<1>1. /\ process[p].at = "end"
      /\ UNCHANGED <<pidFile, statusSays, command, told, disturbed>>
  BY DEF DaemonLeaves
<1>2. CASE process[p].guard
  <2>1. process' = [process EXCEPT ![p].at = "guard"]
    BY <1>2 DEF DaemonLeaves
  <2>2. /\ Table(process') /\ Daemons' = Daemons /\ p \in Daemons
        /\ process'[p].at = "guard"
    BY <1>1, <2>1, MovesFacts, DaemonTypes
  <2>3. ~disturbed => /\ \A q \in Daemons : q = p
                      /\ \/ pidFile = p
                         \/ \E c \in Commands : command[c].at = "write" /\ command[c].pid = p
    BY <1>1, <2>2 DEF DaemonProcessInv, OneInv
  <2> QED
    BY <1>1, <2>2, <2>3, DaemonTypes, TableStepInv
<1>3. CASE ~process[p].guard
  <2>1. process' = [process EXCEPT ![p] = Dead(p)]
    BY <1>3 DEF DaemonLeaves
  <2>2. Table(process') /\ NoneNew(process, process')
    BY <2>1, DaemonTypes, DeadIsNoDaemon, ReplacedIsTable
  <2> QED
    BY <1>1, <2>2, GoneInv
<1> QED
  BY <1>2, <1>3

\* The guard of a daemon in the foreground: the only daemon is gone as well.
LEMMA DaemonUnlinksInv ==
    ASSUME DaemonProcessInv, NEW p \in Pids, DaemonUnlinks(p)
    PROVE  DaemonProcessInv'
<1>1. /\ process[p].at = "guard" /\ pidFile' = "none"
      /\ process' = [process EXCEPT ![p] = FreePid]
      /\ UNCHANGED <<statusSays, command, told, disturbed>>
  BY DEF DaemonUnlinks
<1>2. FreePid \in ProcessStates /\ FreePid.is # "daemon" /\ FreePid.at = "off"
  BY DEF FreePid, ProcessStates
<1>3. Table(process') /\ NoneNew(process, process')
  BY <1>1, <1>2, DaemonTypes, ReplacedIsTable
<1>4. p \in Daemons /\ Daemons' \subseteq Daemons \ {p}
  <2>1. process[p].is = "daemon" /\ process'[p].is # "daemon"
    BY <1>1, <1>2, DaemonTypes DEF Table
  <2> QED
    BY <1>3, <2>1, FewerDaemons DEF Daemons
<1>5. ~disturbed => Daemons' = {}
  BY <1>4 DEF DaemonProcessInv, OneInv
<1> QED
  BY <1>1, <1>3, <1>4, <1>5, DaemonTypes, TableStepInv

LEMMA DaemonDiesInv ==
    ASSUME DaemonProcessInv, NEW p \in Pids, DaemonDies(p)
    PROVE  DaemonProcessInv'
<1>1. Table(process') /\ NoneNew(process, process')
  BY DaemonTypes, DeadIsNoDaemon, ReplacedIsTable DEF DaemonDies
<1> QED
  BY <1>1, GoneInv DEF DaemonDies

LEMMA StrangerInv ==
    ASSUME DaemonProcessInv, NEW p \in Pids, Stranger(p)
    PROVE  DaemonProcessInv'
<1> DEFINE r == [process[p] EXCEPT !.is = IF @ = "free" THEN "stranger" ELSE "free"]
<1>1. /\ process[p].is \in {"free", "stranger"}
      /\ process' = [process EXCEPT ![p] = r]
      /\ UNCHANGED <<pidFile, statusSays, command, told, disturbed>>
  BY DEF Stranger
<1>2. process[p] \in ProcessStates /\ (process[p].is = "daemon" <=> process[p].at # "off")
  BY DaemonTypes DEF Table
<1>3. r \in ProcessStates /\ r.is # "daemon" /\ r.at = "off"
  BY <1>1, <1>2 DEF ProcessStates
<1> HIDE DEF r
<1>4. Table(process') /\ NoneNew(process, process')
  BY <1>1, <1>3, DaemonTypes, ReplacedIsTable
<1> QED
  BY <1>1, <1>4, GoneInv

--------------------------------------------------------------------------------
(* The theorems about the daemon commands                                      *)

LEMMA DaemonInitInv == ProcessInit => DaemonProcessInv
<1> SUFFICES ASSUME ProcessInit PROVE DaemonProcessInv
  OBVIOUS
<1>1. FreePid \in ProcessStates /\ FreePid.is = "free" /\ FreePid.at = "off"
  BY DEF FreePid, ProcessStates
<1>2. NoCommand \in CommandStates /\ NoCommand.at = "idle" /\ NoCommand.task = "none"
  BY DEF NoCommand, CommandStates
<1>3. Table(process) /\ Daemons = {}
  BY <1>1 DEF ProcessInit, Table, Daemons
<1>4. Orders(command) /\ \A c \in Commands : command[c].at = "idle"
  BY <1>2 DEF ProcessInit, Orders
<1>5. Told(told) /\ told.said = "nothing"
  BY DEF ProcessInit, Told, Sayings
<1>6. DaemonProcessTypeOK
  BY <1>3, <1>4, <1>5, TypeParts DEF ProcessInit
<1>7. OneInv /\ KnowsInv /\ ToldInv
  BY <1>3, <1>4, <1>5 DEF OneInv, KnowsInv, ToldInv
<1> QED
  BY <1>6, <1>7 DEF DaemonProcessInv

LEMMA DaemonNextInv == DaemonProcessInv /\ [ProcessNext]_processVars => DaemonProcessInv'
<1> SUFFICES ASSUME DaemonProcessInv, [ProcessNext]_processVars PROVE DaemonProcessInv'
  OBVIOUS
<1>1. ASSUME NEW c \in Commands, NEW task \in {"start", "stop", "status"}, Begins(c, task)
      PROVE  DaemonProcessInv'
  BY <1>1, BeginsInv
<1>2. ASSUME NEW c \in Commands, NEW p \in Pids, NEW foreground \in BOOLEAN,
             StartForks(c, p, foreground)
      PROVE  DaemonProcessInv'
  BY <1>2, StartForksInv
<1>3. ASSUME NEW c \in Commands,
             \/ Probes(c) \/ Unlinks(c) \/ StartFails(c) \/ StartRecords(c) \/ StartWrites(c)
             \/ RecordFails(c)
      PROVE  DaemonProcessInv'
  BY <1>3, ProbesInv, UnlinksInv, StartFailsInv, StartRecordsInv, StartWritesInv, RecordFailsInv
<1>4. ASSUME NEW c \in Commands,
             \/ StopSignals(c) \/ StopWaits(c) \/ StopTimesOut(c) \/ StopForgets(c)
             \/ Reports(c) \/ CommandKilled(c)
      PROVE  DaemonProcessInv'
  BY <1>4, StopSignalsInv, StopWaitsInv, StopTimesOutInv, StopForgetsInv, ReportsInv,
     CommandKilledInv
<1>5. ASSUME NEW p \in Pids,
             \/ DaemonRecords(p) \/ DaemonWrites(p) \/ DaemonBegins(p) \/ DaemonEnds(p)
             \/ DaemonLeaves(p) \/ DaemonUnlinks(p) \/ DaemonDies(p) \/ Stranger(p)
      PROVE  DaemonProcessInv'
  BY <1>5, DaemonRecordsInv, DaemonWritesInv, DaemonTurnsInv, DaemonLeavesInv,
     DaemonUnlinksInv, DaemonDiesInv, StrangerInv
<1>6. CASE UNCHANGED processVars
  <2>1. UNCHANGED <<pidFile, statusSays, process, command, told, disturbed>>
    BY <1>6 DEF processVars
  <2>2. Table(process') /\ NoneNew(process, process')
    BY <2>1, DaemonTypes DEF NoneNew
  <2> QED
    BY <2>1, <2>2, GoneInv
<1> QED
  BY <1>1, <1>2, <1>3, <1>4, <1>5, <1>6 DEF ProcessNext

\* Theorem: what the pid file, the process table and each command say of the only
\* daemon holds in every state of the daemon commands.
THEOREM DaemonProcessInvHolds == ProcessSpec => []DaemonProcessInv
<1>1. ProcessInit => DaemonProcessInv
  BY DaemonInitInv
<1>2. DaemonProcessInv /\ [ProcessNext]_processVars => DaemonProcessInv'
  BY DaemonNextInv
<1> QED
  BY <1>1, <1>2, PTL DEF ProcessSpec

\* Theorem: the files, the process table and the commands have their types.
THEOREM DaemonProcessTypeCorrect == ProcessSpec => []DaemonProcessTypeOK
<1>1. DaemonProcessInv => DaemonProcessTypeOK
  BY DEF DaemonProcessInv
<1> QED
  BY <1>1, DaemonProcessInvHolds, PTL

\* A set whose members are all the same has one at most.
LEMMA AtMostOne ==
    ASSUME NEW S, \A p, q \in S : p = q
    PROVE  Cardinality(S) <= 1
<1>1. CASE S = {}
  BY <1>1, FS_EmptySet
<1>2. CASE S # {}
  <2>1. PICK p : S = {p}
    BY <1>2
  <2>2. Cardinality({p}) = 1
    BY FS_Singleton
  <2> QED
    BY <2>1, <2>2
<1> QED
  BY <1>1, <1>2

\* Theorem: while no two commands overlap there is never a second daemon, whatever
\* crashes, whichever numbers are used again and wherever a start or stop breaks off.
THEOREM ThereIsOneDaemon == ProcessSpec => []OneDaemon
<1>1. DaemonProcessInv => OneDaemon
  <2> SUFFICES ASSUME DaemonProcessInv, ~disturbed PROVE Cardinality(Daemons) <= 1
    BY DEF OneDaemon
  <2>1. \A p, q \in Daemons : p = q
    BY DEF DaemonProcessInv, OneInv
  <2> QED
    BY <2>1, AtMostOne
<1> QED
  BY <1>1, DaemonProcessInvHolds, PTL

\* Theorem: a stop or a status that says no daemon runs is right.
THEOREM DaemonIsNotDenied == ProcessSpec => []DaemonNotDenied
<1>1. DaemonProcessInv => DaemonNotDenied
  BY DEF DaemonProcessInv, ToldInv, DaemonNotDenied
<1> QED
  BY <1>1, DaemonProcessInvHolds, PTL

\* Theorem: a stop that succeeded leaves no pid file, no running status and no daemon.
THEOREM StopLeavesNothingBehind == ProcessSpec => []StopLeavesNothing
<1>1. DaemonProcessInv => StopLeavesNothing
  BY DEF DaemonProcessInv, ToldInv, StopLeavesNothing
<1> QED
  BY <1>1, DaemonProcessInvHolds, PTL

--------------------------------------------------------------------------------
(* The client commands                                                         *)

\* The client of ours, if there is one: the unit file or client.pid leads to it
\* between commands, and each step of a command knows where it is.
LedInv ==
    /\ unitFile # None => Ours \subseteq MainOf(unitFile)
    /\ run.at \in {"idle", "unit", "pid", "signal", "wait end"} /\ unitFile = None =>
          Ours \subseteq {clientFile}
    /\ run.at = "unit stop" => unitFile # None
    /\ run.at = "pid" => unitFile = None \/ Ours = {}
    /\ run.at \in {"find", "launch", "direct"} => Ours = {}
    /\ run.at \in {"launch", "unit pid", "unit file", "direct", "wait"} => unitFile = None
    /\ run.at \in {"unit pid", "unit file"} => Ours \subseteq MainOf(run.unit)
    /\ run.at \in {"unit", "unit stop", "pid", "find", "launch", "direct", "wait"} =>
          run.unit = None
    /\ run.at \in {"wait", "signal", "wait end"} => Ours \subseteq {run.pid}
    /\ run.at = "record" => unitFile = run.unit /\ (run.unit = None => Ours \subseteq {run.pid})

\* A unit that is being stopped while it is ours is the one this command stops.
StoppingInv ==
    \A p \in ClientPids : proc[p].stopping /\ ~proc[p].lost =>
       run.at = "unit stop" /\ p \in MainOf(unitFile)

\* The process table: each unit has one process.
ProcTable(ps) ==
    /\ ps \in [ClientPids -> [is : Kinds, unit : Units \cup {None}, stopping : BOOLEAN,
                              lost : BOOLEAN]]
    /\ \A p \in ClientPids : ps[p].is = "free" => ps[p] = NoProc
    /\ \A p, q \in ClientPids : ps[p].unit # None /\ ps[p].unit = ps[q].unit => p = q

RunStates ==
    [at : {"idle", "unit", "unit stop", "pid", "find", "launch", "unit pid", "unit file",
           "direct", "wait", "record", "signal", "wait end"},
     task : {"none", "start", "status", "stop", "force"},
     pid : ClientPids \cup {None}, unit : Units \cup {None}]

SaidStates ==
    [what : {"nothing", "started", "already", "running", "not running", "stopped",
             "absent", "timeout", "failed"}, client : BOOLEAN]

ClientInv ==
    /\ clientFile \in ClientPids \cup {None}
    /\ unitFile \in Units \cup {None}
    /\ ProcTable(proc)
    /\ run \in RunStates
    /\ run.at # "idle" => run.task # "none"
    /\ said \in SaidStates
    /\ \A p, q \in Ours : p = q
    /\ LedInv
    /\ StoppingInv
    /\ ClientNotDenied

\* Nothing became a client of ours, or changed its unit, or is being stopped anew.
Remains(ps, qs) ==
    \A p \in ClientPids :
       /\ qs[p].is \in {"forked", "launching", "client"} /\ ~qs[p].lost =>
             /\ ps[p].is \in {"forked", "launching", "client"} /\ ~ps[p].lost
             /\ qs[p].unit = ps[p].unit
       /\ qs[p].stopping /\ ~qs[p].lost =>
             /\ ps[p].stopping /\ ~ps[p].lost
             /\ qs[p].unit = ps[p].unit

LEMMA OursRemain ==
    ASSUME Remains(proc, proc')
    PROVE  Ours' \subseteq Ours /\ \A p \in Ours' : proc'[p].unit = proc[p].unit
BY DEF Remains, Ours

LEMMA ProcStays ==
    ASSUME proc' = proc
    PROVE  /\ Ours' = Ours /\ Remains(proc, proc')
           /\ ProcTable(proc) => ProcTable(proc')
BY DEF Remains, Ours, ProcTable

\* The process of a unit exists, and is the unit's only one.
LEMMA UnitsProcess ==
    ASSUME ProcTable(proc), NEW u, NEW p \in MainOf(u)
    PROVE  /\ p \in ClientPids /\ u # None /\ proc[p].unit = u
           /\ proc[p].is # "free"
           /\ \A q \in MainOf(u) : q = p
BY DEF ProcTable, MainOf, NoProc

\* Processes left to themselves are none of ours any more.
LEMMA LoseFacts ==
    ASSUME ProcTable(proc), NEW ps, \A p \in ps : p \in ClientPids /\ proc[p].is # "free",
           proc' = Lose(ps)
    PROVE  /\ ProcTable(proc') /\ Remains(proc, proc')
           /\ \A p \in Ours' : p \notin ps
           /\ \A p \in ps : proc'[p].lost
<1> DEFINE L(p) == [proc[p] EXCEPT !.lost = TRUE]
<1>1. \A p \in ClientPids :
         /\ proc[p] \in [is : Kinds, unit : Units \cup {None}, stopping : BOOLEAN, lost : BOOLEAN]
         /\ proc'[p] = IF p \in ps THEN L(p) ELSE proc[p]
  BY DEF ProcTable, Lose
<1>2. \A p \in ClientPids :
         /\ L(p) \in [is : Kinds, unit : Units \cup {None}, stopping : BOOLEAN, lost : BOOLEAN]
         /\ L(p).is = proc[p].is /\ L(p).unit = proc[p].unit
         /\ L(p).stopping = proc[p].stopping /\ L(p).lost = TRUE
  BY <1>1
<1> HIDE DEF L
<1>3. proc' \in [ClientPids -> [is : Kinds, unit : Units \cup {None}, stopping : BOOLEAN,
                                lost : BOOLEAN]]
  BY <1>1, <1>2 DEF Lose
<1>4. \A p \in ClientPids : proc'[p].is = "free" => proc'[p] = NoProc
  BY <1>1, <1>2 DEF ProcTable
<1>5. \A p \in ClientPids : proc'[p].unit = proc[p].unit
  BY <1>1, <1>2
<1>6. ProcTable(proc')
  BY <1>3, <1>4, <1>5 DEF ProcTable
<1>7. Remains(proc, proc')
  BY <1>1, <1>2 DEF Remains
<1>8. (\A p \in Ours' : p \notin ps) /\ \A p \in ps : proc'[p].lost
  BY <1>1, <1>2 DEF Ours
<1> QED
  BY <1>6, <1>7, <1>8

LEMMA NoProcFacts ==
    /\ NoProc \in [is : Kinds, unit : Units \cup {None}, stopping : BOOLEAN, lost : BOOLEAN]
    /\ NoProc.is = "free" /\ NoProc.unit = None /\ ~NoProc.stopping /\ ~NoProc.lost
BY DEF NoProc, Kinds

\* Processes that end are gone.
LEMMA EndFacts ==
    ASSUME ProcTable(proc), NEW ps,
           proc' = [p \in ClientPids |-> IF p \in ps THEN NoProc ELSE proc[p]]
    PROVE  /\ ProcTable(proc') /\ Remains(proc, proc')
           /\ \A p \in Ours' : p \notin ps
<1>1. \A p \in ClientPids : proc'[p] = IF p \in ps THEN NoProc ELSE proc[p]
  OBVIOUS
<1>2. proc' \in [ClientPids -> [is : Kinds, unit : Units \cup {None}, stopping : BOOLEAN,
                                lost : BOOLEAN]]
  BY <1>1, NoProcFacts DEF ProcTable
<1>3. \A p \in ClientPids : proc'[p].unit \in {proc[p].unit, None}
  BY <1>1, NoProcFacts
<1>4. ProcTable(proc')
  BY <1>1, <1>2, <1>3, NoProcFacts DEF ProcTable
<1>5. Remains(proc, proc') /\ \A p \in Ours' : p \notin ps
  BY <1>1, NoProcFacts DEF Remains, Ours
<1> QED
  BY <1>4, <1>5

\* One process ends.
LEMMA OneEnds ==
    ASSUME ProcTable(proc), NEW p \in ClientPids \cup {None},
           proc' = [proc EXCEPT ![p] = NoProc]
    PROVE  /\ ProcTable(proc') /\ Remains(proc, proc')
           /\ \A q \in Ours' : q # p
<1>1. proc' = [q \in ClientPids |-> IF q \in {p} THEN NoProc ELSE proc[q]]
  BY DEF ProcTable
<1> QED
  BY <1>1, EndFacts

\* Whatever comes of stopping a unit, its process is none of ours any more.
LEMMA AfterUnitStopFacts ==
    ASSUME ProcTable(proc), NEW u, NEW stopped \in BOOLEAN, proc' = AfterUnitStop(u, stopped)
    PROVE  /\ ProcTable(proc') /\ Remains(proc, proc')
           /\ \A p \in Ours' : p \notin MainOf(u)
<1>1. CASE stopped
  BY <1>1, EndFacts DEF AfterUnitStop
<1>2. CASE ~stopped
  BY <1>2, LoseFacts, UnitsProcess DEF AfterUnitStop
<1> QED
  BY <1>1, <1>2

\* No unit is being stopped but by a command at "unit stop".
LEMMA StillNotStopping ==
    ASSUME StoppingInv, Remains(proc, proc'), run.at # "unit stop"
    PROVE  StoppingInv'
BY DEF StoppingInv, Remains

\* A command that goes on knows where our client is.
LEMMA KeepsInv ==
    ASSUME ClientInv, Remains(proc, proc'), ProcTable(proc'),
           clientFile' \in ClientPids \cup {None}, unitFile' \in Units \cup {None},
           run' \in RunStates, run'.at # "idle" => run'.task # "none",
           said' = said, LedInv', StoppingInv'
    PROVE  ClientInv'
<1>1. \A p, q \in Ours' : p = q
  BY OursRemain DEF ClientInv
<1>2. ClientNotDenied'
  BY DEF ClientInv, ClientNotDenied
<1> QED
  BY <1>1, <1>2 DEF ClientInv

\* A command that ends leaves the client where the files lead to it, and is right
\* when it denies it.
LEMMA AnswerInv ==
    ASSUME ClientInv, NEW what, Answer(what),
           what \in {"started", "already", "running", "not running", "stopped", "absent",
                     "timeout", "failed"},
           Remains(proc, proc'), ProcTable(proc'),
           clientFile' \in ClientPids \cup {None}, unitFile' \in Units \cup {None},
           unitFile' # None => \A p \in Ours' : proc'[p].unit = unitFile',
           unitFile' = None => Ours' \subseteq {clientFile'},
           what \in {"stopped", "absent", "not running"} => Ours = {},
           StoppingInv'
    PROVE  ClientInv'
<1>1. run' = NoRun /\ said' = [what |-> what, client |-> Ours # {}]
  BY DEF Answer
<1>2. run' \in RunStates /\ run'.at = "idle"
  BY <1>1 DEF RunStates, NoRun
<1>3. said' \in SaidStates /\ said'.what = what /\ (said'.client <=> Ours # {})
  BY <1>1 DEF SaidStates
<1>4. \A p, q \in Ours' : p = q
  BY OursRemain DEF ClientInv
<1>5. LedInv'
  BY <1>2 DEF LedInv, MainOf, Ours
<1>6. ClientNotDenied'
  BY <1>3 DEF ClientNotDenied
<1> QED
  BY <1>2, <1>3, <1>4, <1>5, <1>6 DEF ClientInv

\* The fields of a run that goes on.
LEMMA ProceedFacts ==
    ASSUME ClientInv, run.at # "idle",
           NEW at \in {"unit stop", "pid", "find", "launch", "unit pid", "unit file", "direct",
                       "wait", "record", "signal", "wait end"},
           NEW p \in ClientPids \cup {None}, NEW u \in Units \cup {None},
           run' = [run EXCEPT !.at = at, !.pid = p, !.unit = u]
    PROVE  /\ run' \in RunStates /\ run'.task # "none"
           /\ run'.at = at /\ run'.pid = p /\ run'.unit = u
<1>1. run \in RunStates /\ run.task # "none"
  BY DEF ClientInv
<1> QED
  BY <1>1 DEF RunStates

\* The same when only the step changes.
LEMMA ProceedOnly ==
    ASSUME ClientInv, run.at # "idle",
           NEW at \in {"unit stop", "pid", "find", "launch", "unit pid", "unit file", "direct",
                       "wait", "record", "signal", "wait end"},
           Proceed(at)
    PROVE  /\ run' \in RunStates /\ run'.task # "none"
           /\ run'.at = at /\ run'.pid = run.pid /\ run'.unit = run.unit
           /\ said' = said
<1>1. run \in RunStates /\ run.task # "none"
  BY DEF ClientInv
<1>2. run' = [run EXCEPT !.at = at] /\ said' = said
  BY DEF Proceed
<1> QED
  BY <1>1, <1>2 DEF RunStates

\* The types a step of a command starts from.
LEMMA ClientTypes ==
    ASSUME ClientInv
    PROVE  /\ clientFile \in ClientPids \cup {None} /\ unitFile \in Units \cup {None}
           /\ ProcTable(proc) /\ run \in RunStates
           /\ run.pid \in ClientPids \cup {None} /\ run.unit \in Units \cup {None}
           /\ run.at # "idle" => run.task \in {"start", "status", "stop", "force"}
           /\ LedInv /\ StoppingInv
BY DEF ClientInv, RunStates

LEMMA ClientBeginsInv ==
    ASSUME ClientInv, NEW task \in {"start", "status", "stop", "force"}, ClientBegins(task)
    PROVE  ClientInv'
<1>1. /\ run.at = "idle"
      /\ run' = [NoRun EXCEPT !.at = "unit", !.task = task]
      /\ clientFile' = clientFile /\ unitFile' = unitFile /\ proc' = proc /\ said' = said
  BY DEF ClientBegins
<1>2. run' \in RunStates /\ run'.at = "unit" /\ run'.task # "none" /\ run'.unit = None
  BY <1>1 DEF RunStates, NoRun
<1>3. LedInv'
  BY <1>1, <1>2, ClientTypes, ProcStays DEF LedInv, MainOf
<1>4. StoppingInv'
  BY <1>1, ClientTypes, ProcStays, StillNotStopping
<1> QED
  BY <1>1, <1>2, <1>3, <1>4, ClientTypes, ProcStays, KeepsInv

LEMMA NoUnitFileInv ==
    ASSUME ClientInv, NoUnitFile
    PROVE  ClientInv'
<1>1. /\ run.at = "unit" /\ unitFile = None /\ Proceed("pid")
      /\ clientFile' = clientFile /\ unitFile' = unitFile /\ proc' = proc
  BY DEF NoUnitFile
<1>2. /\ run' \in RunStates /\ run'.task # "none" /\ run'.at = "pid" /\ said' = said
      /\ run'.unit = run.unit
  BY <1>1, ProceedOnly
<1>3. LedInv'
  BY <1>1, <1>2, ClientTypes, ProcStays DEF LedInv, MainOf
<1>4. StoppingInv'
  BY <1>1, ClientTypes, ProcStays, StillNotStopping
<1> QED
  BY <1>1, <1>2, <1>3, <1>4, ClientTypes, ProcStays, KeepsInv

\* At the start our client is the unit's, or the file's when there is no unit file.
LEMMA UnitActiveInv ==
    ASSUME ClientInv, NEW p \in ClientPids, UnitActive(p)
    PROVE  ClientInv'
<1>1. /\ run.at = "unit" /\ p \in MainOf(unitFile)
      /\ unitFile' = unitFile /\ proc' = proc
  BY DEF UnitActive
<1>2. /\ Ours' = Ours /\ Remains(proc, proc') /\ ProcTable(proc') /\ StoppingInv'
      /\ unitFile # None
      /\ \A q \in Ours : proc[q].unit = unitFile
  BY <1>1, ClientTypes, ProcStays, StillNotStopping, UnitsProcess DEF LedInv, MainOf
<1>3. CASE IsStop
  <2>1. Proceed("unit stop") /\ clientFile' = clientFile
    BY <1>3 DEF UnitActive
  <2>2. /\ run' \in RunStates /\ run'.task # "none" /\ run'.at = "unit stop" /\ said' = said
        /\ run'.unit = run.unit
    BY <1>1, <2>1, ProceedOnly
  <2>3. LedInv'
    BY <1>1, <1>2, <2>2, ClientTypes DEF LedInv, MainOf
  <2> QED
    BY <1>1, <1>2, <2>1, <2>2, <2>3, ClientTypes, KeepsInv
<1>4. CASE ~IsStop
  <2>1. /\ clientFile' \in {p, clientFile}
        /\ \E what \in {"already", "running"} : Answer(what)
    BY <1>4 DEF UnitActive
  <2> QED
    BY <1>1, <1>2, <2>1, ClientTypes, AnswerInv
<1> QED
  BY <1>3, <1>4

LEMMA UnitInactiveInv ==
    ASSUME ClientInv, UnitInactive
    PROVE  ClientInv'
<1>1. /\ run.at = "unit" /\ unitFile # None /\ Proceed("pid")
      /\ \A p \in MainOf(unitFile) : proc[p].stopping
      /\ proc' = proc
      /\ clientFile' \in {clientFile, None} /\ unitFile' \in {unitFile, None}
  BY DEF UnitInactive
<1>2. /\ run' \in RunStates /\ run'.task # "none" /\ run'.at = "pid" /\ said' = said
      /\ run'.unit = run.unit
  BY <1>1, ProceedOnly
<1>3. Ours = {}
  BY <1>1, ClientTypes DEF LedInv, StoppingInv, Ours
<1>4. Ours' = {}
  BY <1>1, <1>3, ProcStays
<1>5. LedInv'
  BY <1>1, <1>2, <1>4, ClientTypes DEF LedInv
<1>6. StoppingInv'
  BY <1>1, ClientTypes, ProcStays, StillNotStopping
<1> QED
  BY <1>1, <1>2, <1>5, <1>6, ClientTypes, ProcStays, KeepsInv

LEMMA UnitUnknownInv ==
    ASSUME ClientInv, NEW present \in BOOLEAN, UnitUnknown(present)
    PROVE  ClientInv'
<1>1. /\ run.at = "unit" /\ unitFile # None /\ Proceed("pid")
      /\ proc' = Lose(MainOf(unitFile))
      /\ clientFile' \in {clientFile, None} /\ unitFile' \in {unitFile, None}
  BY DEF UnitUnknown
<1>2. /\ run' \in RunStates /\ run'.task # "none" /\ run'.at = "pid" /\ said' = said
      /\ run'.unit = run.unit
  BY <1>1, ProceedOnly
<1>3. /\ ProcTable(proc') /\ Remains(proc, proc')
      /\ \A p \in Ours' : p \notin MainOf(unitFile)
  BY <1>1, ClientTypes, UnitsProcess, LoseFacts
<1>4. Ours' = {}
  BY <1>1, <1>3, ClientTypes, OursRemain DEF LedInv
<1>5. LedInv'
  BY <1>1, <1>2, <1>4, ClientTypes DEF LedInv
<1>6. StoppingInv'
  BY <1>1, <1>3, ClientTypes, StillNotStopping
<1> QED
  BY <1>1, <1>2, <1>3, <1>5, <1>6, ClientTypes, KeepsInv

\* The number in client.pid is our client's, if it has one at all.
LEMMA PidRunsInv ==
    ASSUME ClientInv, PidRuns
    PROVE  ClientInv'
<1>1. /\ run.at = "pid" /\ Alive(clientFile)
      /\ clientFile' = clientFile /\ unitFile' = unitFile /\ proc' = proc
  BY DEF PidRuns
<1>2. /\ Ours' = Ours /\ Remains(proc, proc') /\ ProcTable(proc') /\ StoppingInv'
  BY <1>1, ClientTypes, ProcStays, StillNotStopping
<1>3. run.task \in {"start", "status", "stop", "force"}
  BY <1>1, ClientTypes
<1>4. CASE IsStop
  <2>1. run' = [run EXCEPT !.at = "signal", !.pid = clientFile] /\ said' = said
    BY <1>4 DEF PidRuns, IsStop
  <2>2. /\ run \in RunStates /\ run.task # "none" /\ clientFile \in ClientPids \cup {None}
    BY <1>3, ClientTypes
  <2>3. /\ run' \in RunStates /\ run'.task # "none" /\ run'.at = "signal"
        /\ run'.pid = clientFile
    BY <2>1, <2>2 DEF RunStates
  <2>4. LedInv'
    BY <1>1, <1>2, <2>3, ClientTypes DEF LedInv, MainOf
  <2> QED
    BY <1>1, <1>2, <2>1, <2>3, <2>4, ClientTypes, KeepsInv
<1>5. CASE ~IsStop
  <2>1. \E what \in {"already", "running"} : Answer(what)
    BY <1>3, <1>5 DEF PidRuns, IsStop
  <2>2. /\ unitFile # None => \A p \in Ours : proc[p].unit = unitFile
        /\ unitFile = None => Ours \subseteq {clientFile}
    BY <1>1, ClientTypes DEF LedInv, MainOf
  <2> QED
    BY <1>1, <1>2, <2>1, <2>2, ClientTypes, AnswerInv
<1> QED
  BY <1>4, <1>5

\* A number that stands for nothing is not our client's.
LEMMA PidStaleInv ==
    ASSUME ClientInv, PidStale
    PROVE  ClientInv'
<1>1. /\ run.at = "pid" /\ ~Alive(clientFile) /\ clientFile' = None /\ Proceed("find")
      /\ unitFile' = unitFile /\ proc' = proc
  BY DEF PidStale
<1>2. /\ run' \in RunStates /\ run'.task # "none" /\ run'.at = "find" /\ said' = said
      /\ run'.unit = run.unit
  BY <1>1, ProceedOnly
<1>3. /\ Ours' = Ours /\ Remains(proc, proc') /\ ProcTable(proc') /\ StoppingInv'
  BY <1>1, ClientTypes, ProcStays, StillNotStopping
<1>4. Ours = {}
  BY <1>1, ClientTypes DEF LedInv, Alive, Ours
<1>5. LedInv'
  BY <1>1, <1>2, <1>3, <1>4, ClientTypes DEF LedInv
<1> QED
  BY <1>1, <1>2, <1>3, <1>5, ClientTypes, KeepsInv

LEMMA FindsInv ==
    ASSUME ClientInv, NEW p \in ClientPids, Finds(p)
    PROVE  ClientInv'
<1>1. /\ run.at = "find"
      /\ clientFile' = clientFile /\ unitFile' = unitFile /\ proc' = proc
  BY DEF Finds
<1>2. /\ Ours' = {} /\ Remains(proc, proc') /\ ProcTable(proc') /\ StoppingInv'
  BY <1>1, ClientTypes, ProcStays, StillNotStopping DEF LedInv
<1>3. run.task \in {"start", "status", "stop", "force"}
  BY <1>1, ClientTypes
<1>4. CASE IsStop
  <2>1. run' = [run EXCEPT !.at = "signal", !.pid = p] /\ said' = said
    BY <1>4 DEF Finds, IsStop
  <2>2. run \in RunStates /\ run.task # "none"
    BY <1>3, ClientTypes
  <2>3. run' \in RunStates /\ run'.task # "none" /\ run'.at = "signal"
    BY <2>1, <2>2 DEF RunStates
  <2>4. LedInv'
    BY <1>2, <2>3 DEF LedInv
  <2> QED
    BY <1>1, <1>2, <2>1, <2>3, <2>4, ClientTypes, KeepsInv
<1>5. CASE ~IsStop
  <2>1. \E what \in {"already", "running"} : Answer(what)
    BY <1>3, <1>5 DEF Finds, IsStop
  <2> QED
    BY <1>1, <1>2, <2>1, ClientTypes, AnswerInv
<1> QED
  BY <1>4, <1>5

LEMMA FindsNoneInv ==
    ASSUME ClientInv, FindsNone
    PROVE  ClientInv'
<1>1. run.at = "find" /\ clientFile' = clientFile /\ proc' = proc
  BY DEF FindsNone
<1>2. /\ Ours = {} /\ Ours' = {}
      /\ Remains(proc, proc') /\ ProcTable(proc') /\ StoppingInv'
  BY <1>1, ClientTypes, ProcStays, StillNotStopping DEF LedInv
<1>3. run.task \in {"start", "status", "stop", "force"}
  BY <1>1, ClientTypes
<1>4. CASE run.task = "start"
  <2>1. unitFile' = None /\ Proceed("launch")
    BY <1>4 DEF FindsNone, IsStop
  <2>2. /\ run' \in RunStates /\ run'.task # "none" /\ run'.at = "launch" /\ said' = said
        /\ run'.unit = run.unit
    BY <1>1, <2>1, ProceedOnly
  <2>3. LedInv'
    BY <1>1, <1>2, <2>1, <2>2, ClientTypes DEF LedInv
  <2> QED
    BY <1>1, <1>2, <2>1, <2>2, <2>3, ClientTypes, KeepsInv
<1>5. CASE run.task # "start"
  <2>1. /\ unitFile' = unitFile
        /\ \E what \in {"not running", "absent"} : Answer(what)
    BY <1>3, <1>5 DEF FindsNone, IsStop
  <2> QED
    BY <1>1, <1>2, <2>1, ClientTypes, AnswerInv
<1> QED
  BY <1>4, <1>5

\* A launch: until now there was no client of ours.
LEMMA LaunchedInv ==
    ASSUME ClientInv, NEW p \in ClientPids, NEW r,
           r \in [is : Kinds, unit : Units \cup {None}, stopping : BOOLEAN, lost : BOOLEAN],
           r.is # "free", ~r.stopping,
           r.unit # None => MainOf(r.unit) = {},
           proc' = [proc EXCEPT ![p] = r],
           Ours = {},
           clientFile' = clientFile, unitFile' = unitFile, unitFile = None, said' = said,
           run' \in RunStates, run'.task # "none",
           \/ run'.at = "unit pid" /\ run'.unit = r.unit /\ r.unit # None
           \/ run'.at = "wait" /\ run'.unit = None /\ run'.pid = p,
           run.at # "unit stop"
    PROVE  ClientInv'
<1>1. /\ proc'[p] = r
      /\ \A q \in ClientPids : q # p => proc'[q] = proc[q]
      /\ Ours' \subseteq {p}
  BY DEF ClientInv, ProcTable, Ours
<1>2. ProcTable(proc')
  BY <1>1 DEF ClientInv, ProcTable, MainOf
<1>3. StoppingInv'
  BY <1>1 DEF ClientInv, StoppingInv
<1>4. LedInv'
  BY <1>1 DEF LedInv, MainOf
<1>5. ClientNotDenied'
  BY DEF ClientInv, ClientNotDenied
<1>6. \A a, b \in Ours' : a = b
  BY <1>1
<1> QED
  BY <1>2, <1>3, <1>4, <1>5, <1>6 DEF ClientInv

LEMMA LaunchUnitInv ==
    ASSUME ClientInv, NEW p \in ClientPids, NEW u \in Units, LaunchUnit(p, u)
    PROVE  ClientInv'
<1> DEFINE r == [NoProc EXCEPT !.is = "launching", !.unit = u]
<1>1. /\ run.at = "launch" /\ MainOf(u) = {}
      /\ proc' = [proc EXCEPT ![p] = r]
      /\ run' = [run EXCEPT !.at = "unit pid", !.unit = u]
      /\ clientFile' = clientFile /\ unitFile' = unitFile /\ said' = said
  BY DEF LaunchUnit
<1>2. /\ r \in [is : Kinds, unit : Units \cup {None}, stopping : BOOLEAN, lost : BOOLEAN]
      /\ r.is # "free" /\ ~r.stopping /\ r.unit = u
  BY DEF NoProc, Kinds
<1>3. run \in RunStates /\ run.task # "none"
  BY <1>1 DEF ClientInv
<1>4. run' \in RunStates /\ run'.task # "none" /\ run'.at = "unit pid" /\ run'.unit = u
  BY <1>1, <1>3 DEF RunStates
<1>5. u # None
  BY ClientAssumption
<1>6. Ours = {} /\ unitFile = None
  BY <1>1, ClientTypes DEF LedInv
<1> HIDE DEF r
<1> QED
  BY <1>1, <1>2, <1>4, <1>5, <1>6, LaunchedInv

LEMMA ForksInv ==
    ASSUME ClientInv, NEW p \in ClientPids, Forks(p)
    PROVE  ClientInv'
<1> DEFINE r == [NoProc EXCEPT !.is = "forked"]
<1>1. /\ run.at = "direct"
      /\ proc' = [proc EXCEPT ![p] = r]
      /\ run' = [run EXCEPT !.at = "wait", !.pid = p]
      /\ clientFile' = clientFile /\ unitFile' = unitFile /\ said' = said
  BY DEF Forks
<1>2. /\ r \in [is : Kinds, unit : Units \cup {None}, stopping : BOOLEAN, lost : BOOLEAN]
      /\ r.is # "free" /\ ~r.stopping /\ r.unit = None
  BY DEF NoProc, Kinds
<1>3. run \in RunStates /\ run.task # "none"
  BY <1>1 DEF ClientInv
<1>4. Ours = {} /\ unitFile = None /\ run.unit = None
  BY <1>1, ClientTypes DEF LedInv
<1>5. /\ run' \in RunStates /\ run'.task # "none" /\ run'.at = "wait" /\ run'.unit = None
      /\ run'.pid = p
  BY <1>1, <1>3, <1>4 DEF RunStates
<1> HIDE DEF r
<1> QED
  BY <1>1, <1>2, <1>4, <1>5, LaunchedInv

LEMMA LaunchNoUnitInv ==
    ASSUME ClientInv, NEW forced \in BOOLEAN, LaunchNoUnit(forced)
    PROVE  ClientInv'
<1>1. /\ run.at = "launch"
      /\ clientFile' = clientFile /\ unitFile' = unitFile /\ proc' = proc
  BY DEF LaunchNoUnit
<1>2. /\ Ours = {} /\ Ours' = {} /\ unitFile = None
      /\ Remains(proc, proc') /\ ProcTable(proc') /\ StoppingInv'
  BY <1>1, ClientTypes, ProcStays, StillNotStopping DEF LedInv
<1>3. CASE forced
  <2>1. Answer("failed")
    BY <1>3 DEF LaunchNoUnit
  <2> QED
    BY <1>1, <1>2, <2>1, ClientTypes, AnswerInv
<1>4. CASE ~forced
  <2>1. Proceed("direct")
    BY <1>4 DEF LaunchNoUnit
  <2>2. /\ run' \in RunStates /\ run'.task # "none" /\ run'.at = "direct" /\ said' = said
        /\ run'.unit = run.unit
    BY <1>1, <2>1, ProceedOnly
  <2>3. LedInv'
    BY <1>1, <1>2, <2>2, ClientTypes DEF LedInv
  <2> QED
    BY <1>1, <1>2, <2>1, <2>2, <2>3, ClientTypes, KeepsInv
<1> QED
  BY <1>3, <1>4

LEMMA UnitReportsInv ==
    ASSUME ClientInv, NEW p \in ClientPids, UnitReports(p)
    PROVE  ClientInv'
<1>1. /\ run.at = "unit pid"
      /\ run' = [run EXCEPT !.at = "unit file", !.pid = p]
      /\ clientFile' = clientFile /\ unitFile' = unitFile /\ proc' = proc /\ said' = said
  BY DEF UnitReports
<1>2. run \in RunStates /\ run.task # "none"
  BY <1>1 DEF ClientInv
<1>3. /\ run' \in RunStates /\ run'.task # "none" /\ run'.at = "unit file"
      /\ run'.unit = run.unit
  BY <1>1, <1>2 DEF RunStates
<1>4. /\ Ours' = Ours /\ Remains(proc, proc') /\ ProcTable(proc') /\ StoppingInv'
  BY <1>1, ClientTypes, ProcStays, StillNotStopping
<1>5. LedInv'
  BY <1>1, <1>3, <1>4, ClientTypes DEF LedInv, MainOf
<1> QED
  BY <1>1, <1>3, <1>4, <1>5, ClientTypes, KeepsInv

LEMMA UnitAbandonedInv ==
    ASSUME ClientInv, NEW stopped \in BOOLEAN, NEW forced \in BOOLEAN,
           UnitAbandoned(stopped, forced)
    PROVE  ClientInv'
<1>1. /\ run.at \in {"unit pid", "unit file"}
      /\ proc' = AfterUnitStop(run.unit, stopped)
      /\ clientFile' = clientFile /\ unitFile' = unitFile
  BY DEF UnitAbandoned
<1>2. /\ Remains(proc, proc') /\ ProcTable(proc') /\ StoppingInv'
      /\ \A p \in Ours' : p \notin MainOf(run.unit)
  BY <1>1, ClientTypes, AfterUnitStopFacts, StillNotStopping
<1>3. Ours' = {} /\ unitFile = None
  BY <1>1, <1>2, ClientTypes, OursRemain DEF LedInv
<1>4. CASE forced
  <2>1. Answer("failed")
    BY <1>4 DEF UnitAbandoned
  <2> QED
    BY <1>1, <1>2, <1>3, <2>1, ClientTypes, AnswerInv
<1>5. CASE ~forced
  <2>1. /\ run' = [run EXCEPT !.at = "direct", !.pid = None, !.unit = None]
        /\ said' = said
    BY <1>5 DEF UnitAbandoned
  <2>2. /\ run' \in RunStates /\ run'.task # "none" /\ run'.at = "direct"
        /\ run'.unit = None
    BY <1>1, <2>1, ProceedFacts
  <2>3. LedInv'
    BY <1>1, <1>3, <2>2 DEF LedInv
  <2> QED
    BY <1>1, <1>2, <2>1, <2>2, <2>3, ClientTypes, KeepsInv
<1> QED
  BY <1>4, <1>5

LEMMA UnitRecordedInv ==
    ASSUME ClientInv, UnitRecorded
    PROVE  ClientInv'
<1>1. /\ run.at = "unit file" /\ unitFile' = run.unit /\ Proceed("record")
      /\ clientFile' = clientFile /\ proc' = proc
  BY DEF UnitRecorded
<1>2. /\ run' \in RunStates /\ run'.task # "none" /\ run'.at = "record" /\ said' = said
      /\ run'.unit = run.unit
  BY <1>1, ProceedOnly
<1>3. /\ Ours' = Ours /\ Remains(proc, proc') /\ ProcTable(proc') /\ StoppingInv'
  BY <1>1, ClientTypes, ProcStays, StillNotStopping
<1>4. LedInv'
  BY <1>1, <1>2, <1>3, ClientTypes DEF LedInv, MainOf
<1> QED
  BY <1>1, <1>2, <1>3, <1>4, ClientTypes, KeepsInv

LEMMA DirectFailsInv ==
    ASSUME ClientInv, DirectFails
    PROVE  ClientInv'
<1>1. /\ run.at \in {"direct", "wait"} /\ Answer("failed")
      /\ clientFile' = clientFile /\ unitFile' = unitFile
  BY DEF DirectFails
<1>2. CASE run.at = "direct"
  <2>1. proc' = proc
    BY <1>2 DEF DirectFails
  <2>2. /\ Ours' = {} /\ unitFile = None
        /\ Remains(proc, proc') /\ ProcTable(proc') /\ StoppingInv'
    BY <1>2, <2>1, ClientTypes, ProcStays, StillNotStopping DEF LedInv
  <2> QED
    BY <1>1, <2>2, ClientTypes, AnswerInv
<1>3. CASE run.at = "wait"
  <2>1. proc' = [proc EXCEPT ![run.pid] = NoProc]
    BY <1>3 DEF DirectFails
  <2>2. /\ Remains(proc, proc') /\ ProcTable(proc') /\ \A q \in Ours' : q # run.pid
    BY <2>1, ClientTypes, OneEnds
  <2>3. Ours' = {} /\ unitFile = None
    BY <1>3, <2>2, ClientTypes, OursRemain DEF LedInv
  <2>4. StoppingInv'
    BY <1>3, <2>2, ClientTypes, StillNotStopping
  <2> QED
    BY <1>1, <2>2, <2>3, <2>4, ClientTypes, AnswerInv
<1> QED
  BY <1>1, <1>2, <1>3

LEMMA PipeClosesInv ==
    ASSUME ClientInv, PipeCloses
    PROVE  ClientInv'
<1>1. /\ run.at = "wait" /\ Proceed("record")
      /\ clientFile' = clientFile /\ unitFile' = unitFile /\ proc' = proc
  BY DEF PipeCloses
<1>2. /\ run' \in RunStates /\ run'.task # "none" /\ run'.at = "record" /\ said' = said
      /\ run'.unit = run.unit /\ run'.pid = run.pid
  BY <1>1, ProceedOnly
<1>3. /\ Ours' = Ours /\ Remains(proc, proc') /\ ProcTable(proc') /\ StoppingInv'
  BY <1>1, ClientTypes, ProcStays, StillNotStopping
<1>4. LedInv'
  BY <1>1, <1>2, <1>3, ClientTypes DEF LedInv, MainOf
<1> QED
  BY <1>1, <1>2, <1>3, <1>4, ClientTypes, KeepsInv

LEMMA ClientRecordedInv ==
    ASSUME ClientInv, ClientRecorded
    PROVE  ClientInv'
<1>1. /\ run.at = "record" /\ clientFile' = run.pid /\ Answer("started")
      /\ unitFile' = unitFile /\ proc' = proc
  BY DEF ClientRecorded
<1>2. /\ Ours' = Ours /\ Remains(proc, proc') /\ ProcTable(proc') /\ StoppingInv'
  BY <1>1, ClientTypes, ProcStays, StillNotStopping
<1>3. /\ unitFile # None => \A p \in Ours : proc[p].unit = unitFile
      /\ unitFile = None => Ours \subseteq {run.pid}
  BY <1>1, ClientTypes DEF LedInv, MainOf
<1> QED
  BY <1>1, <1>2, <1>3, ClientTypes, AnswerInv

\* Without its files the new client is ended, or left to itself.
LEMMA RecordImpossibleInv ==
    ASSUME ClientInv, NEW stopped \in BOOLEAN, RecordImpossible(stopped)
    PROVE  ClientInv'
<1>1. /\ run.at = "record" /\ unitFile' = None /\ Answer("failed")
      /\ clientFile' = clientFile
      /\ proc' = IF run.unit # None THEN AfterUnitStop(run.unit, stopped)
                 ELSE Lose(Ours \cap {run.pid})
  BY DEF RecordImpossible
<1>2. Remains(proc, proc') /\ ProcTable(proc') /\ Ours' = {}
  <2>1. CASE run.unit # None
    <3>1. /\ Remains(proc, proc') /\ ProcTable(proc')
          /\ \A p \in Ours' : p \notin MainOf(run.unit)
      BY <1>1, <2>1, ClientTypes, AfterUnitStopFacts
    <3> QED
      BY <1>1, <2>1, <3>1, ClientTypes, OursRemain DEF LedInv
  <2>2. CASE run.unit = None
    <3>1. \A p \in Ours \cap {run.pid} : p \in ClientPids /\ proc[p].is # "free"
      BY DEF Ours
    <3>2. /\ Remains(proc, proc') /\ ProcTable(proc')
          /\ \A p \in Ours' : p \notin Ours \cap {run.pid}
      BY <1>1, <2>2, <3>1, ClientTypes, LoseFacts
    <3> QED
      BY <1>1, <2>2, <3>2, ClientTypes, OursRemain DEF LedInv
  <2> QED
    BY <2>1, <2>2
<1>3. StoppingInv'
  BY <1>1, <1>2, ClientTypes, StillNotStopping
<1> QED
  BY <1>1, <1>2, <1>3, ClientTypes, AnswerInv

\* The command signals its unit: the one step that lets a unit of ours stop.
LEMMA UnitStopBeginsInv ==
    ASSUME ClientInv, UnitStopBegins
    PROVE  ClientInv'
<1>1. PICK p \in MainOf(unitFile) :
         ~proc[p].stopping /\ proc' = [proc EXCEPT ![p].stopping = TRUE]
  BY DEF UnitStopBegins
<1>2. /\ run.at = "unit stop" /\ run' = run /\ said' = said
      /\ clientFile' = clientFile /\ unitFile' = unitFile
  BY DEF UnitStopBegins
<1> DEFINE r == [proc[p] EXCEPT !.stopping = TRUE]
<1>3. /\ p \in ClientPids /\ unitFile # None /\ proc[p].unit = unitFile
      /\ proc[p].is # "free"
      /\ proc[p] \in [is : Kinds, unit : Units \cup {None}, stopping : BOOLEAN, lost : BOOLEAN]
  BY <1>1, ClientTypes, UnitsProcess DEF ProcTable
<1>4. /\ r \in [is : Kinds, unit : Units \cup {None}, stopping : BOOLEAN, lost : BOOLEAN]
      /\ r.is = proc[p].is /\ r.unit = proc[p].unit /\ r.lost = proc[p].lost
  BY <1>3
<1>5. proc' = [proc EXCEPT ![p] = r]
  BY <1>1
<1> HIDE DEF r
<1>6. /\ proc'[p] = r
      /\ \A q \in ClientPids : q # p => proc'[q] = proc[q]
  BY <1>3, <1>5, ClientTypes DEF ProcTable
<1>7. ProcTable(proc')
  BY <1>3, <1>4, <1>5, <1>6, ClientTypes DEF ProcTable
<1>8. Ours' = Ours /\ \A q \in ClientPids : proc'[q].unit = proc[q].unit
  BY <1>3, <1>4, <1>6 DEF Ours
<1>9. LedInv'
  BY <1>2, <1>8, ClientTypes DEF LedInv, MainOf
<1>10. StoppingInv'
  BY <1>2, <1>3, <1>4, <1>6, <1>8, ClientTypes DEF StoppingInv, MainOf
<1> QED
  BY <1>2, <1>7, <1>8, <1>9, <1>10 DEF ClientInv, ClientNotDenied

LEMMA UnitStoppedInv ==
    ASSUME ClientInv, UnitStopped
    PROVE  ClientInv'
<1>1. /\ run.at = "unit stop" /\ MainOf(unitFile) = {} /\ Answer("stopped")
      /\ clientFile' = None /\ unitFile' = None /\ proc' = proc
  BY DEF UnitStopped
<1>2. Ours = {} /\ Ours' = {} /\ Remains(proc, proc') /\ ProcTable(proc')
  BY <1>1, ClientTypes, ProcStays DEF LedInv
<1>3. StoppingInv'
  BY <1>1, ClientTypes DEF StoppingInv
<1> QED
  BY <1>1, <1>2, <1>3, ClientTypes, AnswerInv

LEMMA UnitStopFailsInv ==
    ASSUME ClientInv, UnitStopFails
    PROVE  ClientInv'
<1>1. /\ run.at = "unit stop" /\ proc' = Lose(MainOf(unitFile)) /\ Proceed("pid")
      /\ clientFile' = clientFile /\ unitFile' = unitFile
  BY DEF UnitStopFails
<1>2. /\ run' \in RunStates /\ run'.task # "none" /\ run'.at = "pid" /\ said' = said
      /\ run'.unit = run.unit
  BY <1>1, ProceedOnly
<1>3. /\ ProcTable(proc') /\ Remains(proc, proc')
      /\ \A p \in Ours' : p \notin MainOf(unitFile)
      /\ \A p \in MainOf(unitFile) : proc'[p].lost
  BY <1>1, ClientTypes, UnitsProcess, LoseFacts
<1>4. Ours' = {}
  BY <1>1, <1>3, ClientTypes, OursRemain DEF LedInv
<1>5. LedInv'
  BY <1>1, <1>2, <1>4, ClientTypes DEF LedInv
<1>6. StoppingInv'
  BY <1>3, ClientTypes DEF StoppingInv, Remains
<1> QED
  BY <1>1, <1>2, <1>3, <1>5, <1>6, ClientTypes, KeepsInv

LEMMA ClientSignalledInv ==
    ASSUME ClientInv, ClientSignalled
    PROVE  ClientInv'
<1>1. /\ run.at = "signal" /\ Proceed("wait end")
      /\ clientFile' = clientFile /\ unitFile' = unitFile /\ proc' = proc
  BY DEF ClientSignalled
<1>2. /\ run' \in RunStates /\ run'.task # "none" /\ run'.at = "wait end" /\ said' = said
      /\ run'.pid = run.pid
  BY <1>1, ProceedOnly
<1>3. /\ Ours' = Ours /\ Remains(proc, proc') /\ ProcTable(proc') /\ StoppingInv'
  BY <1>1, ClientTypes, ProcStays, StillNotStopping
<1>4. LedInv'
  BY <1>1, <1>2, <1>3, ClientTypes DEF LedInv, MainOf
<1> QED
  BY <1>1, <1>2, <1>3, <1>4, ClientTypes, KeepsInv

\* What a command at the signal, or waiting for the end, leaves behind.
LEMMA StopEndsInv ==
    ASSUME ClientInv, run.at \in {"signal", "wait end"}, proc' = proc, unitFile' = unitFile,
           \/ clientFile' = None /\ ~Alive(run.pid) /\ (Answer("absent") \/ Answer("stopped"))
           \/ clientFile' = clientFile /\ (Answer("failed") \/ Answer("timeout"))
    PROVE  ClientInv'
<1>1. /\ Ours' = Ours /\ Remains(proc, proc') /\ ProcTable(proc') /\ StoppingInv'
  BY ClientTypes, ProcStays, StillNotStopping
<1>2. /\ unitFile # None => \A p \in Ours : proc[p].unit = unitFile
      /\ unitFile = None => Ours \subseteq {clientFile}
      /\ Ours \subseteq {run.pid}
  BY ClientTypes DEF LedInv, MainOf
<1>3. ~Alive(run.pid) => Ours = {}
  BY <1>2 DEF Alive, Ours
<1> QED
  BY <1>1, <1>2, <1>3, ClientTypes, AnswerInv

LEMMA ForceKillsInv ==
    ASSUME ClientInv, ForceKills
    PROVE  ClientInv'
<1>1. /\ run.at = "wait end" /\ proc' = [proc EXCEPT ![run.pid] = NoProc]
      /\ clientFile' = clientFile /\ unitFile' = unitFile /\ run' = run /\ said' = said
  BY DEF ForceKills
<1>2. Remains(proc, proc') /\ ProcTable(proc') /\ \A q \in Ours' : q # run.pid
  BY <1>1, ClientTypes, OneEnds
<1>3. Ours' = {}
  BY <1>1, <1>2, ClientTypes, OursRemain DEF LedInv
<1>4. LedInv'
  BY <1>1, <1>3, ClientTypes DEF LedInv
<1>5. StoppingInv'
  BY <1>1, <1>2, ClientTypes, StillNotStopping
<1> QED
  BY <1>1, <1>2, <1>4, <1>5, ClientTypes, KeepsInv DEF ClientInv

\* A command that is killed leaves to itself a client no file leads to.
LEMMA RunKilledInv ==
    ASSUME ClientInv, RunKilled
    PROVE  ClientInv'
<1>1. /\ run.at # "idle" /\ run' = NoRun
      /\ said' = [what |-> "nothing", client |-> FALSE]
      /\ clientFile' = clientFile /\ unitFile' = unitFile
  BY DEF RunKilled
<1>2. PICK ps : /\ proc' = Lose(ps)
                /\ run.at \in {"unit pid", "unit file"} => ps = MainOf(run.unit)
                /\ run.at \in {"wait", "record"} /\ run.unit = None => ps = Ours \cap {run.pid}
                /\ run.at = "unit stop" => ps = MainOf(unitFile)
                /\ \/ run.at \in {"unit pid", "unit file", "unit stop"}
                   \/ run.at \in {"wait", "record"} /\ run.unit = None
                   \/ ps = {}
  BY DEF RunKilled
<1>3. \A p \in ps : p \in ClientPids /\ proc[p].is # "free"
  <2>1. \A p \in MainOf(run.unit) \cup MainOf(unitFile) :
           p \in ClientPids /\ proc[p].is # "free"
    BY ClientTypes, UnitsProcess
  <2>2. \A p \in Ours : p \in ClientPids /\ proc[p].is # "free"
    BY DEF Ours
  <2>3. \/ ps = MainOf(run.unit) \/ ps = MainOf(unitFile) \/ ps = Ours \cap {run.pid}
        \/ ps = {}
    BY <1>2
  <2>4. \A p \in ps : \/ p \in MainOf(run.unit) \cup MainOf(unitFile)
                       \/ p \in Ours
    BY <2>3
  <2> QED
    BY <2>1, <2>2, <2>4
<1>4. /\ ProcTable(proc') /\ Remains(proc, proc')
      /\ \A p \in Ours' : p \notin ps
      /\ \A p \in ps : proc'[p].lost
  BY <1>2, <1>3, ClientTypes, LoseFacts
<1>5. /\ Ours' \subseteq Ours
      /\ \A p \in Ours' : proc'[p].unit = proc[p].unit
  BY <1>4, OursRemain
<1>6. /\ unitFile # None => \A p \in Ours' : proc'[p].unit = unitFile
      /\ unitFile = None => Ours' \subseteq {clientFile}
  <2>1. CASE run.at \in {"unit pid", "unit file", "unit stop"}
    BY <1>2, <1>4, <1>5, <2>1, ClientTypes DEF LedInv
  <2>2. CASE run.at \in {"wait", "record"} /\ run.unit = None
    BY <1>2, <1>4, <1>5, <2>2, ClientTypes DEF LedInv
  <2>3. CASE run.at \in {"unit", "pid", "find", "launch", "direct", "signal", "wait end"}
    BY <1>5, <2>3, ClientTypes DEF LedInv, MainOf
  <2>4. CASE run.at = "record" /\ run.unit # None
    BY <1>5, <2>4, ClientTypes DEF LedInv, MainOf
  <2>5. run.at = "wait" => run.unit = None
    BY ClientTypes DEF LedInv
  <2>6. run.at \in {"unit", "unit stop", "pid", "find", "launch", "unit pid", "unit file",
                    "direct", "wait", "record", "signal", "wait end"}
    BY <1>1, ClientTypes DEF RunStates
  <2> QED
    BY <2>1, <2>2, <2>3, <2>4, <2>5, <2>6
<1>7. StoppingInv'
  BY <1>2, <1>4, ClientTypes DEF StoppingInv, Remains
<1>8. run' \in RunStates /\ run'.at = "idle"
  BY <1>1 DEF RunStates, NoRun
<1>9. LedInv'
  BY <1>1, <1>6, <1>8 DEF LedInv, MainOf, Ours
<1>10. said' \in SaidStates /\ ClientNotDenied'
  BY <1>1 DEF SaidStates, ClientNotDenied
<1>11. \A p, q \in Ours' : p = q
  BY <1>5 DEF ClientInv
<1> QED
  BY <1>1, <1>4, <1>7, <1>8, <1>9, <1>10, <1>11, ClientTypes DEF ClientInv

\* What happens by itself: a client of ours may end or grow up, none appears.
LEMMA ByItselfInv ==
    ASSUME ClientInv, Remains(proc, proc'), ProcTable(proc'),
           clientFile' = clientFile, unitFile' = unitFile, run' = run, said' = said
    PROVE  ClientInv'
<1>1. Ours' \subseteq Ours /\ \A p \in Ours' : proc'[p].unit = proc[p].unit
  BY OursRemain
<1>2. LedInv'
  BY <1>1, ClientTypes DEF LedInv, MainOf, Ours
<1>3. StoppingInv'
  BY ClientTypes DEF StoppingInv, Remains, MainOf
<1> QED
  BY <1>2, <1>3, ClientTypes, KeepsInv DEF ClientInv

\* A process that becomes another thing, but no new client of ours.
LEMMA BecomesFacts ==
    ASSUME ProcTable(proc), NEW p \in ClientPids, NEW kind \in Kinds \ {"free"},
           kind \in {"forked", "launching", "client"} =>
              proc[p].is \in {"forked", "launching", "client"},
           proc' = [proc EXCEPT ![p].is = kind]
    PROVE  Remains(proc, proc') /\ ProcTable(proc')
<1> DEFINE r == [proc[p] EXCEPT !.is = kind]
<1>1. proc[p] \in [is : Kinds, unit : Units \cup {None}, stopping : BOOLEAN, lost : BOOLEAN]
  BY DEF ProcTable
<1>2. /\ r \in [is : Kinds, unit : Units \cup {None}, stopping : BOOLEAN, lost : BOOLEAN]
      /\ r.is = kind /\ r.unit = proc[p].unit /\ r.stopping = proc[p].stopping
      /\ r.lost = proc[p].lost
  BY <1>1
<1>3. proc' = [proc EXCEPT ![p] = r]
  OBVIOUS
<1> HIDE DEF r
<1>4. /\ proc'[p] = r
      /\ \A q \in ClientPids : q # p => proc'[q] = proc[q]
      /\ \A q \in ClientPids : proc'[q].unit = proc[q].unit
  BY <1>2, <1>3 DEF ProcTable
<1>5. ProcTable(proc')
  BY <1>2, <1>3, <1>4 DEF ProcTable
<1>6. Remains(proc, proc')
  BY <1>2, <1>4 DEF Remains
<1> QED
  BY <1>5, <1>6

LEMMA ClientInitInv == ClientInit => ClientInv
<1> SUFFICES ASSUME ClientInit PROVE ClientInv
  OBVIOUS
<1>1. /\ run \in RunStates /\ run.at = "idle"
      /\ said \in SaidStates /\ said.what = "nothing"
  BY DEF ClientInit, NoRun, RunStates, SaidStates
<1>2. ProcTable(proc) /\ Ours = {}
  BY NoProcFacts DEF ClientInit, ProcTable, Ours
<1>3. LedInv /\ StoppingInv /\ ClientNotDenied
  BY <1>1, <1>2, NoProcFacts DEF ClientInit, LedInv, StoppingInv, ClientNotDenied
<1> QED
  BY <1>1, <1>2, <1>3 DEF ClientInit, ClientInv

LEMMA ClientNextInv == ClientInv /\ [ClientNext]_clientVars => ClientInv'
<1> SUFFICES ASSUME ClientInv, [ClientNext]_clientVars PROVE ClientInv'
  OBVIOUS
<1>1. ASSUME NEW task \in {"start", "status", "stop", "force"}, ClientBegins(task)
      PROVE  ClientInv'
  BY <1>1, ClientBeginsInv
<1>2. ASSUME NoUnitFile \/ UnitInactive \/ PidRuns \/ PidStale \/ FindsNone
      PROVE  ClientInv'
  BY <1>2, NoUnitFileInv, UnitInactiveInv, PidRunsInv, PidStaleInv, FindsNoneInv
<1>3. ASSUME NEW p \in ClientPids,
             UnitActive(p) \/ Finds(p) \/ UnitReports(p) \/ Forks(p)
      PROVE  ClientInv'
  BY <1>3, UnitActiveInv, FindsInv, UnitReportsInv, ForksInv
<1>4. ASSUME NEW present \in BOOLEAN, UnitUnknown(present)
      PROVE  ClientInv'
  BY <1>4, UnitUnknownInv
<1>5. ASSUME NEW p \in ClientPids, NEW u \in Units, LaunchUnit(p, u)
      PROVE  ClientInv'
  BY <1>5, LaunchUnitInv
<1>6. ASSUME NEW forced \in BOOLEAN, LaunchNoUnit(forced)
      PROVE  ClientInv'
  BY <1>6, LaunchNoUnitInv
<1>7. ASSUME NEW stopped \in BOOLEAN, NEW forced \in BOOLEAN, UnitAbandoned(stopped, forced)
      PROVE  ClientInv'
  BY <1>7, UnitAbandonedInv
<1>8. ASSUME UnitRecorded \/ DirectFails \/ PipeCloses \/ ClientRecorded
      PROVE  ClientInv'
  BY <1>8, UnitRecordedInv, DirectFailsInv, PipeClosesInv, ClientRecordedInv
<1>9. ASSUME NEW stopped \in BOOLEAN, RecordImpossible(stopped)
      PROVE  ClientInv'
  BY <1>9, RecordImpossibleInv
<1>10. ASSUME UnitStopBegins \/ UnitStopped \/ UnitStopFails \/ ClientSignalled
       PROVE  ClientInv'
  BY <1>10, UnitStopBeginsInv, UnitStoppedInv, UnitStopFailsInv, ClientSignalledInv
<1>11. ASSUME NotSignalled \/ ClientStopped \/ ClientStopTimesOut
       PROVE  ClientInv'
  <2>1. CASE NotSignalled
    BY <2>1, StopEndsInv DEF NotSignalled
  <2>2. CASE ClientStopped
    BY <2>2, StopEndsInv DEF ClientStopped
  <2>3. CASE ClientStopTimesOut
    BY <2>3, StopEndsInv DEF ClientStopTimesOut
  <2> QED
    BY <1>11, <2>1, <2>2, <2>3
<1>12. ASSUME ForceKills \/ RunKilled
       PROVE  ClientInv'
  BY <1>12, ForceKillsInv, RunKilledInv
<1>13. ASSUME NEW p \in ClientPids, Becomes(p)
       PROVE  ClientInv'
  <2>1. \E kind \in {"launching", "client"} :
           /\ proc[p].is \in {"forked", "launching"}
           /\ proc' = [proc EXCEPT ![p].is = kind]
    BY <1>13 DEF Becomes
  <2>2. Remains(proc, proc') /\ ProcTable(proc')
    BY <2>1, ClientTypes, BecomesFacts DEF Kinds
  <2> QED
    BY <1>13, <2>2, ByItselfInv DEF Becomes
<1>14. ASSUME NEW p \in ClientPids, Dies(p)
       PROVE  ClientInv'
  BY <1>14, ClientTypes, OneEnds, ByItselfInv DEF Dies
<1>15. ASSUME NEW p \in ClientPids, NEW kind, Appears(p, kind)
       PROVE  ClientInv'
  <2>1. Remains(proc, proc') /\ ProcTable(proc')
    BY <1>15, ClientTypes, BecomesFacts DEF Appears, Kinds
  <2> QED
    BY <1>15, <2>1, ByItselfInv DEF Appears
<1>16. CASE UNCHANGED clientVars
  <2>1. /\ clientFile' = clientFile /\ unitFile' = unitFile /\ proc' = proc /\ run' = run
        /\ said' = said
    BY <1>16 DEF clientVars
  <2> QED
    BY <2>1, ClientTypes, ProcStays, ByItselfInv
<1> QED
  BY <1>1, <1>2, <1>3, <1>4, <1>5, <1>6, <1>7, <1>8, <1>9, <1>10, <1>11, <1>12, <1>13, <1>14,
     <1>15, <1>16 DEF ClientNext

\* Theorem: what client.pid, the unit file, the process table and the command under way
\* say of the one client of ours holds in every state of the client commands.
THEOREM ClientInvHolds == ClientSpec => []ClientInv
<1>1. ClientInit => ClientInv
  BY ClientInitInv
<1>2. ClientInv /\ [ClientNext]_clientVars => ClientInv'
  BY ClientNextInv
<1> QED
  BY <1>1, <1>2, PTL DEF ClientSpec

\* Theorem: the files, the process table and the command have their types, and no unit
\* has two processes.
THEOREM ClientTypeCorrect == ClientSpec => []ClientTypeOK
<1>1. ClientInv => ClientTypeOK
  <2> SUFFICES ASSUME ClientInv PROVE ClientTypeOK
    OBVIOUS
  <2>1. \A u \in Units : Cardinality(MainOf(u)) <= 1
    BY AtMostOne DEF ClientInv, ProcTable, MainOf
  <2> QED
    BY <2>1 DEF ClientInv, ClientTypeOK, ProcTable, RunStates, SaidStates
<1> QED
  BY <1>1, ClientInvHolds, PTL

\* Theorem: ts never runs two clients, and between commands its files lead to the one.
THEOREM ThereIsOneClient == ClientSpec => []OneClient
<1>1. ClientInv => OneClient
  <2> SUFFICES ASSUME ClientInv PROVE OneClient
    OBVIOUS
  <2>1. Cardinality(Ours) <= 1
    BY AtMostOne DEF ClientInv
  <2>2. run.at = "idle" => \A p \in Ours : clientFile = p \/ p \in MainOf(unitFile)
    BY DEF ClientInv, LedInv
  <2> QED
    BY <2>1, <2>2 DEF OneClient
<1> QED
  BY <1>1, ClientInvHolds, PTL

\* Theorem: a stop or a status that says no client runs is right.
THEOREM ClientIsNotDenied == ClientSpec => []ClientNotDenied
<1>1. ClientInv => ClientNotDenied
  BY DEF ClientInv
<1> QED
  BY <1>1, ClientInvHolds, PTL

--------------------------------------------------------------------------------
(* config.ini                                                                  *)


\* An edit under way holds a config that save has found valid, in a temporary
\* file that no other edit has, and the file holds what such an edit renamed.
Saving(e) == editor[e].at \in {"write", "rename"}

TempInv ==
    /\ \A e, o \in Editors :
          Saving(e) /\ Saving(o) /\ editor[e].temp = editor[o].temp => e = o
    /\ \A e \in Editors : editor[e].at = "temp" => editor[e].temp = "none"
    /\ \A e \in Editors : editor[e].at = "rename" =>
          temp[editor[e].temp] = Written(editor[e].config)
    /\ \A e \in Editors : Saving(e) => temp[editor[e].temp].made # "none"

ValidInv ==
    /\ \A e \in Editors : editor[e].at # "idle" => Valid(editor[e].config)
    /\ file.made # "part"
    /\ file.made = "ts" => Valid(file.config)

ConfigInv == ConfigTypeOK /\ TempInv /\ ValidInv

\* What a config loads as is a config: validation sees nothing else.
LEMMA ParsedType ==
    ASSUME NEW f \in [made : {"none", "part", "garbage", "hand", "ts"}, config : Configs]
    PROVE  Parsed(f) \in Configs
<1>1. default_config \in Configs
  BY ConfigAssumption DEF Configs, default_config
<1>2. f.config \in Configs
  OBVIOUS
<1>3. \A a \in Names \cup {Nameless} :
         [f.config EXCEPT !.active = IF a \in Names THEN Trimmed[a] ELSE a] \in Configs
  BY <1>2, ConfigAssumption DEF Configs
<1>4. f.config.active \in Names \cup {Nameless}
  BY <1>2 DEF Configs
<1> QED
  BY <1>1, <1>2, <1>3, <1>4 DEF Parsed, Configs

\* The start: nothing is being edited, and the file may be anyone's.
LEMMA ConfigInitInv == ConfigInit => ConfigInv
<1> SUFFICES ASSUME ConfigInit PROVE ConfigInv
  OBVIOUS
<1>1. default_config \in Configs
  BY ConfigAssumption DEF Configs, default_config
<1>2. \A written \in SUBSET {MockLocal, PluginLocal} :
         [default_config EXCEPT !.profiles = written] \in Configs
  BY <1>1, ConfigAssumption DEF Configs
<1>3. /\ file \in [made : {"none", "part", "garbage", "hand", "ts"}, config : Configs]
      /\ file.made \notin {"part", "ts"}
  BY <1>1, <1>2 DEF ConfigInit, NoFile, Garbage
<1>4. ConfigTypeOK
  BY <1>1, <1>3 DEF ConfigInit, ConfigTypeOK, NoFile, Resting
<1>5. TempInv /\ ValidInv
  BY <1>3 DEF ConfigInit, TempInv, ValidInv, Saving, Resting
<1> QED
  BY <1>4, <1>5 DEF ConfigInv

\* An edit that save accepts keeps the invariant, whatever the command was.
LEMMA SavesInv ==
    ASSUME ConfigInv, NEW e \in Editors, editor[e].at = "idle",
           NEW config \in Configs, Saves(e, config)
    PROVE  ConfigInv'
<1>1. editor' = [editor EXCEPT ![e] = [at |-> "temp", config |-> config, temp |-> "none"]]
      /\ UNCHANGED <<file, temp>> /\ Valid(config)
  BY DEF Saves
<1>2. ConfigTypeOK'
  BY <1>1 DEF ConfigInv, ConfigTypeOK
<1>3. \A o \in Editors : /\ o # e => editor'[o] = editor[o]
                         /\ o = e => editor'[o] = [at |-> "temp", config |-> config, temp |-> "none"]
  BY <1>1 DEF ConfigInv, ConfigTypeOK
<1>4. TempInv'
  BY <1>1, <1>3 DEF ConfigInv, TempInv, Saving
<1>5. ValidInv'
  BY <1>1, <1>3 DEF ConfigInv, ValidInv, Valid, Usable
<1> QED
  BY <1>2, <1>4, <1>5 DEF ConfigInv

\* Each command hands save a config, if it hands it anything.
LEMMA EditsInv ==
    ASSUME ConfigInv, NEW e \in Editors,
           \/ \E force \in BOOLEAN : Initializes(e, force)
           \/ \E n \in Names, activate \in BOOLEAN : Creates(e, n, activate)
           \/ \E n \in Names, unusable, multiLine \in BOOLEAN : Sets(e, n, unusable, multiLine)
           \/ \E n \in Names : Unsets(e, n) \/ Deletes(e, n) \/ Uses(e, n)
           \/ \E n, other \in Names : DeletesActivating(e, n, other)
    PROVE  ConfigInv'
<1>1. default_config \in Configs
  BY ConfigAssumption DEF Configs, default_config
<1>2. Parsed(file) \in Configs
  BY ParsedType DEF ConfigInv, ConfigTypeOK
<1>3. Loadable \subseteq Configs
  BY <1>1, <1>2 DEF Loadable
<1>4. editor[e].at = "idle" /\ \E config \in Configs : Saves(e, config)
  <2>1. CASE \E force \in BOOLEAN : Initializes(e, force)
    BY <2>1, <1>1 DEF Initializes
  <2>2. CASE \E n \in Names, activate \in BOOLEAN : Creates(e, n, activate)
    <3>1. \A c \in Configs, n \in Names, activate \in BOOLEAN :
             [c EXCEPT !.profiles = @ \cup {n}, !.active = IF activate THEN n ELSE @] \in Configs
      BY DEF Configs
    <3> QED
      BY <2>2, <1>3, <3>1 DEF Creates
  <2>3. CASE \E n \in Names, unusable, multiLine \in BOOLEAN : Sets(e, n, unusable, multiLine)
    <3>1. \A c \in Configs, unusable, multiLine \in BOOLEAN :
             [c EXCEPT !.unusable = unusable, !.multiLine = multiLine] \in Configs
      BY DEF Configs
    <3> QED
      BY <2>3, <1>3, <3>1 DEF Sets
  <2>4. CASE \E n \in Names : Unsets(e, n)
    BY <2>4, <1>3 DEF Unsets
  <2>5. CASE \E n \in Names : Deletes(e, n)
    <3>1. \A c \in Configs, n \in Names : [c EXCEPT !.profiles = @ \ {n}] \in Configs
      BY DEF Configs
    <3> QED
      BY <2>5, <1>3, <3>1 DEF Deletes
  <2>6. CASE \E n \in Names : Uses(e, n)
    <3>1. \A c \in Configs, n \in Names : [c EXCEPT !.active = n] \in Configs
      BY DEF Configs
    <3> QED
      BY <2>6, <1>3, <3>1 DEF Uses
  <2>7. CASE \E n, other \in Names : DeletesActivating(e, n, other)
    <3>1. \A c \in Configs, n, other \in Names :
             [c EXCEPT !.profiles = @ \ {n}, !.active = other] \in Configs
      BY DEF Configs
    <3> QED
      BY <2>7, <1>3, <3>1 DEF DeletesActivating
  <2> QED
    BY <2>1, <2>2, <2>3, <2>4, <2>5, <2>6, <2>7
<1> QED
  BY <1>4, SavesInv

\* An edit that ends without a rename leaves no trace but a file nobody has.
LEMMA AbandonedInv ==
    ASSUME ConfigInv, NEW e \in Editors, editor[e].at # "idle",
           NEW left \in {NoFile, Part},
           temp' = [t \in TempNames |-> IF t = editor[e].temp THEN left ELSE temp[t]],
           editor' = [editor EXCEPT ![e] = Resting], UNCHANGED file
    PROVE  ConfigInv'
<1>1. default_config \in Configs
  BY ConfigAssumption DEF Configs, default_config
<1>2. ConfigTypeOK'
  BY <1>1 DEF ConfigInv, ConfigTypeOK, Resting, NoFile, Part
<1>3. \A o \in Editors : editor'[o] = IF o = e THEN Resting ELSE editor[o]
  BY DEF ConfigInv, ConfigTypeOK
<1>4. \A o \in Editors : o # e /\ Saving(o) =>
         editor[o].temp # editor[e].temp /\ temp'[editor[o].temp] = temp[editor[o].temp]
  <2> SUFFICES ASSUME NEW o \in Editors, o # e, Saving(o)
               PROVE  editor[o].temp # editor[e].temp /\ temp'[editor[o].temp] = temp[editor[o].temp]
    OBVIOUS
  <2>1. editor[o].temp \in TempNames
    BY DEF ConfigInv, ConfigTypeOK, Saving
  <2>2. editor[o].temp # editor[e].temp
    BY <2>1, ConfigAssumption DEF ConfigInv, ConfigTypeOK, TempInv, Saving
  <2> QED
    BY <2>1, <2>2
<1>5. TempInv'
  BY <1>3, <1>4 DEF ConfigInv, TempInv, Saving, Resting
<1>6. ValidInv'
  BY <1>3 DEF ConfigInv, ValidInv, Valid, Usable, Resting
<1> QED
  BY <1>2, <1>5, <1>6 DEF ConfigInv

\* The steps of save: a name of its own, the whole text, the rename.
LEMMA SavingInv ==
    ASSUME ConfigInv, NEW e \in Editors,
           (\E t \in TempNames : Opens(e, t)) \/ Writes(e) \/ Renames(e)
    PROVE  ConfigInv'
<1>1. default_config \in Configs
  BY ConfigAssumption DEF Configs, default_config
<1>2. CASE \E t \in TempNames : Opens(e, t)
  <2>1. PICK t \in TempNames : Opens(e, t)
    BY <1>2
  <2>2. ConfigTypeOK'
    <3>1. temp' \in [TempNames -> [made : {"none", "part", "ts"}, config : Configs]]
      BY <2>1, <1>1 DEF Opens, ConfigInv, ConfigTypeOK, Part
    <3>2. /\ editor' \in [Editors -> [at : {"idle", "temp", "write", "rename"},
                                      config : Configs, temp : TempNames \cup {"none"}]]
          /\ \A o \in Editors : editor'[o].at \in {"write", "rename"} => editor'[o].temp # "none"
      <4> DEFINE r == [editor[e] EXCEPT !.at = "write", !.temp = t]
      <4>1. /\ r \in [at : {"idle", "temp", "write", "rename"},
                     config : Configs, temp : TempNames \cup {"none"}]
            /\ r.temp # "none"
        BY <2>1, ConfigAssumption DEF ConfigInv, ConfigTypeOK
      <4>2. editor' = [editor EXCEPT ![e] = r]
        BY <2>1 DEF Opens
      <4> HIDE DEF r
      <4> QED
        BY <4>1, <4>2 DEF ConfigInv, ConfigTypeOK
    <3>3. file' = file
      BY <2>1 DEF Opens
    <3> QED
      BY <3>1, <3>2, <3>3 DEF ConfigInv, ConfigTypeOK
  <2>3. \A o \in Editors : /\ o # e => editor'[o] = editor[o]
                           /\ editor'[e].at = "write" /\ editor'[e].temp = t
                           /\ editor'[e].config = editor[e].config
    BY <2>1 DEF Opens, ConfigInv, ConfigTypeOK
  <2>4. \A o \in Editors : o # e /\ Saving(o) =>
           editor[o].temp # t /\ temp'[editor[o].temp] = temp[editor[o].temp]
    BY <2>1 DEF Opens, ConfigInv, ConfigTypeOK, TempInv, Saving
  <2>5. temp'[t] = Part
    BY <2>1 DEF Opens, ConfigInv, ConfigTypeOK
  <2>6. TempInv'
    BY <2>3, <2>4, <2>5 DEF ConfigInv, TempInv, Saving, Part
  <2>7. ValidInv'
    BY <2>1, <2>3 DEF Opens, ConfigInv, ValidInv, Valid, Usable
  <2> QED
    BY <2>2, <2>6, <2>7 DEF ConfigInv
<1>3. CASE Writes(e)
  <2>1. editor[e].at = "write" /\ editor[e].temp \in TempNames /\ editor[e].config \in Configs
    BY <1>3 DEF Writes, ConfigInv, ConfigTypeOK
  <2>2. ConfigTypeOK'
    BY <1>3, <2>1 DEF Writes, ConfigInv, ConfigTypeOK, Written
  <2>3. \A o \in Editors : /\ o # e => editor'[o] = editor[o]
                           /\ editor'[e].at = "rename" /\ editor'[e].temp = editor[e].temp
                           /\ editor'[e].config = editor[e].config
    BY <1>3 DEF Writes, ConfigInv, ConfigTypeOK
  <2>4. \A o \in Editors : o # e /\ Saving(o) =>
           editor[o].temp # editor[e].temp /\ temp'[editor[o].temp] = temp[editor[o].temp]
    BY <1>3, <2>1 DEF Writes, ConfigInv, ConfigTypeOK, TempInv, Saving
  <2>5. temp'[editor[e].temp] = Written(editor[e].config)
    BY <1>3, <2>1 DEF Writes, ConfigInv, ConfigTypeOK
  <2>6. TempInv'
    BY <2>1, <2>3, <2>4, <2>5 DEF ConfigInv, TempInv, Saving, Written
  <2>7. ValidInv'
    BY <1>3, <2>1, <2>3 DEF Writes, ConfigInv, ValidInv, Valid, Usable
  <2> QED
    BY <2>2, <2>6, <2>7 DEF ConfigInv
<1>4. CASE Renames(e)
  <2>1. editor[e].at = "rename" /\ editor[e].temp \in TempNames /\ editor[e].config \in Configs
    BY <1>4 DEF Renames, ConfigInv, ConfigTypeOK
  <2>2. file' = Written(editor[e].config)
    BY <1>4, <2>1 DEF Renames, ConfigInv, TempInv
  <2>3. ConfigTypeOK'
    BY <1>1, <1>4, <2>1, <2>2 DEF Renames, ConfigInv, ConfigTypeOK, Written, NoFile, Resting
  <2>4. \A o \in Editors : editor'[o] = IF o = e THEN Resting ELSE editor[o]
    BY <1>4 DEF Renames, ConfigInv, ConfigTypeOK
  <2>5. \A o \in Editors : o # e /\ Saving(o) => temp'[editor[o].temp] = temp[editor[o].temp]
    BY <1>4, <2>1 DEF Renames, ConfigInv, ConfigTypeOK, TempInv, Saving
  <2>6. TempInv'
    BY <2>4, <2>5 DEF ConfigInv, TempInv, Saving, Resting
  <2>7. ValidInv'
    BY <2>1, <2>2, <2>4 DEF ConfigInv, ValidInv, Valid, Usable, Written, Resting
  <2> QED
    BY <2>3, <2>6, <2>7 DEF ConfigInv
<1> QED
  BY <1>2, <1>3, <1>4

\* Every step keeps the invariant.
LEMMA ConfigStepInv == ConfigInv /\ [ConfigNext]_configVars => ConfigInv'
<1> SUFFICES ASSUME ConfigInv, [ConfigNext]_configVars PROVE ConfigInv'
  OBVIOUS
<1>1. CASE UNCHANGED configVars
  BY <1>1 DEF configVars, ConfigInv, ConfigTypeOK, TempInv, ValidInv, Saving, Valid, Usable
<1>2. ASSUME NEW e \in Editors, SaveFails(e) PROVE ConfigInv'
  BY <1>2, AbandonedInv DEF SaveFails
<1>3. ASSUME NEW e \in Editors, EditorKilled(e) PROVE ConfigInv'
  BY <1>3, AbandonedInv DEF EditorKilled
<1>4. CASE ConfigNext
  BY <1>2, <1>3, <1>4, EditsInv, SavingInv DEF ConfigNext
<1> QED
  BY <1>1, <1>4

\* What the invariant says of the file: a config that is valid and that the format
\* carries is read back as it is.
LEMMA InvConfigLoads == ConfigInv => ConfigLoads
<1> SUFFICES ASSUME ConfigInv, file.made = "ts", Carried(file.config)
             PROVE  Parses(file) /\ Valid(Parsed(file))
  BY DEF ConfigInv, ValidInv, ConfigLoads
<1>1. file.config \in Configs /\ Valid(file.config)
  BY DEF ConfigInv, ConfigTypeOK, ValidInv
<1>2. file.config.profiles # {} /\ file.config.active \in Names
  BY <1>1 DEF Configs, Valid
<1>3. Parsed(file) = file.config
  BY <1>1, <1>2 DEF Parsed, Carried, Configs
<1> QED
  BY <1>1, <1>3 DEF Parses, Carried

\* Whatever edits of config.ini overlap, fail or are killed (save and
\* write_temp_config), the file and the temporary files are what the model says.
THEOREM ConfigTypes == ConfigSpec => []ConfigTypeOK
<1>1. ConfigInv => ConfigTypeOK
  BY DEF ConfigInv
<1> QED
  BY <1>1, ConfigInitInv, ConfigStepInv, PTL DEF ConfigSpec

\* Theorem: config.ini is never half-written, and loads once a command wrote it.
THEOREM ConfigAlwaysLoads == ConfigSpec => []ConfigLoads
  BY InvConfigLoads, ConfigInitInv, ConfigStepInv, PTL DEF ConfigSpec

--------------------------------------------------------------------------------
(* Numbers.  What holds of 0 and, with each number, of the next holds of every *)
(* number: stated of the set of those of which it holds, which is what the     *)
(* lemmas about Without and next_hook_id cite it with.                          *)

\* Every set of numbers has a least one: strict inclusion of finite sets is
\* well-founded, and a number is as large as the interval below it.
LEMMA LeastNatural ==
    ASSUME NEW T \in SUBSET Nat, T # {}
    PROVE  \E m \in T : \A k \in T : m <= k
<1> DEFINE Below(m) == 0..(m - 1)
           below == {Below(m) : m \in T}
<1>1. below \subseteq FiniteSubsetsOf(Nat) /\ below # {}
  <2>1. \A m \in T : Below(m) \subseteq Nat /\ IsFiniteSet(Below(m))
    <3> TAKE m \in T
    <3>1. 0 \in Int /\ m - 1 \in Int
      OBVIOUS
    <3> QED BY <3>1, FS_Interval
  <2> HIDE DEF Below
  <2> QED BY <2>1 DEF FiniteSubsetsOf
<1>2. IsWellFoundedOn(StrictSubsetOrdering(Nat), FiniteSubsetsOf(Nat))
  BY FS_StrictSubsetOrderingWellFounded
<1>3. PICK x \in below : \A y \in below : ~(<<y, x>> \in StrictSubsetOrdering(Nat))
  <2> HIDE DEF below
  <2> QED BY <1>1, <1>2, WFMin
<1>4. PICK m \in T : x = Below(m)
  BY <1>3
<1>5. ASSUME NEW k \in T, k < m PROVE FALSE
  <2>1. Below(k) \in below /\ Below(k) \subseteq Below(m) /\ Below(k) \in SUBSET Nat
        /\ Below(m) \in SUBSET Nat
    BY <1>5
  <2>2. m - 1 \in Below(m) /\ m - 1 \notin Below(k)
    BY <1>5
  <2>3. <<Below(k), Below(m)>> \in StrictSubsetOrdering(Nat)
    <3> HIDE DEF Below
    <3> QED BY <2>1, <2>2 DEF StrictSubsetOrdering
  <2> QED BY <1>3, <1>4, <2>1, <2>3
<1> QED BY <1>5

\* A set that has 0 and the next number of each it has, has all of them.
LEMMA Induction ==
    ASSUME NEW T, 0 \in T, \A n \in Nat : n \in T => n + 1 \in T
    PROVE  Nat \subseteq T
<1> SUFFICES ASSUME NEW n \in Nat, n \notin T PROVE FALSE
  OBVIOUS
<1>1. PICK m \in Nat \ T : \A k \in Nat \ T : m <= k
  BY LeastNatural
<1>2. m # 0 /\ m - 1 \in Nat /\ m - 1 \in T
  BY <1>1
<1> QED BY <1>1, <1>2

--------------------------------------------------------------------------------
(* The commands that edit the hook list                                        *)

\* Without, step by step.
KeptOf(kept, hooks, id, m) ==
    kept = [n \in 0..m |-> IF n = 0 THEN <<>>
                           ELSE IF hooks[n] = id THEN kept[n - 1]
                                ELSE Append(kept[n - 1], hooks[n])]

LEMMA KeptExists ==
    ASSUME NEW hooks, NEW id, NEW m \in Nat
    PROVE  \E kept : KeptOf(kept, hooks, id, m)
<1> DEFINE T == {n \in Nat : \E kept : KeptOf(kept, hooks, id, n)}
<1>1. 0 \in T
  <2>1. KeptOf([n \in 0..0 |-> <<>>], hooks, id, 0)
    BY DEF KeptOf
  <2> QED BY <2>1
<1>2. ASSUME NEW n \in Nat, n \in T PROVE n + 1 \in T
  <2>1. PICK kept : KeptOf(kept, hooks, id, n)
    BY <1>2
  <2> DEFINE last == IF hooks[n + 1] = id THEN kept[n] ELSE Append(kept[n], hooks[n + 1])
             more == [i \in 0..(n + 1) |-> IF i = n + 1 THEN last ELSE kept[i]]
  <2>2. ASSUME NEW i \in 0..(n + 1)
        PROVE  more[i] = IF i = 0 THEN <<>>
                         ELSE IF hooks[i] = id THEN more[i - 1] ELSE Append(more[i - 1], hooks[i])
    <3>1. CASE i = n + 1
      <4>1. i # 0 /\ i - 1 = n /\ n \in 0..(n + 1) /\ n # n + 1
        BY <3>1
      <4>2. more[i] = last /\ more[i - 1] = kept[n]
        BY <3>1, <4>1
      <4> HIDE DEF more
      <4> QED BY <3>1, <4>1, <4>2
    <3>2. CASE i \in 0..n
      <4>1. more[i] = kept[i] /\ (i # 0 => more[i - 1] = kept[i - 1])
        BY <3>2
      <4>2. kept[i] = IF i = 0 THEN <<>>
                      ELSE IF hooks[i] = id THEN kept[i - 1] ELSE Append(kept[i - 1], hooks[i])
        BY <2>1, <3>2 DEF KeptOf
      <4> HIDE DEF more
      <4> QED BY <4>1, <4>2
    <3> QED BY <3>1, <3>2
  <2>3. KeptOf(more, hooks, id, n + 1)
    <3>1. DOMAIN more = 0..(n + 1) /\ more = [i \in 0..(n + 1) |-> more[i]]
      OBVIOUS
    <3> HIDE DEF more
    <3> QED BY <2>2, <3>1 DEF KeptOf
  <2> HIDE DEF more
  <2> QED BY <2>3
<1>3. Nat \subseteq T
  <2> HIDE DEF T
  <2> QED BY <1>1, <1>2, Induction
<1> QED BY <1>3

\* What a prefix of the list leaves is made from what the one before it left.
LEMMA WithoutByPrefix ==
    ASSUME NEW S, NEW hooks \in Seq(S), NEW id
    PROVE  \E kept :
             /\ Without(hooks, id) = kept[Len(hooks)]
             /\ kept[0] = <<>>
             /\ \A n \in 1..Len(hooks) :
                   kept[n] = IF hooks[n] = id THEN kept[n - 1] ELSE Append(kept[n - 1], hooks[n])
<1>1. Len(hooks) \in Nat
  OBVIOUS
<1> DEFINE it == CHOOSE kept : KeptOf(kept, hooks, id, Len(hooks))
<1>2. KeptOf(it, hooks, id, Len(hooks))
  BY <1>1, KeptExists
<1>3. Without(hooks, id) = it[Len(hooks)]
  BY DEF Without, KeptOf
<1> HIDE DEF it
<1>4. \A n \in 0..Len(hooks) :
         it[n] = IF n = 0 THEN <<>> ELSE IF hooks[n] = id THEN it[n - 1]
                                         ELSE Append(it[n - 1], hooks[n])
  BY <1>2 DEF KeptOf
<1> QED BY <1>1, <1>3, <1>4

\* What is left of a list is a list, and no longer.
LEMMA WithoutIsList ==
    ASSUME NEW S, NEW hooks \in Seq(S), NEW id
    PROVE  Without(hooks, id) \in Seq(S) /\ Len(Without(hooks, id)) <= Len(hooks)
<1>1. Len(hooks) \in Nat
  OBVIOUS
<1>2. PICK kept :
         /\ Without(hooks, id) = kept[Len(hooks)]
         /\ kept[0] = <<>>
         /\ \A n \in 1..Len(hooks) :
               kept[n] = IF hooks[n] = id THEN kept[n - 1] ELSE Append(kept[n - 1], hooks[n])
  BY WithoutByPrefix
<1> DEFINE T == {n \in Nat : n <= Len(hooks) => kept[n] \in Seq(S) /\ Len(kept[n]) <= n}
<1>3. 0 \in T
  <2>1. kept[0] \in Seq(S) /\ Len(kept[0]) <= 0
    BY <1>2, EmptySeq
  <2> QED BY <2>1
<1>4. ASSUME NEW n \in Nat, n \in T PROVE n + 1 \in T
  <2> SUFFICES ASSUME n + 1 <= Len(hooks)
               PROVE  kept[n + 1] \in Seq(S) /\ Len(kept[n + 1]) <= n + 1
    OBVIOUS
  <2>1. kept[n] \in Seq(S) /\ Len(kept[n]) <= n
    BY <1>1, <1>4
  <2>2. n + 1 \in 1..Len(hooks) /\ (n + 1) - 1 = n
    BY <1>1
  <2>3. kept[n + 1] = IF hooks[n + 1] = id THEN kept[n] ELSE Append(kept[n], hooks[n + 1])
    BY <1>2, <2>2
  <2>4. hooks[n + 1] \in S
    BY <2>2
  <2> HIDE DEF T
  <2> QED BY <2>1, <2>3, <2>4
<1>5. Nat \subseteq T
  <2> HIDE DEF T
  <2> QED BY <1>3, <1>4, Induction
<1> QED BY <1>1, <1>2, <1>5

\* The list without its k-th hook.
Removed(hooks, k) == [i \in 1..(Len(hooks) - 1) |-> IF i < k THEN hooks[i] ELSE hooks[i + 1]]

\* It is a list again,
LEMMA RemovedIsList ==
    ASSUME NEW S, NEW hooks \in Seq(S), NEW k \in 1..Len(hooks)
    PROVE  /\ Removed(hooks, k) \in Seq(S)
           /\ Len(Removed(hooks, k)) = Len(hooks) - 1
<1>1. Len(hooks) \in Nat /\ Len(hooks) - 1 \in Nat
  OBVIOUS
<1>2. \A i \in 1..(Len(hooks) - 1) : (IF i < k THEN hooks[i] ELSE hooks[i + 1]) \in S
  OBVIOUS
<1>3. Removed(hooks, k) \in [1..(Len(hooks) - 1) -> S]
  BY <1>2 DEF Removed
<1> QED BY <1>1, <1>3

\* and no two of its hooks share a number if no two did.
LEMMA RemovedIsInjective ==
    ASSUME NEW S, NEW hooks \in Seq(S), IsInjective(hooks), NEW k \in 1..Len(hooks)
    PROVE  IsInjective(Removed(hooks, k))
<1>1. DOMAIN hooks = 1..Len(hooks) /\ Len(hooks) \in Nat
      /\ DOMAIN Removed(hooks, k) = 1..(Len(hooks) - 1)
  BY DEF Removed
<1>2. ASSUME NEW a \in 1..(Len(hooks) - 1), NEW b \in 1..(Len(hooks) - 1),
             Removed(hooks, k)[a] = Removed(hooks, k)[b]
      PROVE  a = b
  <2> DEFINE Was(i) == IF i < k THEN i ELSE i + 1
  <2>1. \A i \in 1..(Len(hooks) - 1) : Was(i) \in DOMAIN hooks
                                       /\ Removed(hooks, k)[i] = hooks[Was(i)]
    BY <1>1 DEF Removed
  <2>2. hooks[Was(a)] = hooks[Was(b)] /\ Was(a) \in DOMAIN hooks /\ Was(b) \in DOMAIN hooks
    BY <1>2, <2>1
  <2>3. Was(a) = Was(b)
    <3> HIDE DEF Was
    <3> QED BY <2>2 DEF IsInjective
  <2> QED BY <1>2, <2>3
<1> QED BY <1>1, <1>2 DEF IsInjective

\* Without takes the hook of this number, when one has it, and moves up the
\* hooks behind it.
LEMMA WithoutTakesOne ==
    ASSUME NEW S, NEW hooks \in Seq(S), IsInjective(hooks), NEW k \in 1..Len(hooks)
    PROVE  Without(hooks, hooks[k]) = Removed(hooks, k)
<1> DEFINE id == hooks[k]
<1>1. Len(hooks) \in Nat /\ DOMAIN hooks = 1..Len(hooks)
  OBVIOUS
<1>2. PICK kept :
         /\ Without(hooks, id) = kept[Len(hooks)]
         /\ kept[0] = <<>>
         /\ \A n \in 1..Len(hooks) :
               kept[n] = IF hooks[n] = id THEN kept[n - 1] ELSE Append(kept[n - 1], hooks[n])
  BY WithoutByPrefix
<1>3. \A n \in 1..Len(hooks) : hooks[n] = id <=> n = k
  BY <1>1 DEF IsInjective
<1> DEFINE Left(n) == /\ kept[n] \in Seq(S)
                      /\ Len(kept[n]) = IF n < k THEN n ELSE n - 1
                      /\ \A i \in 1..Len(kept[n]) :
                            kept[n][i] = IF i < k THEN hooks[i] ELSE hooks[i + 1]
           T == {n \in Nat : n <= Len(hooks) => Left(n)}
<1>4. 0 \in T
  <2>1. kept[0] \in Seq(S) /\ Len(kept[0]) = 0 /\ 0 < k
    BY <1>2, EmptySeq
  <2>2. Left(0)
    BY <2>1
  <2> QED BY <2>2
<1>5. ASSUME NEW n \in Nat, n \in T PROVE n + 1 \in T
  <2> SUFFICES ASSUME n + 1 <= Len(hooks)
               PROVE  Left(n + 1)
    BY <1>5
  <2>1. Left(n)
    BY <1>1, <1>5
  <2>2. n + 1 \in 1..Len(hooks) /\ (n + 1) - 1 = n /\ hooks[n + 1] \in S
    BY <1>1
  <2>3. kept[n + 1] = IF n + 1 = k THEN kept[n] ELSE Append(kept[n], hooks[n + 1])
    BY <1>2, <1>3, <2>2
  <2>4. CASE n + 1 = k
    BY <2>1, <2>3, <2>4
  <2>5. CASE n + 1 # k
    <3>1. kept[n + 1] = Append(kept[n], hooks[n + 1])
      BY <2>3, <2>5
    <3>2. /\ kept[n + 1] \in Seq(S)
          /\ Len(kept[n + 1]) = Len(kept[n]) + 1
          /\ \A i \in 1..Len(kept[n]) : kept[n + 1][i] = kept[n][i]
          /\ kept[n + 1][Len(kept[n]) + 1] = hooks[n + 1]
      BY <2>1, <2>2, <3>1, AppendProperties
    <3>3. Len(kept[n + 1]) = IF n + 1 < k THEN n + 1 ELSE (n + 1) - 1
      BY <2>1, <2>5, <3>2
    <3>4. ASSUME NEW i \in 1..Len(kept[n + 1])
          PROVE  kept[n + 1][i] = IF i < k THEN hooks[i] ELSE hooks[i + 1]
      <4>1. CASE i \in 1..Len(kept[n])
        BY <2>1, <3>2, <4>1
      <4>2. CASE i = Len(kept[n]) + 1
        BY <2>1, <2>5, <3>2, <4>2
      <4> QED BY <2>1, <3>2, <4>1, <4>2
    <3> QED BY <3>2, <3>3, <3>4
  <2> QED BY <2>4, <2>5
<1>6. Nat \subseteq T
  <2> HIDE DEF T
  <2> QED BY <1>4, <1>5, Induction
<1>7. Left(Len(hooks))
  <2>1. Len(hooks) \in T
    <3> HIDE DEF T
    <3> QED BY <1>1, <1>6
  <2>2. Len(hooks) <= Len(hooks) => Left(Len(hooks))
    <3> HIDE DEF Left
    <3> QED BY <2>1
  <2>3. Len(hooks) <= Len(hooks)
    BY <1>1
  <2> HIDE DEF Left
  <2> QED BY <2>2, <2>3
<1>8. Removed(hooks, k) \in Seq(S) /\ Len(Removed(hooks, k)) = Len(hooks) - 1
  BY RemovedIsList
<1>9. Len(kept[Len(hooks)]) = Len(hooks) - 1
  <2>1. ~(Len(hooks) < k)
    BY <1>1
  <2> QED BY <1>7, <2>1
<1>10. \A i \in 1..Len(kept[Len(hooks)]) : kept[Len(hooks)][i] = Removed(hooks, k)[i]
  BY <1>7, <1>9 DEF Removed
<1> QED BY <1>2, <1>7, <1>8, <1>9, <1>10, SeqEqual

\* And so does the promise.
LEMMA RemoveFirstTakesOne ==
    ASSUME NEW S, NEW hooks \in Seq(S), IsInjective(hooks), NEW k \in 1..Len(hooks)
    PROVE  RemoveFirst(hooks, hooks[k]) = Removed(hooks, k)
<1> DEFINE at == {i \in 1..Len(hooks) : hooks[i] = hooks[k]}
<1>1. Len(hooks) \in Nat /\ DOMAIN hooks = 1..Len(hooks)
  OBVIOUS
<1>2. at = {k}
  BY <1>1 DEF IsInjective
<1>3. Min({k}) = k
  BY DEF Min
<1>4. SelectInSeq(hooks, LAMBDA v : v = hooks[k]) = k
  BY <1>2, <1>3 DEF SelectInSeq
<1>5. RemoveFirst(hooks, hooks[k]) = RemoveAt(hooks, k)
  BY <1>4 DEF RemoveFirst
<1> DEFINE before == SubSeq(hooks, 1, k - 1)
           after == SubSeq(hooks, k + 1, Len(hooks))
<1>6. /\ before \in Seq(S)
      /\ Len(before) = k - 1
      /\ \A i \in 1..(k - 1) : before[i] = hooks[i]
  <2>1. 1 \in Int /\ k - 1 \in Int /\ \A i \in 1..(k - 1) : hooks[i] \in S
    BY <1>1
  <2>2. /\ SubSeq(hooks, 1, k - 1) \in Seq(S)
        /\ Len(SubSeq(hooks, 1, k - 1)) = IF 1 <= k - 1 THEN (k - 1) - 1 + 1 ELSE 0
        /\ \A i \in 1..((k - 1) - 1 + 1) : SubSeq(hooks, 1, k - 1)[i] = hooks[1 + i - 1]
    BY <2>1, SubSeqProperties
  <2> QED BY <1>1, <2>2
<1>7. /\ after \in Seq(S)
      /\ Len(after) = Len(hooks) - k
      /\ \A i \in 1..(Len(hooks) - k) : after[i] = hooks[k + i]
  <2>1. k + 1 \in Int /\ Len(hooks) \in Int /\ \A i \in (k + 1)..Len(hooks) : hooks[i] \in S
    BY <1>1
  <2>2. /\ SubSeq(hooks, k + 1, Len(hooks)) \in Seq(S)
        /\ Len(SubSeq(hooks, k + 1, Len(hooks))) =
              IF k + 1 <= Len(hooks) THEN Len(hooks) - (k + 1) + 1 ELSE 0
        /\ \A i \in 1..(Len(hooks) - (k + 1) + 1) :
              SubSeq(hooks, k + 1, Len(hooks))[i] = hooks[(k + 1) + i - 1]
    BY <2>1, SubSeqProperties
  <2> QED BY <1>1, <2>2
<1>8. RemoveAt(hooks, k) = before \o after
  BY DEF RemoveAt
<1> HIDE DEF before, after
<1>9. /\ before \o after \in Seq(S)
      /\ Len(before \o after) = Len(before) + Len(after)
      /\ \A i \in 1..(Len(before) + Len(after)) :
            (before \o after)[i] = IF i <= Len(before) THEN before[i] ELSE after[i - Len(before)]
  BY <1>6, <1>7, ConcatProperties
<1>10. Removed(hooks, k) \in Seq(S) /\ Len(Removed(hooks, k)) = Len(hooks) - 1
  BY RemovedIsList
<1>11. Len(before) + Len(after) = Len(hooks) - 1
  BY <1>1, <1>6, <1>7
<1>12. ASSUME NEW i \in 1..(Len(hooks) - 1)
       PROVE  (before \o after)[i] = Removed(hooks, k)[i]
  <2>1. CASE i < k
    <3>1. i \in 1..(Len(before) + Len(after)) /\ i <= Len(before) /\ i \in 1..(k - 1)
      BY <1>1, <1>6, <1>11, <2>1
    <3>2. (before \o after)[i] = hooks[i]
      BY <1>6, <1>9, <3>1
    <3> QED BY <2>1, <3>2 DEF Removed
  <2>2. CASE i >= k
    <3>1. (before \o after)[i] = after[i - (k - 1)]
      <4>1. i \in 1..(Len(before) + Len(after)) /\ ~(i <= Len(before))
        BY <1>1, <1>6, <1>11, <2>2
      <4> QED BY <1>6, <1>9, <4>1
    <3>2. i - (k - 1) \in 1..(Len(hooks) - k) /\ k + (i - (k - 1)) = i + 1
      BY <1>1, <2>2
    <3>3. after[i - (k - 1)] = hooks[i + 1]
      BY <1>7, <3>2
    <3>4. ~(i < k)
      BY <2>2
    <3>5. Removed(hooks, k)[i] = hooks[i + 1]
      BY <3>4 DEF Removed
    <3> QED BY <3>1, <3>3, <3>5
  <2>3. i < k \/ i >= k
    <3>1. i \in Int /\ k \in Int
      OBVIOUS
    <3> QED BY ONLY <3>1
  <2> QED BY ONLY <2>1, <2>2, <2>3
<1>13. before \o after = Removed(hooks, k)
  BY <1>9, <1>10, <1>11, <1>12, SeqEqual
<1> QED BY <1>5, <1>8, <1>13

\* The number of a new hook is that of no hook there is.
LEMMA NewHookIsNew ==
    ASSUME NEW hooks \in Seq(Nat)
    PROVE  next_hook_id(hooks) \in Nat \ {0} /\ next_hook_id(hooks) \notin ToSet(hooks)
<1> DEFINE all == {0} \cup ToSet(hooks)
<1>1. all \subseteq Nat
  BY DEF ToSet
<1>2. \A x \in ToSet(hooks) : x \in all
  OBVIOUS
<1>3. \E m \in all : \A x \in all : x <= m
  <2> DEFINE T == {n \in Nat : n <= Len(hooks) =>
                     \E m \in all : \A i \in 1..n : hooks[i] <= m}
  <2>1. 0 \in T
    OBVIOUS
  <2>2. ASSUME NEW n \in Nat, n \in T PROVE n + 1 \in T
    <3> SUFFICES ASSUME n + 1 <= Len(hooks)
                 PROVE  \E m \in all : \A i \in 1..(n + 1) : hooks[i] <= m
      OBVIOUS
    <3>1. PICK m \in all : \A i \in 1..n : hooks[i] <= m
      BY <2>2
    <3>2. n + 1 \in 1..Len(hooks) /\ hooks[n + 1] \in all
      BY DEF ToSet
    <3>3. m \in Nat /\ hooks[n + 1] \in Nat /\ \A i \in 1..n : hooks[i] \in Nat
      BY <1>1, <3>2
    <3> HIDE DEF all
    <3>4. CASE m <= hooks[n + 1]
      <4>1. \A i \in 1..(n + 1) : hooks[i] <= hooks[n + 1]
        BY <3>1, <3>3, <3>4
      <4> QED BY <3>2, <4>1
    <3>5. CASE hooks[n + 1] <= m
      <4>1. \A i \in 1..(n + 1) : hooks[i] <= m
        BY <3>1, <3>3, <3>5
      <4> QED BY <4>1
    <3> QED BY <3>3, <3>4, <3>5
  <2>3. Nat \subseteq T
    <3> HIDE DEF T
    <3> QED BY <2>1, <2>2, Induction
  <2>4. PICK m \in all : \A i \in 1..Len(hooks) : hooks[i] <= m
    <3>1. Len(hooks) \in Nat
      OBVIOUS
    <3> QED BY <2>3, <3>1
  <2>5. \A x \in all : x <= m
    BY <1>1, <2>4 DEF ToSet
  <2> QED BY <2>5
<1>4. Max(all) \in all /\ \A x \in all : Max(all) >= x
  <2>1. \E m \in all : \A x \in all : m >= x
    BY <1>1, <1>3
  <2> HIDE DEF all
  <2> QED BY <2>1 DEF Max
<1>5. next_hook_id(hooks) = 1 + Max(all)
  BY DEF next_hook_id
<1> HIDE DEF all
<1>6. Max(all) \in Nat
  BY <1>1, <1>4
<1>7. ASSUME next_hook_id(hooks) \in ToSet(hooks) PROVE FALSE
  <2>1. Max(all) >= 1 + Max(all)
    BY <1>2, <1>4, <1>5, <1>7
  <2> QED BY <1>6, <2>1
<1> QED BY <1>5, <1>6, <1>7

\* While no edits overlapped: the promised hooks have their own numbers and there
\* is one command at most; the file is what was promised but for the time in which
\* it writes, and then it begins with the part of its list that it has written.
HookPartsInv ==
    /\ IsInjective(promised)
    /\ \A d, e \in HookEditors : hookEditor[d].at # "idle" /\ hookEditor[e].at # "idle" => d = e
    /\ (\A e \in HookEditors : hookEditor[e].at # "write") =>
          hooksFile = [hooks |-> promised, torn |-> FALSE]
    /\ \A e \in HookEditors : hookEditor[e].at # "idle" =>
          hookEditor[e].kept = hookEditor[e].hooks /\ IsInjective(hookEditor[e].hooks)
    /\ \A e \in HookEditors : hookEditor[e].at = "write" =>
          /\ hooksFile.hooks = SubSeq(hookEditor[e].hooks, 1, hookEditor[e].written)
          /\ hooksFile.torn => hookEditor[e].written < Len(hookEditor[e].hooks)

\* Of a command's list no more is written than there is, whatever happened before.
HookInv ==
    /\ HookTypeOK
    /\ \A e \in HookEditors :
          /\ hookEditor[e].written <= Len(hookEditor[e].hooks)
          /\ hookEditor[e].at = "open" => hookEditor[e].written = 0
    /\ ~hooksDisturbed => HookPartsInv

\* The lists are the sequences of numbers within the bound.
LEMMA ListsAreSeqs ==
    ASSUME NEW s
    PROVE  s \in Lists <=> s \in Seq(Ids) /\ Len(s) <= MaxHooks
<1>1. MaxHooks \in Nat
  BY MaxHooksAssumption
<1>2. ASSUME s \in Lists PROVE s \in Seq(Ids) /\ Len(s) <= MaxHooks
  <2>1. PICK n \in 0..MaxHooks : s \in [1..n -> Ids]
    BY <1>2 DEF Lists
  <2>2. n \in Nat /\ n <= MaxHooks
    BY <1>1, <2>1
  <2>3. s \in Seq(Ids)
    BY <2>1, <2>2
  <2>4. DOMAIN s = 1..n /\ DOMAIN s = 1..Len(s) /\ Len(s) \in Nat
    BY <2>1, <2>3
  <2>5. Len(s) = n
    BY <2>1, <2>2, <2>3
  <2> QED BY <2>2, <2>3, <2>5
<1>3. ASSUME s \in Seq(Ids), Len(s) <= MaxHooks PROVE s \in Lists
  <2>1. Len(s) \in 0..MaxHooks /\ s \in [1..Len(s) -> Ids]
    BY <1>1, <1>3
  <2> QED BY <2>1 DEF Lists
<1> QED BY <1>2, <1>3

\* The empty list is one, and the beginning of each.
LEMMA EmptyListHolds ==
    /\ <<>> \in Lists /\ Len(<<>>) = 0 /\ IsInjective(<<>>)
    /\ \A s : SubSeq(s, 1, 0) = <<>>
<1>1. MaxHooks \in Nat /\ <<>> \in Seq(Ids) /\ Len(<<>>) = 0
  BY MaxHooksAssumption, EmptySeq
<1>2. <<>> \in Lists
  <2>1. Len(<<>>) <= MaxHooks
    BY <1>1
  <2> QED BY <1>1, <2>1, ListsAreSeqs
<1>3. DOMAIN <<>> = 1..0
  BY <1>1
<1>4. IsInjective(<<>>)
  BY <1>3 DEF IsInjective
<1>5. \A s : SubSeq(s, 1, 0) = <<>>
  <2> TAKE s
  <2>1. 1 \in Int /\ 0 \in Int /\ 0 < 1
    OBVIOUS
  <2> QED BY <2>1, SubSeqEmpty
<1> QED BY <1>1, <1>2, <1>4, <1>5

\* A list that gets a new hook.
LEMMA AppendedIsList ==
    ASSUME NEW hooks \in Lists, Len(hooks) < MaxHooks, next_hook_id(hooks) \in Ids
    PROVE  LET more == Append(hooks, next_hook_id(hooks))
           IN  more \in Lists /\ (IsInjective(hooks) => IsInjective(more))
<1> DEFINE id == next_hook_id(hooks)
           more == Append(hooks, id)
<1>1. hooks \in Seq(Ids) /\ hooks \in Seq(Nat) /\ Len(hooks) \in Nat /\ MaxHooks \in Nat
      /\ DOMAIN hooks = 1..Len(hooks)
  BY ListsAreSeqs, MaxHooksAssumption DEF Ids
<1>2. id \notin ToSet(hooks) /\ id \in Ids
  BY <1>1, NewHookIsNew
<1> HIDE DEF id
<1>3. /\ more \in Seq(Ids)
      /\ Len(more) = Len(hooks) + 1
      /\ \A i \in 1..Len(hooks) : more[i] = hooks[i]
      /\ more[Len(hooks) + 1] = id
  BY <1>1, <1>2, AppendProperties
<1> HIDE DEF more
<1>4. more \in Lists
  BY <1>1, <1>3, ListsAreSeqs
<1>5. ASSUME IsInjective(hooks) PROVE IsInjective(more)
  <2>1. DOMAIN more = 1..(Len(hooks) + 1)
    BY <1>3
  <2>2. \A i \in 1..Len(hooks) : more[i] # id
    BY <1>1, <1>2, <1>3 DEF ToSet
  <2>3. ASSUME NEW a \in 1..(Len(hooks) + 1), NEW b \in 1..(Len(hooks) + 1), more[a] = more[b]
        PROVE  a = b
    <3>1. CASE a = Len(hooks) + 1
      BY <1>1, <1>3, <2>2, <2>3, <3>1
    <3>2. CASE b = Len(hooks) + 1
      BY <1>1, <1>3, <2>2, <2>3, <3>2
    <3>3. CASE a \in 1..Len(hooks) /\ b \in 1..Len(hooks)
      <4>1. hooks[a] = hooks[b]
        BY <1>3, <2>3, <3>3
      <4> QED BY <1>1, <1>5, <3>3, <4>1 DEF IsInjective
    <3> QED BY <1>1, <3>1, <3>2, <3>3
  <2> QED BY <2>1, <2>3 DEF IsInjective
<1> QED BY <1>4, <1>5 DEF id, more

\* A list that loses one.
LEMMA ShortenedIsList ==
    ASSUME NEW hooks \in Lists, NEW id \in ToSet(hooks)
    PROVE  /\ Without(hooks, id) \in Lists
           /\ IsInjective(hooks) => /\ IsInjective(Without(hooks, id))
                                    /\ RemoveFirst(hooks, id) = Without(hooks, id)
<1>1. hooks \in Seq(Ids) /\ Len(hooks) \in Nat /\ MaxHooks \in Nat /\ Len(hooks) <= MaxHooks
      /\ DOMAIN hooks = 1..Len(hooks)
  BY ListsAreSeqs, MaxHooksAssumption
<1>2. Without(hooks, id) \in Seq(Ids) /\ Len(Without(hooks, id)) <= Len(hooks)
  BY <1>1, WithoutIsList
<1>3. Without(hooks, id) \in Lists
  <2>1. Len(Without(hooks, id)) \in Nat
    BY <1>2
  <2>2. Len(Without(hooks, id)) <= MaxHooks
    BY <1>1, <1>2, <2>1
  <2> QED BY <1>2, <2>2, ListsAreSeqs
<1>4. PICK k \in 1..Len(hooks) : id = hooks[k]
  BY <1>1 DEF ToSet
<1>5. ASSUME IsInjective(hooks)
      PROVE  IsInjective(Without(hooks, id)) /\ RemoveFirst(hooks, id) = Without(hooks, id)
  <2>1. Without(hooks, id) = Removed(hooks, k)
    BY <1>1, <1>4, <1>5, WithoutTakesOne
  <2>2. RemoveFirst(hooks, id) = Removed(hooks, k)
    BY <1>1, <1>4, <1>5, RemoveFirstTakesOne
  <2>3. IsInjective(Removed(hooks, k))
    BY <1>1, <1>5, RemovedIsInjective
  <2> QED BY <2>1, <2>2, <2>3
<1> QED BY <1>3, <1>5

\* The part of a list that is written.
LEMMA PrefixIsList ==
    ASSUME NEW hooks \in Lists, NEW n \in 0..Len(hooks)
    PROVE  /\ SubSeq(hooks, 1, n) \in Lists
           /\ Len(SubSeq(hooks, 1, n)) = n
           /\ n = Len(hooks) => SubSeq(hooks, 1, n) = hooks
<1>1. hooks \in Seq(Ids) /\ Len(hooks) \in Nat /\ MaxHooks \in Nat /\ Len(hooks) <= MaxHooks
  BY ListsAreSeqs, MaxHooksAssumption
<1>2. 1 \in Int /\ n \in Int /\ \A i \in 1..n : hooks[i] \in Ids
  BY <1>1
<1>3. /\ SubSeq(hooks, 1, n) \in Seq(Ids)
      /\ Len(SubSeq(hooks, 1, n)) = IF 1 <= n THEN n - 1 + 1 ELSE 0
      /\ \A i \in 1..(n - 1 + 1) : SubSeq(hooks, 1, n)[i] = hooks[1 + i - 1]
  BY <1>2, SubSeqProperties
<1>4. Len(SubSeq(hooks, 1, n)) = n /\ \A i \in 1..n : SubSeq(hooks, 1, n)[i] = hooks[i]
  BY <1>1, <1>3
<1>5. n <= MaxHooks
  BY <1>1
<1>6. SubSeq(hooks, 1, n) \in Lists
  BY <1>3, <1>4, <1>5, ListsAreSeqs
<1>7. n = Len(hooks) => SubSeq(hooks, 1, n) = hooks
  BY <1>1, <1>3, <1>4, SeqEqual
<1> QED BY <1>4, <1>6, <1>7

\* The part of a list that is written, with what another process left behind it.
LEMMA MixedIsList ==
    ASSUME NEW hooks \in Lists, NEW n \in 0..Len(hooks), NEW theirs \in Lists,
           NEW k \in (n + 1)..Len(theirs)
    PROVE  SubSeq(hooks, 1, n) \o SubSeq(theirs, k, Len(theirs)) \in Lists
<1>1. theirs \in Seq(Ids) /\ Len(theirs) \in Nat /\ MaxHooks \in Nat
      /\ Len(theirs) <= MaxHooks /\ Len(hooks) \in Nat
  BY ListsAreSeqs, MaxHooksAssumption
<1>2. k \in Int /\ Len(theirs) \in Int /\ k <= Len(theirs) /\ n < k /\ n \in Nat
      /\ \A i \in k..Len(theirs) : theirs[i] \in Ids
  BY <1>1
<1>3. /\ SubSeq(theirs, k, Len(theirs)) \in Seq(Ids)
      /\ Len(SubSeq(theirs, k, Len(theirs))) = Len(theirs) - k + 1
  BY <1>2, SubSeqProperties
<1>4. SubSeq(hooks, 1, n) \in Seq(Ids) /\ Len(SubSeq(hooks, 1, n)) = n
  BY PrefixIsList, ListsAreSeqs
<1>5. /\ SubSeq(hooks, 1, n) \o SubSeq(theirs, k, Len(theirs)) \in Seq(Ids)
      /\ Len(SubSeq(hooks, 1, n) \o SubSeq(theirs, k, Len(theirs))) = n + (Len(theirs) - k + 1)
  BY <1>3, <1>4, ConcatProperties
<1>6. n + (Len(theirs) - k + 1) <= MaxHooks
  BY <1>1, <1>2
<1> QED BY <1>5, <1>6, ListsAreSeqs

HookEditorStates ==
    [at : {"idle", "open", "write"}, hooks : Lists, kept : Lists, written : 0..MaxHooks]

\* A process that edits nothing is an editor.
LEMMA AtRestIsEditor ==
    AtRest \in HookEditorStates
<1>1. 0 \in 0..MaxHooks
  BY MaxHooksAssumption
<1> QED BY <1>1, EmptyListHolds DEF AtRest, HookEditorStates

\* The invariant holds while there is no hook and no edit.
LEMMA HookInitHolds ==
    ASSUME HookInit
    PROVE  HookInv
<1>1. HookTypeOK
  BY AtRestIsEditor, EmptyListHolds DEF HookInit, HookTypeOK, HookEditorStates
<1>2. \A e \in HookEditors : hookEditor[e] = AtRest
  BY DEF HookInit
<1>3. HookPartsInv
  BY <1>2, EmptyListHolds DEF HookInit, HookPartsInv, AtRest
<1> QED BY <1>1, <1>2, <1>3, EmptyListHolds DEF HookInv, AtRest

\* A command that read the list holds its own and what it will promise.
LEMMA HookEdited ==
    ASSUME HookInv, NEW e \in HookEditors, NEW hooks, NEW kept, Edits(e, hooks, kept),
           hooks \in Lists,
           HookPartsInv /\ (\A o \in HookEditors : hookEditor[o].at = "idle")
              => kept = hooks /\ IsInjective(hooks)
    PROVE  HookInv'
<1> DEFINE r == [at |-> "open", hooks |-> hooks, written |-> 0,
                 kept |-> IF hooksDisturbed' THEN <<>> ELSE kept]
<1>1. /\ hookEditor' = [hookEditor EXCEPT ![e] = r]
      /\ hooksDisturbed' = (hooksDisturbed \/ \E o \in HookEditors : hookEditor[o].at # "idle")
      /\ hooksFile' = hooksFile /\ promised' = promised
  BY DEF Edits
<1>2. hookEditor \in [HookEditors -> HookEditorStates] /\ hooksDisturbed \in BOOLEAN
  BY DEF HookInv, HookTypeOK, HookEditorStates
<1>3. ~hooksDisturbed' => /\ HookPartsInv
                          /\ \A o \in HookEditors : hookEditor[o].at = "idle"
                          /\ kept = hooks /\ IsInjective(hooks)
  <2>1. ~hooksDisturbed' => ~hooksDisturbed /\ \A o \in HookEditors : hookEditor[o].at = "idle"
    BY <1>1, <1>2
  <2> QED BY <2>1 DEF HookInv
<1>4. r \in HookEditorStates
  <2>1. r.kept \in Lists /\ 0 \in 0..MaxHooks
    BY <1>3, EmptyListHolds, MaxHooksAssumption
  <2> QED BY <2>1 DEF HookEditorStates
<1>5. \A o \in HookEditors : hookEditor'[o] = IF o = e THEN r ELSE hookEditor[o]
  BY <1>1, <1>2
<1>6. HookTypeOK'
  BY <1>1, <1>2, <1>4 DEF HookInv, HookTypeOK, HookEditorStates
<1>7. \A o \in HookEditors : /\ hookEditor'[o].written <= Len(hookEditor'[o].hooks)
                             /\ hookEditor'[o].at = "open" => hookEditor'[o].written = 0
  <2> TAKE o \in HookEditors
  <2>1. CASE o = e
    <3>1. hookEditor'[o].written = 0 /\ hookEditor'[o].hooks = hooks
      BY <1>5, <2>1
    <3>2. Len(hooks) \in Nat
      BY ListsAreSeqs
    <3> QED BY <3>1, <3>2
  <2>2. CASE o # e
    BY <1>5, <2>2 DEF HookInv
  <2> QED BY <2>1, <2>2
<1>8. ASSUME ~hooksDisturbed' PROVE HookPartsInv'
  <2>1. \A o \in HookEditors : hookEditor'[o].at # "idle" => o = e
    BY <1>3, <1>5, <1>8
  <2>2. /\ hookEditor'[e].at = "open"
        /\ hookEditor'[e].kept = hooks /\ hookEditor'[e].hooks = hooks
    BY <1>3, <1>5, <1>8
  <2>3. hooksFile = [hooks |-> promised, torn |-> FALSE] /\ IsInjective(promised)
    BY <1>3, <1>8 DEF HookPartsInv
  <2> HIDE DEF r
  <2> QED BY <1>1, <1>3, <1>8, <2>1, <2>2, <2>3 DEF HookPartsInv
<1> QED BY <1>6, <1>7, <1>8 DEF HookInv

\* One that adds a hook,
LEMMA HookAddsKeeps ==
    ASSUME HookInv, NEW e \in HookEditors, HookAdds(e)
    PROVE  HookInv'
<1> DEFINE hooks == hooksFile.hooks
           id == next_hook_id(hooks)
<1>1. id \in Ids /\ Len(hooks) < MaxHooks /\ Edits(e, Append(hooks, id), Append(promised, id))
  BY DEF HookAdds
<1>2. hooks \in Lists
  BY DEF HookInv, HookTypeOK
<1>3. Append(hooks, id) \in Lists /\ (IsInjective(hooks) => IsInjective(Append(hooks, id)))
  BY <1>1, <1>2, AppendedIsList
<1>4. HookPartsInv /\ (\A o \in HookEditors : hookEditor[o].at = "idle")
         => promised = hooks /\ IsInjective(hooks)
  BY DEF HookPartsInv
<1> HIDE DEF id, hooks
<1> QED BY <1>1, <1>3, <1>4, HookEdited

\* and one that removes one.
LEMMA HookRemovesKeeps ==
    ASSUME HookInv, NEW e \in HookEditors, NEW id, HookRemoves(e, id)
    PROVE  HookInv'
<1> DEFINE hooks == hooksFile.hooks
           left == IF id \in ToSet(promised) THEN RemoveFirst(promised, id) ELSE promised
<1>1. id \in ToSet(hooks) /\ Edits(e, Without(hooks, id), left)
  BY DEF HookRemoves
<1>2. hooks \in Lists
  BY DEF HookInv, HookTypeOK
<1>3. /\ Without(hooks, id) \in Lists
      /\ IsInjective(hooks) => /\ IsInjective(Without(hooks, id))
                               /\ RemoveFirst(hooks, id) = Without(hooks, id)
  BY <1>1, <1>2, ShortenedIsList
<1>4. HookPartsInv /\ (\A o \in HookEditors : hookEditor[o].at = "idle")
         => promised = hooks /\ IsInjective(hooks)
  BY DEF HookPartsInv
<1>5. HookPartsInv /\ (\A o \in HookEditors : hookEditor[o].at = "idle")
         => left = Without(hooks, id) /\ IsInjective(Without(hooks, id))
  BY <1>1, <1>3, <1>4
<1> HIDE DEF left, hooks
<1> QED BY <1>1, <1>3, <1>5, HookEdited

\* The open empties a file that only this command was to write.
LEMMA HooksOpenedKeeps ==
    ASSUME HookInv, NEW e \in HookEditors, HooksOpened(e)
    PROVE  HookInv'
<1>1. /\ hookEditor[e].at = "open"
      /\ hooksFile' = [hooks |-> <<>>, torn |-> FALSE]
      /\ hookEditor' = [hookEditor EXCEPT ![e].at = "write"]
      /\ promised' = promised /\ hooksDisturbed' = hooksDisturbed
  BY DEF HooksOpened
<1>2. hookEditor \in [HookEditors -> HookEditorStates]
  BY DEF HookInv, HookTypeOK, HookEditorStates
<1>3. \A o \in HookEditors :
         /\ hookEditor'[o] \in HookEditorStates
         /\ hookEditor'[o].at = IF o = e THEN "write" ELSE hookEditor[o].at
         /\ hookEditor'[o].hooks = hookEditor[o].hooks
         /\ hookEditor'[o].kept = hookEditor[o].kept
         /\ hookEditor'[o].written = hookEditor[o].written
  BY <1>1, <1>2 DEF HookEditorStates
<1>4. HookTypeOK'
  <2>1. hookEditor' \in [HookEditors -> HookEditorStates]
    BY <1>1, <1>2, <1>3
  <2> QED BY <1>1, <2>1, EmptyListHolds DEF HookInv, HookTypeOK, HookEditorStates
<1>5. \A o \in HookEditors : /\ hookEditor'[o].written <= Len(hookEditor'[o].hooks)
                             /\ hookEditor'[o].at = "open" => hookEditor'[o].written = 0
  BY <1>3 DEF HookInv
<1>6. ASSUME ~hooksDisturbed' PROVE HookPartsInv'
  <2>1. HookPartsInv
    BY <1>1, <1>6 DEF HookInv
  <2>2. hookEditor[e].written = 0
    BY <1>1 DEF HookInv
  <2>3. \A o \in HookEditors : hookEditor'[o].at # "idle" => o = e
    BY <1>1, <1>3, <2>1 DEF HookPartsInv
  <2>4. hookEditor'[e].at = "write"
    BY <1>3
  <2>5. /\ hooksFile'.hooks = SubSeq(hookEditor'[e].hooks, 1, hookEditor'[e].written)
        /\ ~hooksFile'.torn
    BY <1>1, <1>3, <2>2, EmptyListHolds
  <2>6. hookEditor'[e].kept = hookEditor'[e].hooks /\ IsInjective(hookEditor'[e].hooks)
    BY <1>1, <1>3, <2>1 DEF HookPartsInv
  <2>7. IsInjective(promised')
    BY <1>1, <2>1 DEF HookPartsInv
  <2> QED BY <2>3, <2>4, <2>5, <2>6, <2>7 DEF HookPartsInv
<1> QED BY <1>4, <1>5, <1>6 DEF HookInv

\* What a write leaves in the file is a list.
LEMMA OverwrittenIsFile ==
    ASSUME HookInv, NEW e \in HookEditors, NEW n \in 0..Len(hookEditor[e].hooks),
           NEW torn \in BOOLEAN, NEW f \in Overwritten(e, n, torn)
    PROVE  f \in [hooks : Lists, torn : BOOLEAN]
<1> DEFINE hooks == hookEditor[e].hooks
           theirs == hooksFile.hooks
<1>1. hooks \in Lists /\ theirs \in Lists /\ hooksFile.torn \in BOOLEAN
  BY DEF HookInv, HookTypeOK
<1>2. SubSeq(hooks, 1, n) \in Lists
  BY <1>1, PrefixIsList
<1>3. \A k \in (n + 1)..Len(theirs) :
         SubSeq(hooks, 1, n) \o SubSeq(theirs, k, Len(theirs)) \in Lists
  BY <1>1, MixedIsList
<1>4. \/ f = [hooks |-> SubSeq(hooks, 1, n), torn |-> torn]
      \/ f = [hooks |-> SubSeq(hooks, 1, n), torn |-> TRUE]
      \/ \E k \in (n + 1)..Len(theirs) :
            f = [hooks |-> SubSeq(hooks, 1, n) \o SubSeq(theirs, k, Len(theirs)),
                 torn |-> hooksFile.torn]
  BY DEF Overwritten
<1> HIDE DEF hooks, theirs
<1>5. ASSUME NEW s \in Lists, NEW t \in BOOLEAN, f = [hooks |-> s, torn |-> t]
      PROVE  f \in [hooks : Lists, torn : BOOLEAN]
  BY <1>5
<1> QED BY <1>1, <1>2, <1>3, <1>4, <1>5

\* A write leaves the beginning of the list, when no other command writes.
LEMMA HooksWrittenKeeps ==
    ASSUME HookInv, NEW e \in HookEditors, NEW n, NEW torn \in BOOLEAN, HooksWritten(e, n, torn)
    PROVE  HookInv'
<1>1. /\ hookEditor[e].at = "write"
      /\ n \in hookEditor[e].written..Len(hookEditor[e].hooks)
      /\ torn => n < Len(hookEditor[e].hooks)
      /\ hooksFile' \in Overwritten(e, n, torn)
      /\ hookEditor' = [hookEditor EXCEPT ![e].written = n]
      /\ promised' = promised /\ hooksDisturbed' = hooksDisturbed
  BY DEF HooksWritten
<1>2. hookEditor \in [HookEditors -> HookEditorStates] /\ MaxHooks \in Nat
  BY MaxHooksAssumption DEF HookInv, HookTypeOK, HookEditorStates
<1>3. /\ hookEditor[e].written \in Nat
      /\ hookEditor[e].hooks \in Lists
      /\ Len(hookEditor[e].hooks) \in Nat /\ Len(hookEditor[e].hooks) <= MaxHooks
  <2>1. hookEditor[e] \in HookEditorStates
    BY <1>2
  <2>2. hookEditor[e].written \in 0..MaxHooks /\ hookEditor[e].hooks \in Lists
    BY <2>1 DEF HookEditorStates
  <2> QED BY <1>2, <2>2, ListsAreSeqs
<1>4. n \in 0..Len(hookEditor[e].hooks) /\ n \in 0..MaxHooks
  BY <1>1, <1>2, <1>3
<1>5. \A o \in HookEditors :
         /\ hookEditor'[o] \in HookEditorStates
         /\ hookEditor'[o].at = hookEditor[o].at
         /\ hookEditor'[o].hooks = hookEditor[o].hooks
         /\ hookEditor'[o].kept = hookEditor[o].kept
         /\ hookEditor'[o].written = IF o = e THEN n ELSE hookEditor[o].written
  BY <1>1, <1>2, <1>4 DEF HookEditorStates
<1>6. HookTypeOK'
  <2>1. hookEditor' \in [HookEditors -> HookEditorStates]
    BY <1>1, <1>2, <1>5
  <2>2. hooksFile' \in [hooks : Lists, torn : BOOLEAN]
    BY <1>1, <1>4, OverwrittenIsFile
  <2> QED BY <1>1, <2>1, <2>2 DEF HookInv, HookTypeOK, HookEditorStates
<1>7. \A o \in HookEditors : /\ hookEditor'[o].written <= Len(hookEditor'[o].hooks)
                             /\ hookEditor'[o].at = "open" => hookEditor'[o].written = 0
  <2> TAKE o \in HookEditors
  <2>1. CASE o = e
    BY <1>1, <1>3, <1>4, <1>5, <2>1
  <2>2. CASE o # e
    BY <1>5, <2>2 DEF HookInv
  <2> QED BY <2>1, <2>2
<1>8. ASSUME ~hooksDisturbed' PROVE HookPartsInv'
  <2>1. HookPartsInv
    BY <1>1, <1>8 DEF HookInv
  <2>2. hooksFile.hooks = SubSeq(hookEditor[e].hooks, 1, hookEditor[e].written)
    BY <1>1, <2>1 DEF HookPartsInv
  <2>3. hooksFile' = [hooks |-> SubSeq(hookEditor[e].hooks, 1, n), torn |-> torn]
    BY <1>1, <2>2 DEF Overwritten
  <2>4. \A o \in HookEditors : hookEditor'[o].at # "idle" => o = e
    BY <1>1, <1>5, <2>1 DEF HookPartsInv
  <2>5. hookEditor'[e].kept = hookEditor'[e].hooks /\ IsInjective(hookEditor'[e].hooks)
    BY <1>1, <1>5, <2>1 DEF HookPartsInv
  <2>6. IsInjective(promised')
    BY <1>1, <2>1 DEF HookPartsInv
  <2>7. hookEditor'[e].at = "write"
    BY <1>1, <1>5
  <2>8. /\ hooksFile'.hooks = SubSeq(hookEditor'[e].hooks, 1, hookEditor'[e].written)
        /\ hooksFile'.torn => hookEditor'[e].written < Len(hookEditor'[e].hooks)
    BY <1>1, <1>5, <2>3
  <2> QED BY <2>4, <2>5, <2>6, <2>7, <2>8 DEF HookPartsInv
<1> QED BY <1>6, <1>7, <1>8 DEF HookInv

\* A command that closes the file has written its whole list, or disturbed it.
LEMMA HooksClosedKeeps ==
    ASSUME HookInv, NEW e \in HookEditors, HooksClosed(e)
    PROVE  HookInv'
<1>1. /\ hookEditor[e].at = "write"
      /\ hooksDisturbed' = (hooksDisturbed \/ hookEditor[e].written < Len(hookEditor[e].hooks))
      /\ promised' = IF hooksDisturbed' THEN <<>> ELSE hookEditor[e].kept
      /\ hookEditor' = [hookEditor EXCEPT ![e] = AtRest]
      /\ hooksFile' = hooksFile
  BY DEF HooksClosed
<1>2. hookEditor \in [HookEditors -> HookEditorStates] /\ MaxHooks \in Nat /\ hooksDisturbed \in BOOLEAN
  BY MaxHooksAssumption DEF HookInv, HookTypeOK, HookEditorStates
<1>3. hookEditor[e].kept \in Lists /\ hookEditor[e].hooks \in Lists
  BY <1>2 DEF HookEditorStates
<1>4. HookTypeOK'
  <2>1. promised' \in Lists
    BY <1>1, <1>3, EmptyListHolds
  <2>2. hooksDisturbed' \in BOOLEAN
    BY <1>1
  <2>3. hookEditor' \in [HookEditors -> HookEditorStates]
    BY <1>1, <1>2, AtRestIsEditor
  <2> QED BY <1>1, <2>1, <2>2, <2>3 DEF HookInv, HookTypeOK, HookEditorStates
<1>5. \A o \in HookEditors : hookEditor'[o] = IF o = e THEN AtRest ELSE hookEditor[o]
  BY <1>1, <1>2
<1>6. \A o \in HookEditors : /\ hookEditor'[o].written <= Len(hookEditor'[o].hooks)
                             /\ hookEditor'[o].at = "open" => hookEditor'[o].written = 0
  <2>1. AtRest.written = 0 /\ AtRest.hooks = <<>> /\ AtRest.at = "idle" /\ Len(<<>>) = 0
    BY EmptyListHolds DEF AtRest
  <2> QED BY <1>5, <2>1 DEF HookInv
<1>7. ASSUME ~hooksDisturbed' PROVE HookPartsInv'
  <2>1. HookPartsInv /\ ~(hookEditor[e].written < Len(hookEditor[e].hooks))
    BY <1>1, <1>2, <1>7 DEF HookInv
  <2>2. hookEditor[e].written = Len(hookEditor[e].hooks)
        /\ hookEditor[e].written \in 0..Len(hookEditor[e].hooks)
    <3>1. hookEditor[e].written \in 0..MaxHooks /\ Len(hookEditor[e].hooks) \in Nat
      BY <1>2, <1>3, ListsAreSeqs DEF HookEditorStates
    <3>2. hookEditor[e].written <= Len(hookEditor[e].hooks)
      BY DEF HookInv
    <3> QED BY <1>2, <2>1, <3>1, <3>2
  <2>3. hooksFile.hooks = hookEditor[e].hooks /\ ~hooksFile.torn
    <3>1. hooksFile.hooks = SubSeq(hookEditor[e].hooks, 1, hookEditor[e].written)
          /\ (hooksFile.torn => hookEditor[e].written < Len(hookEditor[e].hooks))
      BY <1>1, <2>1 DEF HookPartsInv
    <3> QED BY <1>3, <2>1, <2>2, <3>1, PrefixIsList
  <2>4. promised' = hookEditor[e].hooks /\ IsInjective(promised')
    BY <1>1, <1>7, <2>1 DEF HookPartsInv
  <2>5. hooksFile' = [hooks |-> promised', torn |-> FALSE]
    <3>1. hooksFile \in [hooks : Lists, torn : BOOLEAN]
      BY DEF HookInv, HookTypeOK
    <3> QED BY <1>1, <2>3, <2>4, <3>1
  <2>6. \A o \in HookEditors : hookEditor'[o].at = "idle"
    BY <1>1, <1>5, <2>1 DEF HookPartsInv, AtRest
  <2> QED BY <2>4, <2>5, <2>6 DEF HookPartsInv
<1> QED BY <1>4, <1>6, <1>7 DEF HookInv

\* A command that is killed before it opened the file leaves it as it was.
LEMMA HookEditorEndsKeeps ==
    ASSUME HookInv, NEW e \in HookEditors, HookEditorEnds(e)
    PROVE  HookInv'
<1>1. /\ hookEditor[e].at # "idle"
      /\ hookEditor' = [hookEditor EXCEPT ![e] = AtRest]
      /\ hooksDisturbed' = (hooksDisturbed \/ hookEditor[e].at = "write")
      /\ hooksFile' = hooksFile /\ promised' = promised
  BY DEF HookEditorEnds
<1>2. hookEditor \in [HookEditors -> HookEditorStates] /\ hooksDisturbed \in BOOLEAN
  BY DEF HookInv, HookTypeOK, HookEditorStates
<1>3. HookTypeOK'
  <2>1. hooksDisturbed' \in BOOLEAN
    BY <1>1
  <2>2. hookEditor' \in [HookEditors -> HookEditorStates]
    BY <1>1, <1>2, AtRestIsEditor
  <2> QED BY <1>1, <2>1, <2>2 DEF HookInv, HookTypeOK, HookEditorStates
<1>4. \A o \in HookEditors : hookEditor'[o] = IF o = e THEN AtRest ELSE hookEditor[o]
  BY <1>1, <1>2
<1>5. \A o \in HookEditors : /\ hookEditor'[o].written <= Len(hookEditor'[o].hooks)
                             /\ hookEditor'[o].at = "open" => hookEditor'[o].written = 0
  <2>1. AtRest.written = 0 /\ AtRest.hooks = <<>> /\ AtRest.at = "idle" /\ Len(<<>>) = 0
    BY EmptyListHolds DEF AtRest
  <2> QED BY <1>4, <2>1 DEF HookInv
<1>6. ASSUME ~hooksDisturbed' PROVE HookPartsInv'
  <2>1. HookPartsInv /\ hookEditor[e].at # "write"
    BY <1>1, <1>2, <1>6 DEF HookInv
  <2>2. \A o \in HookEditors : hookEditor[o].at # "write"
    BY <1>1, <2>1 DEF HookPartsInv
  <2>3. hooksFile = [hooks |-> promised, torn |-> FALSE] /\ IsInjective(promised)
    BY <2>1, <2>2 DEF HookPartsInv
  <2>4. \A o \in HookEditors : hookEditor'[o].at = "idle"
    BY <1>1, <1>4, <2>1 DEF HookPartsInv, AtRest
  <2> QED BY <1>1, <2>3, <2>4 DEF HookPartsInv
<1> QED BY <1>3, <1>5, <1>6 DEF HookInv

\* A step of something else.
LEMMA HookUnchanged ==
    ASSUME HookInv, UNCHANGED hookVars
    PROVE  HookInv'
BY DEF HookInv, HookTypeOK, HookPartsInv, hookVars

\* Every step keeps the invariant.
LEMMA HookStepKeeps ==
    ASSUME HookInv, HookNext
    PROVE  HookInv'
<1>1. PICK e \in HookEditors :
         \/ HookAdds(e) \/ HooksRefused(e)
         \/ HooksOpened(e) \/ HooksClosed(e) \/ HookEditorEnds(e)
         \/ \E id \in Ids : HookRemoves(e, id)
         \/ \E n \in 0..MaxHooks, torn \in BOOLEAN : HooksWritten(e, n, torn)
  BY DEF HookNext
<1>2. CASE HookAdds(e)
  BY <1>2, HookAddsKeeps
<1>3. CASE HooksRefused(e)
  BY <1>3, HookUnchanged DEF HooksRefused
<1>4. CASE HooksOpened(e)
  BY <1>4, HooksOpenedKeeps
<1>5. CASE HooksClosed(e)
  BY <1>5, HooksClosedKeeps
<1>6. CASE HookEditorEnds(e)
  BY <1>6, HookEditorEndsKeeps
<1>7. CASE \E id \in Ids : HookRemoves(e, id)
  BY <1>7, HookRemovesKeeps
<1>8. CASE \E n \in 0..MaxHooks, torn \in BOOLEAN : HooksWritten(e, n, torn)
  BY <1>8, HooksWrittenKeeps
<1> QED BY <1>1, <1>2, <1>3, <1>4, <1>5, <1>6, <1>7, <1>8

\* The hook list has its types and, as long as no edits overlapped and none was cut
\* off (load_hooks and save_hooks, which lock nothing), its parts as HookInv says.
THEOREM HookInvHolds ==
    HookSpec => []HookInv
<1>1. HookInit => HookInv
  BY HookInitHolds
<1>2. HookInv /\ [HookNext]_hookVars => HookInv'
  BY HookStepKeeps, HookUnchanged
<1> QED BY <1>1, <1>2, PTL DEF HookSpec

\* What a command that adds or removes a hook has reported is what hooks.db holds
\* while no other changes it, and no two hooks share a number, however often
\* next_hook_id gives away one that was removed.
THEOREM HooksAreKept ==
    HookSpec => []HooksKept
<1>1. HookInv => HooksKept
  BY DEF HookInv, HookPartsInv, HooksKept
<1> QED BY <1>1, HookInvHolds, PTL

--------------------------------------------------------------------------------
(* What travels over the control socket: the fields of a line                  *)

\* What a field says is read back from what is written of it.
Readable(f) ==
    /\ 1 \in DOMAIN f.says
    /\ \A v \in ToSet(f.says) : Get(f, Put(f, v)) = {v}

\* The fields of a line have names of their own, and each is read back.
Telling(fields) ==
    /\ fields \in Seq(ToSet(fields))
    /\ \A i, j \in DOMAIN fields : fields[i].name = fields[j].name => i = j
    /\ \A i \in DOMAIN fields : Readable(fields[i])

\* A record has these fields and no other, and says of each what can be written.
Fills(fields, r) ==
    /\ r = [name \in FieldNames(fields) |-> r[name]]
    /\ \A i \in DOMAIN fields : r[fields[i].name] \in ToSet(fields[i].says)

LEMMA SaysTwo ==
    ASSUME NEW a, NEW b
    PROVE  DOMAIN <<a, b>> = {1, 2} /\ ToSet(<<a, b>>) = {a, b} /\ <<a, b>>[1] = a
BY DEF ToSet

LEMMA ReadableHex ==
    ASSUME NEW name, name \notin {"true", "false", "none"}
    PROVE  Readable(Hex(name))
<1> DEFINE f == Hex(name)
<1>1. /\ f.says = <<name, "">> /\ f.says[1] = f.name
      /\ f.as = "hex" /\ 1 \in DOMAIN f.says /\ ToSet(f.says) = {name, ""}
  BY SaysTwo DEF Hex
<1>2. \A v \in {name, ""} : Put(f, v) = <<"hex", v>>
  BY <1>1 DEF Put
<1>3. \A v \in {name, ""} : Get(f, <<"hex", v>>) = {v}
  BY <1>1 DEF Get
<1> QED BY <1>1, <1>2, <1>3 DEF Readable

LEMMA ReadableOthers ==
    ASSUME NEW name
    PROVE  /\ name # "1" => Readable(Num(name)) /\ Readable(Channel(name)) /\ Readable(Id(name))
           /\ name # "false" => Readable(Bool(name))
<1>1. name # "1" => Readable(Num(name))
  BY DEF Readable, Num, ToSet, Put, Get
<1>2. name # "1" => Readable(Channel(name))
  BY DEF Readable, Channel, ToSet, Put, Get
<1>3. name # "1" => Readable(Id(name))
  BY DEF Readable, Id, ToSet, Put, Get
<1>4. name # "false" => Readable(Bool(name))
  BY DEF Readable, Bool, ToSet, Put, Get
<1> QED BY <1>1, <1>2, <1>3, <1>4

LEMMA ReadableWords ==
    /\ Readable(Word("target_kind", <<"client", "channel">>))
    /\ Readable(Word("kind", <<"client">>)) /\ Readable(Word("kind", <<"client_database_id">>))
    /\ Readable(Word("phase", Phases))
<1>1. Readable(Word("target_kind", <<"client", "channel">>))
  BY DEF Readable, Word, ToSet, Put, Get
<1>2. Readable(Word("kind", <<"client">>)) /\ Readable(Word("kind", <<"client_database_id">>))
  BY DEF Readable, Word, ToSet, Put, Get
<1>3. Readable(Word("phase", Phases))
  BY DEF Readable, Word, ToSet, Put, Get, Phases
<1> QED BY <1>1, <1>2, <1>3

\* A field is found by its name.
LEMMA FoundByName ==
    ASSUME NEW fields, Telling(fields), NEW i \in DOMAIN fields
    PROVE  /\ (CHOOSE j \in DOMAIN fields : fields[j].name = fields[i].name) = i
           /\ FieldOf(fields, fields[i].name) = fields[i]
           /\ fields[i].name \in FieldNames(fields)
BY DEF Telling, FieldOf, FieldNames

\* A record in which one field says something else is such a record.
LEMMA SaysElse ==
    ASSUME NEW fields, Telling(fields), NEW r, Fills(fields, r),
           NEW k \in DOMAIN fields, NEW v \in ToSet(fields[k].says)
    PROVE  /\ Fills(fields, [r EXCEPT ![fields[k].name] = v])
           /\ [r EXCEPT ![fields[k].name] = v][fields[k].name] = v
<1>1. \A i \in DOMAIN fields : fields[i].name = fields[k].name => i = k
  BY DEF Telling
<1>2. fields[k].name \in FieldNames(fields)
  BY DEF FieldNames
<1> QED BY <1>1, <1>2 DEF FieldNames, Fills

\* The records of a run are such records.
LEMMA RecordsSay ==
    ASSUME NEW fields, Telling(fields), NEW r \in Records(fields)
    PROVE  Fills(fields, r)
<1> DEFINE plain == Plain(fields)
<1>1. Fills(fields, plain)
  BY FoundByName DEF Plain, Telling, Readable, ToSet, Fills
<1>2. CASE r = plain
  BY <1>1, <1>2
<1>3. ASSUME NEW f \in ToSet(fields), NEW v \in ToSet(f.says), r = [plain EXCEPT ![f.name] = v]
      PROVE  Fills(fields, r)
  <2> HIDE DEF plain
  <2>1. PICK k \in DOMAIN fields : f = fields[k]
    BY DEF ToSet
  <2> QED BY <1>1, <1>3, <2>1, SaysElse
<1> QED BY <1>2, <1>3 DEF Records

\* What join_fields puts in a line is what split_fields and the reading of each
\* field make of it.
LEMMA ReadsBack ==
    ASSUME NEW fields, Telling(fields), NEW r, Fills(fields, r)
    PROVE  FieldsRead(fields, Line(fields, r)) = {r}
<1> DEFINE line == Line(fields, r)
           At(name) == CHOOSE i \in DOMAIN fields : fields[i].name = name
<1>1. \A i \in DOMAIN fields : Get(fields[i], line[i]) = {r[fields[i].name]}
  BY DEF Line, Telling, Readable, Fills
<1>2. \A i \in DOMAIN fields : Get(fields[i], line[i]) # {}
  BY <1>1
<1>3. ASSUME NEW name \in FieldNames(fields)
      PROVE  (CHOOSE v \in Get(FieldOf(fields, name), line[At(name)]) : TRUE) = r[name]
  <2>1. PICK i \in DOMAIN fields : name = fields[i].name
    BY DEF FieldNames
  <2>2. FieldOf(fields, name) = fields[i] /\ At(name) = i
    BY <2>1, FoundByName
  <2>3. Get(FieldOf(fields, name), line[At(name)]) = {r[name]}
    BY <1>1, <2>1, <2>2
  <2> QED BY <2>3
<1>4. r = [name \in FieldNames(fields) |-> r[name]]
  BY DEF Fills
<1>5. [name \in FieldNames(fields) |->
         CHOOSE v \in Get(FieldOf(fields, name), line[At(name)]) : TRUE] = r
  <2> HIDE DEF line, At
  <2> QED BY <1>3, <1>4
<1> QED BY <1>2, <1>5 DEF FieldsRead

LEMMA LineLength ==
    ASSUME NEW fields, Telling(fields), NEW r
    PROVE  /\ Line(fields, r) \in Seq({Line(fields, r)[i] : i \in DOMAIN fields})
           /\ Len(Line(fields, r)) = Len(fields) /\ DOMAIN Line(fields, r) = 1 .. Len(fields)
<1>1. Line(fields, r) \in [1 .. Len(fields) -> {Line(fields, r)[i] : i \in DOMAIN fields}]
  BY DEF Line, Telling
<1>2. Len(fields) \in Nat
  BY DEF Telling
<1> QED BY <1>1, <1>2

\* A field has the name it is given.
LEMMA NamesOf ==
    \A n : /\ Hex(n).name = n /\ Num(n).name = n /\ Bool(n).name = n
           /\ Channel(n).name = n /\ Id(n).name = n /\ \A words : Word(n, words).name = n
BY DEF Hex, Num, Bool, Channel, Id, Word

LEMMA TellingConnect ==
    Telling(<<Hex("host"), Num("port"), Hex("nickname"), Hex("identity"),
                   Hex("server_password"), Hex("channel_password"), Hex("default_channel"),
                   Hex("profile_name")>>)
<1> DEFINE t == <<Hex("host"), Num("port"), Hex("nickname"), Hex("identity"),
                   Hex("server_password"), Hex("channel_password"), Hex("default_channel"),
                   Hex("profile_name")>>
<1>1. \A i \in DOMAIN t : Readable(t[i])
  BY ReadableHex, ReadableOthers
<1>2. \A i, j \in DOMAIN t : t[i].name = t[j].name => i = j
  <2>1. /\ t[1].name = "host" /\ t[2].name = "port" /\ t[3].name = "nickname"
        /\ t[4].name = "identity" /\ t[5].name = "server_password"
        /\ t[6].name = "channel_password" /\ t[7].name = "default_channel"
        /\ t[8].name = "profile_name" /\ DOMAIN t = 1 .. 8
    BY NamesOf
  <2> HIDE DEF t
  <2> QED BY <2>1
<1>3. t \in Seq(ToSet(t))
  BY DEF ToSet
<1> QED BY <1>1, <1>2, <1>3 DEF Telling

\* A sequence is one of what is in it.
LEMMA OfItsOwn ==
    ASSUME NEW S, NEW s \in Seq(S)
    PROVE  s \in Seq(ToSet(s))
<1>1. Len(s) \in Nat /\ DOMAIN s = 1 .. Len(s) /\ s \in [1 .. Len(s) -> S]
  OBVIOUS
<1>2. \A i \in 1 .. Len(s) : s[i] \in ToSet(s)
  BY <1>1 DEF ToSet
<1>3. s \in [1 .. Len(s) -> ToSet(s)]
  BY <1>1, <1>2
<1> QED BY <1>1, <1>3

LEMMA TellingJoined ==
    ASSUME NEW a, NEW b, Telling(a), Telling(b), FieldNames(a) \cap FieldNames(b) = {}
    PROVE  Telling(a \o b) /\ FieldNames(a \o b) = FieldNames(a) \cup FieldNames(b)
<1> DEFINE both == ToSet(a) \cup ToSet(b)
<1>1. a \in Seq(both) /\ b \in Seq(both)
  BY DEF Telling
<1>2. /\ a \o b \in Seq(both) /\ Len(a \o b) = Len(a) + Len(b)
      /\ \A i \in 1 .. Len(a) + Len(b) : (a \o b)[i] = IF i <= Len(a) THEN a[i] ELSE b[i - Len(a)]
      /\ Len(a) \in Nat /\ Len(b) \in Nat
      /\ DOMAIN (a \o b) = 1 .. Len(a) + Len(b) /\ DOMAIN a = 1 .. Len(a) /\ DOMAIN b = 1 .. Len(b)
  BY <1>1
<1>3. \A i \in DOMAIN (a \o b) : Readable((a \o b)[i])
  BY <1>2 DEF Telling
<1>4. \A i, j \in DOMAIN (a \o b) : (a \o b)[i].name = (a \o b)[j].name => i = j
  <2> SUFFICES ASSUME NEW i \in DOMAIN (a \o b), NEW j \in DOMAIN (a \o b),
                      (a \o b)[i].name = (a \o b)[j].name
               PROVE  i = j
    OBVIOUS
  <2>1. i \in Int /\ j \in Int /\ i \in 1 .. Len(a) + Len(b) /\ j \in 1 .. Len(a) + Len(b)
    BY <1>2
  <2>2. CASE i <= Len(a) /\ j <= Len(a)
    <3>1. i \in DOMAIN a /\ j \in DOMAIN a /\ (a \o b)[i] = a[i] /\ (a \o b)[j] = a[j]
      BY <1>2, <2>1, <2>2
    <3> QED BY <3>1 DEF Telling
  <2>3. CASE ~(i <= Len(a)) /\ ~(j <= Len(a))
    <3>1. /\ i - Len(a) \in DOMAIN b /\ j - Len(a) \in DOMAIN b
          /\ (a \o b)[i] = b[i - Len(a)] /\ (a \o b)[j] = b[j - Len(a)]
      BY <1>2, <2>1, <2>3
    <3>2. i - Len(a) = j - Len(a)
      BY <3>1 DEF Telling
    <3> QED BY <1>2, <2>1, <3>2
  <2>4. ASSUME NEW m \in 1 .. Len(a) + Len(b), NEW n \in 1 .. Len(a) + Len(b),
               m <= Len(a), ~(n <= Len(a))
        PROVE  (a \o b)[m].name # (a \o b)[n].name
    <3>1. /\ m \in DOMAIN a /\ n - Len(a) \in DOMAIN b
          /\ (a \o b)[m] = a[m] /\ (a \o b)[n] = b[n - Len(a)]
      BY <1>2, <2>4
    <3>2. a[m].name \in FieldNames(a) /\ b[n - Len(a)].name \in FieldNames(b)
      BY <3>1 DEF FieldNames
    <3> QED BY <3>1, <3>2
  <2> QED BY <2>1, <2>2, <2>3, <2>4
<1>5. a \o b \in Seq(ToSet(a \o b))
  BY <1>2, OfItsOwn
<1>6. FieldNames(a \o b) = FieldNames(a) \cup FieldNames(b)
  <2>1. ASSUME NEW i \in DOMAIN (a \o b)
        PROVE  (a \o b)[i].name \in FieldNames(a) \cup FieldNames(b)
    <3>1. \/ i \in DOMAIN a /\ (a \o b)[i] = a[i]
          \/ i - Len(a) \in DOMAIN b /\ (a \o b)[i] = b[i - Len(a)]
      BY <1>2
    <3> QED BY <3>1 DEF FieldNames
  <2>2. ASSUME NEW i \in DOMAIN a PROVE a[i].name \in FieldNames(a \o b)
    <3>1. i \in DOMAIN (a \o b) /\ (a \o b)[i] = a[i]
      BY <1>2
    <3> QED BY <3>1 DEF FieldNames
  <2>3. ASSUME NEW i \in DOMAIN b PROVE b[i].name \in FieldNames(a \o b)
    <3>1. i + Len(a) \in DOMAIN (a \o b) /\ (a \o b)[i + Len(a)] = b[i]
      BY <1>2
    <3> QED BY <3>1 DEF FieldNames
  <2> QED BY <2>1, <2>2, <2>3 DEF FieldNames
<1> QED BY <1>3, <1>4, <1>5, <1>6 DEF Telling

--------------------------------------------------------------------------------
(* The requests, at both ends                                                  *)

\* The commands.
LEMMA TheVerbs ==
    /\ Verbs = {"connect", "disconnect", "plugin_info", "connection_state",
                  "server_info", "list_channels", "list_clients", "get_channel",
                  "get_client", "join_channel", "rename_channel", "set_self_muted",
                  "set_self_speakers_muted", "set_self_away", "send_message",
                  "apply_server_group", "apply_by_database_id", "next_event"}
    /\ DOMAIN Takes = Verbs
BY SMTT(20) DEF Verbs, Sends, Takes, Both, ConnectionSends, ChannelSends, SelfSends, GroupSends,
       ConnectionTakes, ChannelTakes, SelfTakes, PeopleTakes

\* Both ends list the same fields for each of them, and these are told apart.
LEMMA RequestsAgree == \A c \in Verbs : Takes[c] = Sends[c] /\ Telling(Sends[c])
<1>1. /\ Sends["connect"] = <<Hex("host"), Num("port"), Hex("nickname"),
                               Hex("identity"), Hex("server_password"),
                               Hex("channel_password"), Hex("default_channel"),
                               Hex("profile_name")>>
      /\ Takes["connect"] = Sends["connect"]
  BY DEF Sends, Takes, Both, ConnectionSends, ChannelSends, SelfSends, GroupSends,
         ConnectionTakes, ChannelTakes, SelfTakes, PeopleTakes
<1>2. /\ Sends["disconnect"] = <<Hex("reason")>>
      /\ Takes["disconnect"] = Sends["disconnect"]
  BY DEF Sends, Takes, Both, ConnectionSends, ChannelSends, SelfSends, GroupSends,
         ConnectionTakes, ChannelTakes, SelfTakes, PeopleTakes
<1>3. \A c \in {"plugin_info", "connection_state", "server_info", "list_channels",
                    "list_clients"} :
         Takes[c] = Sends[c] /\ Sends[c] = <<>>
  BY SMTT(20) DEF Sends, Takes, Both, ConnectionSends, ChannelSends, SelfSends, GroupSends,
         ConnectionTakes, ChannelTakes, SelfTakes, PeopleTakes
<1>4. \A c \in {"get_channel", "get_client", "join_channel"} :
         Takes[c] = Sends[c] /\ Sends[c] = <<Hex("selector")>>
  BY SMTT(20) DEF Sends, Takes, Both, ConnectionSends, ChannelSends, SelfSends, GroupSends,
         ConnectionTakes, ChannelTakes, SelfTakes, PeopleTakes
<1>5. /\ Sends["rename_channel"] = <<Hex("selector"), Hex("name")>>
      /\ Takes["rename_channel"] = Sends["rename_channel"]
  BY DEF Sends, Takes, Both, ConnectionSends, ChannelSends, SelfSends, GroupSends,
         ConnectionTakes, ChannelTakes, SelfTakes, PeopleTakes
<1>6. \A c \in {"set_self_muted", "set_self_speakers_muted"} :
         Takes[c] = Sends[c] /\ Sends[c] = <<Bool("muted")>>
  <2>1. /\ Sends["set_self_muted"] = <<Bool("muted")>>
        /\ Takes["set_self_muted"] = Sends["set_self_muted"]
    BY DEF Sends, Takes, Both, ConnectionSends, ChannelSends, SelfSends, GroupSends,
           ConnectionTakes, ChannelTakes, SelfTakes, PeopleTakes
  <2>2. /\ Sends["set_self_speakers_muted"] = <<Bool("muted")>>
        /\ Takes["set_self_speakers_muted"] = Sends["set_self_speakers_muted"]
    BY DEF Sends, Takes, Both, ConnectionSends, ChannelSends, SelfSends, GroupSends,
           ConnectionTakes, ChannelTakes, SelfTakes, PeopleTakes
  <2> QED BY <2>1, <2>2
<1>7. /\ Sends["set_self_away"] = <<Bool("away"), Hex("message")>>
      /\ Takes["set_self_away"] = Sends["set_self_away"]
  BY DEF Sends, Takes, Both, ConnectionSends, ChannelSends, SelfSends, GroupSends,
         ConnectionTakes, ChannelTakes, SelfTakes, PeopleTakes
<1>8. /\ Sends["send_message"] = <<Word("target_kind", <<"client", "channel">>),
                                    Hex("target"), Hex("text")>>
      /\ Takes["send_message"] = Sends["send_message"]
  BY DEF Sends, Takes, Both, ConnectionSends, ChannelSends, SelfSends, GroupSends,
         ConnectionTakes, ChannelTakes, SelfTakes, PeopleTakes
<1>9. /\ Sends["apply_server_group"] = <<Hex("group"), Word("kind", <<"client">>),
                                          Hex("target")>>
      /\ Takes["apply_server_group"] = Sends["apply_server_group"]
  BY DEF Sends, Takes, Both, ConnectionSends, ChannelSends, SelfSends, GroupSends,
         ConnectionTakes, ChannelTakes, SelfTakes, PeopleTakes
<1>10. /\ Sends["apply_by_database_id"] = <<Hex("group"),
                                            Word("kind", <<"client_database_id">>),
                                            Id("target")>>
      /\ Takes["apply_by_database_id"] = Sends["apply_by_database_id"]
  BY DEF Sends, Takes, Both, ConnectionSends, ChannelSends, SelfSends, GroupSends,
         ConnectionTakes, ChannelTakes, SelfTakes, PeopleTakes
<1>11. /\ Sends["next_event"] = <<Num("timeout_ms")>>
      /\ Takes["next_event"] = Sends["next_event"]
  BY DEF Sends, Takes, Both, ConnectionSends, ChannelSends, SelfSends, GroupSends,
         ConnectionTakes, ChannelTakes, SelfTakes, PeopleTakes
<1>12. Telling(Sends["connect"])
  BY <1>1, TellingConnect
<1>13. Telling(<<Hex("reason")>>)
  BY ReadableHex, ReadableOthers, NamesOf DEF Telling, ToSet
<1>14. Telling(<<>>)
  BY ReadableHex, ReadableOthers, NamesOf DEF Telling, ToSet
<1>15. Telling(<<Hex("selector")>>)
  BY ReadableHex, ReadableOthers, NamesOf DEF Telling, ToSet
<1>16. Telling(<<Hex("selector"), Hex("name")>>)
  BY ReadableHex, ReadableOthers, NamesOf DEF Telling, ToSet
<1>17. Telling(<<Bool("muted")>>)
  BY ReadableHex, ReadableOthers, NamesOf DEF Telling, ToSet
<1>18. Telling(<<Bool("away"), Hex("message")>>)
  BY ReadableHex, ReadableOthers, NamesOf DEF Telling, ToSet
<1>19. Telling(<<Word("target_kind", <<"client", "channel">>), Hex("target"), Hex("text")>>)
  BY ReadableHex, ReadableOthers, ReadableWords, NamesOf DEF Telling, ToSet
<1>20. Telling(<<Hex("group"), Word("kind", <<"client">>), Hex("target")>>)
  BY ReadableHex, ReadableOthers, ReadableWords, NamesOf DEF Telling, ToSet
<1>21. Telling(<<Hex("group"), Word("kind", <<"client_database_id">>), Id("target")>>)
  BY ReadableHex, ReadableOthers, ReadableWords, NamesOf DEF Telling, ToSet
<1>22. Telling(<<Num("timeout_ms")>>)
  BY ReadableHex, ReadableOthers, NamesOf DEF Telling, ToSet
<1> QED
  BY TheVerbs, <1>1, <1>2, <1>3, <1>4, <1>5, <1>6, <1>7, <1>8, <1>9, <1>10, <1>11, <1>12,
     <1>13, <1>14, <1>15, <1>16, <1>17, <1>18, <1>19, <1>20, <1>21, <1>22

\* What comes after the first two of a line.
LEMMA AfterTwo ==
    ASSUME NEW S, NEW s \in Seq(S), NEW a, NEW b
    PROVE  LET line == <<a, b>> \o s
           IN  /\ Len(line) = 2 + Len(s) /\ line[1] = a /\ line[2] = b
               /\ SubSeq(line, 3, Len(line)) = s
<1> DEFINE T == S \cup {a, b}
           line == <<a, b>> \o s
<1>1. s \in Seq(T) /\ <<a, b>> \in Seq(T) /\ Len(<<a, b>>) = 2 /\ Len(s) \in Nat
  OBVIOUS
<1>2. /\ line \in Seq(T) /\ Len(line) = 2 + Len(s)
      /\ \A i \in 1 .. 2 + Len(s) : line[i] = IF i <= 2 THEN <<a, b>>[i] ELSE s[i - 2]
  BY <1>1
<1>3. line[1] = a /\ line[2] = b
  BY <1>1, <1>2
<1> HIDE DEF line
<1>4. SubSeq(line, 3, 2 + Len(s)) = [i \in 1 .. (2 + Len(s) - 3 + 1) |-> line[3 + i - 1]]
  BY <1>1, <1>2, SubSeqProperties
<1>5. 2 + Len(s) - 3 + 1 = Len(s)
  BY <1>1
<1>6. \A i \in 1 .. Len(s) : line[3 + i - 1] = s[i]
  BY <1>1, <1>2
<1>7. s = [i \in 1 .. Len(s) |-> s[i]]
  OBVIOUS
<1>8. SubSeq(line, 3, 2 + Len(s)) = s
  BY <1>4, <1>5, <1>6, <1>7
<1> QED BY <1>2, <1>3, <1>8 DEF line

\* The two ways to apply a server group have the same verb, and a word between them.
LEMMA GroupsApart ==
    /\ \A r \in Records(Sends["apply_server_group"]) :
          FieldsRead(Takes["apply_by_database_id"], Line(Sends["apply_server_group"], r)) = {}
    /\ \A r \in Records(Sends["apply_by_database_id"]) :
          FieldsRead(Takes["apply_server_group"], Line(Sends["apply_by_database_id"], r)) = {}
<1> DEFINE client == Sends["apply_server_group"]
           database == Sends["apply_by_database_id"]
           Kind(words) == Word("kind", words)
<1>1. /\ DOMAIN client = 1 .. 3 /\ client[2] = Kind(<<"client">>)
      /\ DOMAIN database = 1 .. 3 /\ database[2] = Kind(<<"client_database_id">>)
  BY DEF Sends, Both, ConnectionSends, ChannelSends, SelfSends, GroupSends
<1>2. /\ Takes["apply_server_group"] = client /\ Takes["apply_by_database_id"] = database
      /\ Telling(client) /\ Telling(database)
  BY RequestsAgree, TheVerbs
<1> HIDE DEF client, database
<1>3. /\ ToSet(<<"client">>) = {"client"}
      /\ ToSet(<<"client_database_id">>) = {"client_database_id"}
  BY DEF ToSet
<1>4. /\ Get(Kind(<<"client_database_id">>), Put(Kind(<<"client">>), "client")) = {}
      /\ Get(Kind(<<"client">>), Put(Kind(<<"client_database_id">>), "client_database_id")) = {}
  BY <1>3 DEF Get, Put, Word
<1>5. \A r \in Records(client) : Line(client, r)[2] = Put(Kind(<<"client">>), "client")
  <2> SUFFICES ASSUME NEW r \in Records(client)
               PROVE  Line(client, r)[2] = Put(Kind(<<"client">>), "client")
    OBVIOUS
  <2>1. 2 \in DOMAIN client /\ client[2].says = <<"client">>
    BY <1>1 DEF Word
  <2>2. r[client[2].name] = "client"
    BY <1>2, <1>3, <2>1, RecordsSay DEF Fills
  <2> QED BY <1>1, <2>1, <2>2 DEF Line
<1>6. \A r \in Records(database) :
         Line(database, r)[2] = Put(Kind(<<"client_database_id">>), "client_database_id")
  <2> SUFFICES ASSUME NEW r \in Records(database)
               PROVE  Line(database, r)[2]
                        = Put(Kind(<<"client_database_id">>), "client_database_id")
    OBVIOUS
  <2>1. 2 \in DOMAIN database /\ database[2].says = <<"client_database_id">>
    BY <1>1 DEF Word
  <2>2. r[database[2].name] = "client_database_id"
    BY <1>2, <1>3, <2>1, RecordsSay DEF Fills
  <2> QED BY <1>1, <2>1, <2>2 DEF Line
<1>7. \A r \in Records(client) : FieldsRead(database, Line(client, r)) = {}
  BY <1>1, <1>4, <1>5 DEF FieldsRead
<1>8. \A r \in Records(database) : FieldsRead(client, Line(database, r)) = {}
  BY <1>1, <1>4, <1>6 DEF FieldsRead
<1> QED BY <1>2, <1>7, <1>8 DEF client, database

\* Two commands have one verb only if they are these two.
LEMMA VerbsApart ==
    ASSUME NEW c \in Verbs, NEW d \in Verbs, Verb(c) = Verb(d)
    PROVE  c = d \/ {c, d} = {"apply_server_group", "apply_by_database_id"}
BY TheVerbs DEF Verb

\* handle_client makes of a whole request the call it stands for, and no other.
LEMMA RequestUnderstood ==
    ASSUME NEW c \in Verbs, NEW r \in Records(Sends[c])
    PROVE  Understood(RequestLine(c, r)) = {[command |-> c, request |-> r]}
<1> DEFINE fields == Sends[c]
           line == RequestLine(c, r)
           given == SubSeq(line, 3, Len(line))
           Fits(d) == /\ Verb(d) = line[2]
                      /\ Len(given) >= Len(Takes[d])
                      /\ d \in Counted => Len(given) = Len(Takes[d])
           ByDefault == {[command |-> "disconnect", request |-> [reason |-> "ts disconnect"]] :
                           d \in {e \in {"disconnect"} : given = <<>> /\ line[2] = Verb(e)}}
           Calls == UNION {{[command |-> d, request |-> q] : q \in FieldsRead(Takes[d], given)} :
                           d \in {e \in Verbs : Fits(e)}}
<1>1. Telling(fields) /\ Takes[c] = fields
  BY RequestsAgree
<1>2. /\ Line(fields, r) \in Seq({Line(fields, r)[i] : i \in DOMAIN fields})
      /\ Len(Line(fields, r)) = Len(fields) /\ Len(fields) \in Nat
  <2> HIDE DEF fields
  <2>1. Len(fields) \in Nat
    BY <1>1 DEF Telling
  <2>2. Telling(fields)
    BY <1>1
  <2> QED BY ONLY <2>1, <2>2, LineLength
<1>3. /\ Len(line) = 2 + Len(fields) /\ line[1] = kMagic /\ line[2] = Verb(c)
      /\ given = Line(fields, r)
  <2> HIDE DEF fields
  <2>1. line = <<kMagic, Verb(c)>> \o Line(fields, r)
    BY DEF RequestLine, fields
  <2> HIDE DEF line
  <2> QED BY <1>2, <2>1, AfterTwo
<1>4. ~(given = <<>> /\ line[2] = Verb("disconnect"))
  <2> SUFFICES ASSUME Verb(c) = Verb("disconnect") PROVE Line(fields, r) # <<>>
    BY <1>3
  <2>1. c = "disconnect"
    BY VerbsApart, TheVerbs
  <2>2. Sends["disconnect"] = <<Hex("reason")>>
    BY DEF Sends, Both, ConnectionSends, ChannelSends, SelfSends, GroupSends
  <2>3. Len(Line(fields, r)) = 1
    BY <1>2, <2>1, <2>2
  <2> QED BY <2>3
<1>5. Understood(line) = ByDefault \cup Calls
  <2>1. ~(Len(line) < 2 \/ line[1] # kMagic)
    BY <1>2, <1>3
  <2> HIDE DEF line
  <2> QED BY <2>1 DEF Understood
<1> HIDE DEF line, given, fields
<1>6. Fits(c) /\ FieldsRead(Takes[c], given) = {r}
  BY <1>1, <1>2, <1>3, RecordsSay, ReadsBack DEF fields
<1>7. ASSUME NEW d \in Verbs, Fits(d), d # c PROVE FieldsRead(Takes[d], given) = {}
  <2>1. Verb(d) = Verb(c)
    BY <1>3, <1>7
  <2>2. CASE c = "apply_server_group" /\ d = "apply_by_database_id"
    BY <1>3, <2>2, GroupsApart DEF fields
  <2>3. CASE c = "apply_by_database_id" /\ d = "apply_server_group"
    BY <1>3, <2>3, GroupsApart DEF fields
  <2> QED BY <1>7, <2>1, <2>2, <2>3, VerbsApart
<1> HIDE DEF Fits
<1>8. Calls = {[command |-> c, request |-> r]}
  BY <1>6, <1>7
<1>9. ByDefault = {}
  BY <1>4
<1> QED BY <1>5, <1>8, <1>9 DEF line

--------------------------------------------------------------------------------
(* The answers, at both ends                                                   *)

\* The capture device of a plugin_info.
LEMMA TellingCapture == Telling(Capture)
<1> DEFINE t == Capture
<1>1. \A i \in DOMAIN t : Readable(t[i])
  BY ReadableHex, ReadableOthers DEF Capture
<1>2. \A i, j \in DOMAIN t : t[i].name = t[j].name => i = j
  <2>1. /\ t[1].name = "capture_known" /\ t[2].name = "capture_mode"
        /\ t[3].name = "capture_device" /\ t[4].name = "capture_default"
        /\ DOMAIN t = 1 .. 4
    BY NamesOf DEF Capture
  <2> HIDE DEF t
  <2> QED BY <2>1
<1>3. t \in Seq(ToSet(t))
  BY DEF ToSet, Capture
<1> QED BY <1>1, <1>2, <1>3 DEF Telling

\* Its playback device.
LEMMA TellingPlayback == Telling(Playback)
<1> DEFINE t == Playback
<1>1. \A i \in DOMAIN t : Readable(t[i])
  BY ReadableHex, ReadableOthers DEF Playback
<1>2. \A i, j \in DOMAIN t : t[i].name = t[j].name => i = j
  <2>1. /\ t[1].name = "playback_known" /\ t[2].name = "playback_mode"
        /\ t[3].name = "playback_device" /\ t[4].name = "playback_default"
        /\ DOMAIN t = 1 .. 4
    BY NamesOf DEF Playback
  <2> HIDE DEF t
  <2> QED BY <2>1
<1>3. t \in Seq(ToSet(t))
  BY DEF ToSet, Playback
<1> QED BY <1>1, <1>2, <1>3 DEF Telling

\* A connection_state.
LEMMA TellingConnectionState == Telling(ConnectionStateEncodes)
<1> DEFINE t == ConnectionStateEncodes
<1>1. \A i \in DOMAIN t : Readable(t[i])
  BY ReadableHex, ReadableOthers, ReadableWords DEF ConnectionStateEncodes
<1>2. \A i, j \in DOMAIN t : t[i].name = t[j].name => i = j
  <2>1. /\ t[1].name = "phase" /\ t[2].name = "backend" /\ t[3].name = "connection"
        /\ t[4].name = "server" /\ t[5].name = "port" /\ t[6].name = "nickname"
        /\ t[7].name = "identity" /\ t[8].name = "profile" /\ t[9].name = "mode"
        /\ DOMAIN t = 1 .. 9
    BY NamesOf DEF ConnectionStateEncodes
  <2> HIDE DEF t
  <2> QED BY <2>1
<1>3. t \in Seq(ToSet(t))
  BY DEF ToSet, ConnectionStateEncodes
<1> QED BY <1>1, <1>2, <1>3 DEF Telling

\* A server_info.
LEMMA TellingServerInfo == Telling(ServerInfoEncodes)
<1> DEFINE t == ServerInfoEncodes
<1>1. \A i \in DOMAIN t : Readable(t[i])
  BY ReadableHex, ReadableOthers DEF ServerInfoEncodes
<1>2. \A i, j \in DOMAIN t : t[i].name = t[j].name => i = j
  <2>1. /\ t[1].name = "name" /\ t[2].name = "host" /\ t[3].name = "port"
        /\ t[4].name = "backend" /\ t[5].name = "current_channel"
        /\ t[6].name = "channel_count" /\ t[7].name = "client_count" /\ DOMAIN t = 1 .. 7
    BY NamesOf DEF ServerInfoEncodes
  <2> HIDE DEF t
  <2> QED BY <2>1
<1>3. t \in Seq(ToSet(t))
  BY DEF ToSet, ServerInfoEncodes
<1> QED BY <1>1, <1>2, <1>3 DEF Telling

\* A channel.
LEMMA TellingChannel == Telling(ChannelEncodes)
<1> DEFINE t == ChannelEncodes
<1>1. \A i \in DOMAIN t : Readable(t[i])
  BY ReadableHex, ReadableOthers DEF ChannelEncodes
<1>2. \A i, j \in DOMAIN t : t[i].name = t[j].name => i = j
  <2>1. /\ t[1].name = "id" /\ t[2].name = "name" /\ t[3].name = "parent_id"
        /\ t[4].name = "client_count" /\ t[5].name = "is_default"
        /\ t[6].name = "subscribed" /\ DOMAIN t = 1 .. 6
    BY NamesOf DEF ChannelEncodes
  <2> HIDE DEF t
  <2> QED BY <2>1
<1>3. t \in Seq(ToSet(t))
  BY DEF ToSet, ChannelEncodes
<1> QED BY <1>1, <1>2, <1>3 DEF Telling

\* A client.
LEMMA TellingClient == Telling(ClientEncodes)
<1> DEFINE t == ClientEncodes
<1>1. \A i \in DOMAIN t : Readable(t[i])
  BY ReadableHex, ReadableOthers DEF ClientEncodes
<1>2. \A i, j \in DOMAIN t : t[i].name = t[j].name => i = j
  <2>1. /\ t[1].name = "id" /\ t[2].name = "nickname" /\ t[3].name = "unique_identity"
        /\ t[4].name = "channel_id" /\ t[5].name = "self" /\ t[6].name = "talking"
        /\ DOMAIN t = 1 .. 6
    BY NamesOf DEF ClientEncodes
  <2> HIDE DEF t
  <2> QED BY <2>1
<1>3. t \in Seq(ToSet(t))
  BY DEF ToSet, ClientEncodes
<1> QED BY <1>1, <1>2, <1>3 DEF Telling

\* A server_group_application.
LEMMA TellingApplication == Telling(ApplicationEncodes)
<1> DEFINE t == ApplicationEncodes
<1>1. \A i \in DOMAIN t : Readable(t[i])
  BY ReadableHex, ReadableOthers DEF ApplicationEncodes
<1>2. \A i, j \in DOMAIN t : t[i].name = t[j].name => i = j
  <2>1. /\ t[1].name = "id" /\ t[2].name = "name" /\ t[3].name = "client_database_id"
        /\ t[4].name = "client_present" /\ DOMAIN t = 1 .. 4
    BY NamesOf DEF ApplicationEncodes
  <2> HIDE DEF t
  <2> QED BY <2>1
<1>3. t \in Seq(ToSet(t))
  BY DEF ToSet, ApplicationEncodes
<1> QED BY <1>1, <1>2, <1>3 DEF Telling

\* One field of an event.
LEMMA TellingPair == Telling(Pair)
<1> DEFINE t == Pair
<1>1. \A i \in DOMAIN t : Readable(t[i])
  BY ReadableHex, ReadableOthers DEF Pair
<1>2. \A i, j \in DOMAIN t : t[i].name = t[j].name => i = j
  <2>1. /\ t[1].name = "key" /\ t[2].name = "value" /\ DOMAIN t = 1 .. 2
    BY NamesOf DEF Pair
  <2> HIDE DEF t
  <2> QED BY <2>1
<1>3. t \in Seq(ToSet(t))
  BY DEF ToSet, Pair
<1> QED BY <1>1, <1>2, <1>3 DEF Telling

\* The parts of a plugin_info before and after its two devices.
Backend ==
    <<Hex("backend"), Hex("transport"), Hex("plugin_name"), Hex("plugin_version"),
      Bool("plugin_available"), Hex("socket_path"), Hex("media_transport"),
      Hex("media_socket_path"), Hex("media_format"), Hex("note")>>

Media ==
    <<Hex("pulse_sink"), Hex("pulse_source"), Bool("pulse_source_is_monitor"),
      Bool("consumer_connected"), Bool("playback_active"), Num("queued_playback_samples"),
      Num("active_speaker_count"), Num("dropped_audio_chunks"), Num("dropped_playback_chunks"),
      Hex("last_error"), Bool("custom_capture_device_registered"),
      Hex("custom_capture_device_id"), Hex("custom_capture_device_name"),
      Bool("custom_capture_path_available"), Bool("injected_playback_attached_to_capture"),
      Bool("captured_voice_edit_attached"), Bool("transmit_path_ready"), Hex("transmit_path")>>

\* The backend, its paths and its note.
LEMMA TellingBackend == Telling(Backend)
<1> DEFINE t == Backend
<1>1. \A i \in DOMAIN t : Readable(t[i])
  BY ReadableHex, ReadableOthers DEF Backend
<1>2. \A i, j \in DOMAIN t : t[i].name = t[j].name => i = j
  <2>1. /\ t[1].name = "backend" /\ t[2].name = "transport" /\ t[3].name = "plugin_name"
        /\ t[4].name = "plugin_version" /\ t[5].name = "plugin_available"
        /\ t[6].name = "socket_path" /\ t[7].name = "media_transport"
        /\ t[8].name = "media_socket_path" /\ t[9].name = "media_format"
        /\ t[10].name = "note" /\ DOMAIN t = 1 .. 10
    BY NamesOf DEF Backend
  <2> HIDE DEF t
  <2> QED BY <2>1
<1>3. t \in Seq(ToSet(t))
  BY DEF ToSet, Backend
<1> QED BY <1>1, <1>2, <1>3 DEF Telling

\* The media.
LEMMA TellingMedia == Telling(Media)
<1> DEFINE t == Media
<1>1. \A i \in DOMAIN t : Readable(t[i])
  BY ReadableHex, ReadableOthers DEF Media
<1>2. \A i, j \in DOMAIN t : t[i].name = t[j].name => i = j
  <2>1. /\ t[1].name = "pulse_sink" /\ t[2].name = "pulse_source"
        /\ t[3].name = "pulse_source_is_monitor" /\ t[4].name = "consumer_connected"
        /\ t[5].name = "playback_active" /\ t[6].name = "queued_playback_samples"
        /\ t[7].name = "active_speaker_count" /\ t[8].name = "dropped_audio_chunks"
        /\ t[9].name = "dropped_playback_chunks" /\ t[10].name = "last_error"
        /\ t[11].name = "custom_capture_device_registered"
        /\ t[12].name = "custom_capture_device_id"
        /\ t[13].name = "custom_capture_device_name"
        /\ t[14].name = "custom_capture_path_available"
        /\ t[15].name = "injected_playback_attached_to_capture"
        /\ t[16].name = "captured_voice_edit_attached"
        /\ t[17].name = "transmit_path_ready" /\ t[18].name = "transmit_path"
        /\ DOMAIN t = 1 .. 18
    BY NamesOf DEF Media
  <2> HIDE DEF t
  <2> QED BY <2>1
<1>3. t \in Seq(ToSet(t))
  BY DEF ToSet, Media
<1> QED BY <1>1, <1>2, <1>3 DEF Telling

\* An event, whose count says how many fields follow.
LEMMA TellingEvent ==
    Telling(EventEncodes) /\ FieldNames(EventEncodes) = {"type", "summary", "at", "count"}
<1> DEFINE t == EventEncodes
           count == [Num("count") EXCEPT !.says = Counts]
<1>1. Readable(count)
  <2>1. count = [name |-> "count", as |-> "num", says |-> Counts]
    BY DEF Num
  <2>2. /\ MaxRows \in Nat /\ 1 \in DOMAIN Counts /\ Counts[1] = ToString(0)
        /\ \A i \in DOMAIN Counts : i - 1 \in 0 .. MaxRows /\ Counts[i] = ToString(i - 1)
    BY ProtocolBound DEF Counts
  <2>3. Counts[1] # "count" /\ \A v \in ToSet(Counts) : v \notin {"true", "false", "none"}
    BY <2>2, Numerals DEF ToSet
  <2> HIDE DEF count
  <2>4. \A v \in ToSet(Counts) : Put(count, v) = <<"num", v>>
    BY <2>1, <2>3 DEF Put
  <2>5. \A v \in ToSet(Counts) : Get(count, <<"num", v>>) = {v}
    BY <2>1, <2>3, <2>4 DEF Get
  <2> QED BY <2>1, <2>2, <2>4, <2>5 DEF Readable
<1>2. count.name = "count"
  BY DEF Num
<1>3. t = <<Hex("type"), Hex("summary"), Num("at"), count>>
  BY DEF EventEncodes
<1> HIDE DEF count
<1>4. \A i \in DOMAIN t : Readable(t[i])
  BY <1>1, <1>3, ReadableHex, ReadableOthers
<1>5. /\ t[1].name = "type" /\ t[2].name = "summary" /\ t[3].name = "at" /\ t[4].name = "count"
      /\ DOMAIN t = 1 .. 4
  BY <1>2, <1>3, NamesOf
<1>6. t \in Seq(ToSet(t))
  BY <1>3 DEF ToSet
<1> HIDE DEF t
<1>7. \A i, j \in DOMAIN t : t[i].name = t[j].name => i = j
  BY <1>5
<1>8. FieldNames(t) = {"type", "summary", "at", "count"}
  BY <1>5 DEF FieldNames
<1> QED BY <1>4, <1>6, <1>7, <1>8 DEF Telling, t

\* The names of the fields of a plugin_info, part by part.
LEMMA PluginInfoNames ==
    /\ FieldNames(Backend) = {"backend", "transport", "plugin_name", "plugin_version",
                              "plugin_available", "socket_path", "media_transport",
                              "media_socket_path", "media_format", "note"}
    /\ FieldNames(Capture) = {"capture_known", "capture_mode", "capture_device",
                              "capture_default"}
    /\ FieldNames(Playback) = {"playback_known", "playback_mode", "playback_device",
                               "playback_default"}
    /\ FieldNames(Media) \cap ({"backend", "transport", "plugin_name", "plugin_version",
                              "plugin_available", "socket_path", "media_transport",
                              "media_socket_path", "media_format", "note"}
                              \cup {"capture_known", "capture_mode", "capture_device",
                                    "capture_default"}
                              \cup {"playback_known", "playback_mode", "playback_device",
                                    "playback_default"}) = {}
<1>1. ASSUME NEW t PROVE FieldNames(t) = {t[i].name : i \in DOMAIN t}
  BY DEF FieldNames
<1>2. FieldNames(Backend) = {"backend", "transport", "plugin_name", "plugin_version",
                              "plugin_available", "socket_path", "media_transport",
                              "media_socket_path", "media_format", "note"}
  <2> DEFINE t == Backend
  <2>1. /\ t[1].name = "backend" /\ t[2].name = "transport" /\ t[3].name = "plugin_name"
        /\ t[4].name = "plugin_version" /\ t[5].name = "plugin_available"
        /\ t[6].name = "socket_path" /\ t[7].name = "media_transport"
        /\ t[8].name = "media_socket_path" /\ t[9].name = "media_format"
        /\ t[10].name = "note" /\ DOMAIN t = 1 .. 10
    BY NamesOf DEF Backend
  <2> HIDE DEF t
  <2> QED BY <1>1, <2>1 DEF t
<1>3. FieldNames(Capture) = {"capture_known", "capture_mode", "capture_device",
                              "capture_default"}
  <2> DEFINE t == Capture
  <2>1. /\ t[1].name = "capture_known" /\ t[2].name = "capture_mode"
        /\ t[3].name = "capture_device" /\ t[4].name = "capture_default"
        /\ DOMAIN t = 1 .. 4
    BY NamesOf DEF Capture
  <2> HIDE DEF t
  <2> QED BY <1>1, <2>1 DEF t
<1>4. FieldNames(Playback) = {"playback_known", "playback_mode", "playback_device",
                               "playback_default"}
  <2> DEFINE t == Playback
  <2>1. /\ t[1].name = "playback_known" /\ t[2].name = "playback_mode"
        /\ t[3].name = "playback_device" /\ t[4].name = "playback_default"
        /\ DOMAIN t = 1 .. 4
    BY NamesOf DEF Playback
  <2> HIDE DEF t
  <2> QED BY <1>1, <2>1 DEF t
<1>5. FieldNames(Media) = {"pulse_sink", "pulse_source", "pulse_source_is_monitor",
                           "consumer_connected", "playback_active",
                           "queued_playback_samples", "active_speaker_count",
                           "dropped_audio_chunks", "dropped_playback_chunks", "last_error",
                           "custom_capture_device_registered", "custom_capture_device_id",
                           "custom_capture_device_name", "custom_capture_path_available",
                           "injected_playback_attached_to_capture",
                           "captured_voice_edit_attached", "transmit_path_ready",
                           "transmit_path"}
  <2> DEFINE t == Media
  <2>1. /\ t[1].name = "pulse_sink" /\ t[2].name = "pulse_source"
        /\ t[3].name = "pulse_source_is_monitor" /\ t[4].name = "consumer_connected"
        /\ t[5].name = "playback_active" /\ t[6].name = "queued_playback_samples"
        /\ t[7].name = "active_speaker_count" /\ t[8].name = "dropped_audio_chunks"
        /\ t[9].name = "dropped_playback_chunks" /\ t[10].name = "last_error"
        /\ t[11].name = "custom_capture_device_registered"
        /\ t[12].name = "custom_capture_device_id"
        /\ t[13].name = "custom_capture_device_name"
        /\ t[14].name = "custom_capture_path_available"
        /\ t[15].name = "injected_playback_attached_to_capture"
        /\ t[16].name = "captured_voice_edit_attached"
        /\ t[17].name = "transmit_path_ready" /\ t[18].name = "transmit_path"
        /\ DOMAIN t = 1 .. 18
    BY NamesOf DEF Media
  <2> HIDE DEF t
  <2> QED BY <1>1, <2>1 DEF t
<1> QED BY <1>2, <1>3, <1>4, <1>5

\* A plugin_info: its parts are told apart, and both ends have them in one order.
LEMMA TellingPluginInfo ==
    /\ Telling(PluginInfoEncodes)
    /\ PluginInfoDecodes \o DiagnosticsDecodes = PluginInfoEncodes
<1> DEFINE front == Backend \o Capture
           most == front \o Playback
<1>1. Telling(Backend) /\ Telling(Media) /\ Telling(Capture) /\ Telling(Playback)
  BY TellingBackend, TellingMedia, TellingCapture, TellingPlayback 
<1>2. /\ PluginInfoEncodes = ((Backend \o Capture) \o Playback) \o Media
      /\ PluginInfoDecodes = Backend /\ DiagnosticsDecodes = (Capture \o Playback) \o Media
  BY DEF PluginInfoEncodes, PluginInfoDecodes, DiagnosticsDecodes, Backend, Media
<1>3. Telling(front) /\ FieldNames(front) = FieldNames(Backend) \cup FieldNames(Capture)
  <2>1. FieldNames(Backend) \cap FieldNames(Capture) = {}
    BY PluginInfoNames
  <2> QED BY <1>1, <2>1, TellingJoined
<1> HIDE DEF front
<1>4. Telling(most) /\ FieldNames(most) = FieldNames(front) \cup FieldNames(Playback)
  <2>1. FieldNames(front) \cap FieldNames(Playback) = {}
    BY <1>3, PluginInfoNames
  <2> QED BY <1>1, <1>3, <2>1, TellingJoined
<1> HIDE DEF most
<1>5. Telling(most \o Media)
  <2>1. FieldNames(most) \cap FieldNames(Media) = {}
    BY <1>3, <1>4, PluginInfoNames
  <2> QED BY <1>1, <1>4, <2>1, TellingJoined
<1>6. Backend \o ((Capture \o Playback) \o Media) = ((Backend \o Capture) \o Playback) \o Media
  <2> DEFINE S == (ToSet(Backend) \cup ToSet(Capture)) \cup (ToSet(Playback) \cup ToSet(Media))
  <2>1. Backend \in Seq(S) /\ Capture \in Seq(S) /\ Playback \in Seq(S) /\ Media \in Seq(S)
    BY <1>1 DEF Telling
  <2> HIDE DEF S
  <2> DEFINE middle == Capture \o Playback
  <2>2. middle \in Seq(S)
    BY <2>1
  <2>4. Backend \o middle = (Backend \o Capture) \o Playback
    BY ONLY <2>1, ConcatAssociative
  <2> HIDE DEF middle
  <2>3. Backend \o (middle \o Media) = (Backend \o middle) \o Media
    <3>1. Backend \in Seq(S) /\ Media \in Seq(S)
      BY <2>1
    <3>2. (Backend \o middle) \o Media = Backend \o (middle \o Media)
      BY ONLY <2>2, <3>1, ConcatAssociative
    <3> QED BY ONLY <3>2
  <2> USE DEF middle
  <2> QED BY ONLY <2>3, <2>4
<1> QED BY <1>2, <1>5, <1>6 DEF most, front

\* What is encoded is told apart, and decoded field by field.
LEMMA AnswersAgree ==
    \A kind \in {"plugin_info", "connection_state", "server_info", "channel", "client",
                 "server_group_application", "event"} :
       Decodes[kind] = Encodes[kind] /\ Telling(Encodes[kind])
<1>1. /\ Encodes["plugin_info"] = PluginInfoEncodes
      /\ Encodes["connection_state"] = ConnectionStateEncodes
      /\ Encodes["server_info"] = ServerInfoEncodes
      /\ Encodes["channel"] = ChannelEncodes
      /\ Encodes["client"] = ClientEncodes
      /\ Encodes["server_group_application"] = ApplicationEncodes
      /\ Encodes["event"] = EventEncodes
  BY DEF Encodes
<1>2. /\ Decodes["plugin_info"] = PluginInfoDecodes \o DiagnosticsDecodes
      /\ Decodes["connection_state"] = ConnectionStateEncodes
      /\ Decodes["server_info"] = ServerInfoEncodes
      /\ Decodes["channel"] = ChannelEncodes
      /\ Decodes["client"] = ClientEncodes
      /\ Decodes["server_group_application"] = ApplicationEncodes
      /\ Decodes["event"] = EventEncodes
  BY DEF Decodes, ConnectionStateEncodes, ServerInfoEncodes, ChannelEncodes, ClientEncodes,
         ApplicationEncodes, EventEncodes, ConnectionStateDecodes, ServerInfoDecodes,
         ChannelDecodes, ClientDecodes, ApplicationDecodes, EventDecodes
<1> QED
  BY ONLY <1>1, <1>2, TellingPluginInfo, TellingConnectionState, TellingServerInfo, TellingChannel,
     TellingClient, TellingApplication, TellingEvent

\* What comes after the first of a line.
LEMMA AfterOne ==
    ASSUME NEW S, NEW s \in Seq(S), NEW a
    PROVE  /\ <<a>> \o s \in Seq(S \cup {a}) /\ Len(<<a>> \o s) = 1 + Len(s) /\ (<<a>> \o s)[1] = a
           /\ Tail(<<a>> \o s) = s /\ \A i \in 1 .. Len(s) : (<<a>> \o s)[i + 1] = s[i]
<1> DEFINE line == <<a>> \o s
<1>1. s \in Seq(S \cup {a}) /\ <<a>> \in Seq(S \cup {a}) /\ Len(<<a>>) = 1 /\ Len(s) \in Nat
  OBVIOUS
<1>2. /\ line \in Seq(S \cup {a}) /\ Len(line) = 1 + Len(s)
      /\ \A i \in 1 .. 1 + Len(s) : line[i] = IF i <= 1 THEN <<a>>[i] ELSE s[i - 1]
  BY <1>1, ConcatProperties
<1>3. line[1] = a /\ \A i \in 1 .. Len(s) : line[i + 1] = s[i]
  BY <1>1, <1>2
<1> HIDE DEF line
<1>4. line # <<>>
  BY <1>1, <1>2
<1>5. /\ Tail(line) \in Seq(S \cup {a}) /\ Len(Tail(line)) = Len(s)
      /\ \A i \in 1 .. Len(s) : Tail(line)[i] = s[i]
  BY <1>1, <1>2, <1>3, <1>4, HeadTailProperties
<1>6. Tail(line) = s
  BY <1>1, <1>5
<1> QED BY <1>2, <1>3, <1>6 DEF line

RowKinds == {"plugin_info", "connection_state", "server_info", "channel", "client",
          "server_group_application", "event"}

\* An encoded row: its length, its kind and its fields.
LEMMA RowIs ==
    ASSUME NEW kind \in RowKinds, NEW r
    PROVE  /\ \E S : EncodedRow(kind, r) \in Seq(S)
           /\ Len(EncodedRow(kind, r)) = 1 + Len(Encodes[kind])
           /\ EncodedRow(kind, r)[1] = <<"word", kind>>
           /\ Tail(EncodedRow(kind, r)) = Line(Encodes[kind], r)
           /\ \A i \in 1 .. Len(Encodes[kind]) : EncodedRow(kind, r)[i + 1] = Line(Encodes[kind], r)[i]
           /\ EncodedRow(kind, r) # Head1("end")
<1> DEFINE fields == Encodes[kind]
           s == Line(fields, r)
           row == EncodedRow(kind, r)
<1>1. Telling(fields)
  BY AnswersAgree DEF RowKinds
<1>2. /\ s \in Seq({s[i] : i \in DOMAIN fields}) /\ Len(s) = Len(fields)
  <2> HIDE DEF fields
  <2> QED BY <1>1, LineLength
<1>3. Len(fields) \in Nat
  BY <1>1 DEF Telling
<1>4. row = << <<"word", kind>> >> \o s
  BY DEF EncodedRow, Head1
<1> HIDE DEF fields, s, row
<1>5. /\ row \in Seq({s[i] : i \in DOMAIN fields} \cup {<<"word", kind>>}) /\ Len(row) = 1 + Len(fields)
      /\ row[1] = <<"word", kind>> /\ Tail(row) = s
      /\ \A i \in 1 .. Len(fields) : row[i + 1] = s[i]
  <2> DEFINE S == {s[i] : i \in DOMAIN fields}
             a == <<"word", kind>>
  <2> HIDE DEF S, a
  <2>1. s \in Seq(S) /\ row = <<a>> \o s
    BY <1>2, <1>4 DEF S, a
  <2>2. /\ row \in Seq(S \cup {a}) /\ Len(row) = 1 + Len(s) /\ row[1] = a /\ Tail(row) = s
        /\ \A i \in 1 .. Len(s) : row[i + 1] = s[i]
    BY <2>1, AfterOne
  <2> QED BY <1>2, <2>2 DEF S, a
<1>6. row # Head1("end")
  BY <1>5 DEF Head1, RowKinds
<1>7. \E S : row \in Seq(S)
  BY <1>5
<1> QED BY <1>5, <1>6, <1>7 DEF fields, s, row

\* decode reads back a row that encode wrote.
LEMMA RowReadsBack ==
    ASSUME NEW kind \in RowKinds, NEW r, Fills(Encodes[kind], r)
    PROVE  DecodedRow(kind, EncodedRow(kind, r)) = {r}
<1>1. Telling(Encodes[kind]) /\ Decodes[kind] = Encodes[kind]
  BY AnswersAgree DEF RowKinds
<1>2. FieldsRead(Decodes[kind], Line(Encodes[kind], r)) = {r}
  BY <1>1, ReadsBack
<1> QED BY <1>1, <1>2, RowIs DEF DecodedRow

\* decode_channels and decode_clients read back a list.
LEMMA RowsReadBack ==
    ASSUME NEW kind \in RowKinds, NEW n \in Nat, NEW v, v = [i \in 1 .. n |-> v[i]],
           \A i \in 1 .. n : Fills(Encodes[kind], v[i])
    PROVE  /\ DecodedRows(kind, [i \in 1 .. n |-> EncodedRow(kind, v[i])]) = {v}
           /\ \A i \in 1 .. n : EncodedRow(kind, v[i]) # Head1("end")
<1> DEFINE lines == [i \in 1 .. n |-> EncodedRow(kind, v[i])]
<1>1. \A i \in 1 .. n : DecodedRow(kind, lines[i]) = {v[i]}
  BY RowReadsBack
<1>2. DOMAIN lines = 1 .. n
  OBVIOUS
<1> HIDE DEF lines
<1>3. ~ \E i \in DOMAIN lines : DecodedRow(kind, lines[i]) = {}
  BY <1>1, <1>2
<1>4. [i \in DOMAIN lines |-> CHOOSE r \in DecodedRow(kind, lines[i]) : TRUE] = v
  BY <1>1, <1>2
<1>5. DecodedRows(kind, lines) = {v}
  BY <1>3, <1>4 DEF DecodedRows
<1> QED BY <1>5, RowIs DEF lines

\* A payload is a sequence of lines, none of them the last one of an answer, and
\* it is decoded to the value it encodes.
Arrives(type, v) ==
    /\ \E n \in Nat : Encoded(type, v) = [i \in 1 .. n |-> Encoded(type, v)[i]]
    /\ \A i \in DOMAIN Encoded(type, v) : Encoded(type, v)[i] # Head1("end")
    /\ Decoded(type, Encoded(type, v)) = {v}

LEMMA VoidArrives == \A v \in Returned("void") : Arrives("void", v)
<1>1. Returned("void") = {<<>>}
  BY DEF Returned
<1>2. Encoded("void", <<>>) = <<>> /\ Decoded("void", <<>>) = {<<>>}
  BY DEF Encoded, Decoded
<1>3. <<>> = [i \in 1 .. 0 |-> <<>>[i]] /\ DOMAIN <<>> = {}
  OBVIOUS
<1> QED BY <1>1, <1>2, <1>3 DEF Arrives

\* A list of records, as the backend returns it.
LEMMA ListsSay ==
    ASSUME NEW kind \in RowKinds, NEW n \in 0 .. MaxRows, NEW v \in [1 .. n -> Records(Encodes[kind])]
    PROVE  /\ n \in Nat /\ v = [i \in 1 .. n |-> v[i]]
           /\ \A i \in 1 .. n : Fills(Encodes[kind], v[i])
<1>1. n \in Nat
  BY ProtocolBound
<1>2. Telling(Encodes[kind])
  BY AnswersAgree DEF RowKinds
<1>3. \A i \in 1 .. n : Fills(Encodes[kind], v[i])
  BY <1>2, RecordsSay
<1> QED BY <1>1, <1>3

LEMMA ListsArrive ==
    \A type \in {"channels", "clients"} : \A v \in Returned(type) : Arrives(type, v)
<1> SUFFICES ASSUME NEW type \in {"channels", "clients"}, NEW v \in Returned(type)
             PROVE  Arrives(type, v)
  OBVIOUS
<1> DEFINE kind == IF type = "channels" THEN "channel" ELSE "client"
<1>1. kind \in RowKinds
  BY DEF RowKinds
<1>2. Returned(type) = UNION {[1 .. n -> Records(Encodes[kind])] : n \in 0 .. MaxRows}
  BY DEF Returned, Encodes
<1>3. \A lines : Decoded(type, lines) = DecodedRows(kind, lines)
  BY DEF Decoded
<1>4. PICK n \in 0 .. MaxRows : v \in [1 .. n -> Records(Encodes[kind])]
  BY <1>2
<1> DEFINE lines == [i \in 1 .. n |-> EncodedRow(kind, v[i])]
<1>5. Encoded(type, v) = lines
  BY <1>4 DEF Encoded
<1> HIDE DEF kind
<1>6. n \in Nat /\ v = [i \in 1 .. n |-> v[i]] /\ \A i \in 1 .. n : Fills(Encodes[kind], v[i])
  BY <1>1, <1>4, ListsSay
<1>7. /\ DecodedRows(kind, lines) = {v}
      /\ \A i \in 1 .. n : EncodedRow(kind, v[i]) # Head1("end")
  BY <1>1, <1>6, RowsReadBack
<1>8. DOMAIN lines = 1 .. n /\ \A i \in 1 .. n : lines[i] # Head1("end")
  BY <1>7
<1>9. lines = [i \in 1 .. n |-> lines[i]]
  OBVIOUS
<1> HIDE DEF lines
<1> QED BY <1>3, <1>5, <1>6, <1>7, <1>8, <1>9 DEF Arrives

\* One channel or one client is a list of one, of which the first is taken.
LEMMA RowArrives ==
    \A type \in {"channel", "client", "plugin_info", "connection_state", "server_info"} :
       \A v \in Returned(type) : Arrives(type, v)
<1> SUFFICES ASSUME NEW type \in {"channel", "client", "plugin_info", "connection_state",
                                  "server_info"},
                    NEW v \in Returned(type)
             PROVE  Arrives(type, v)
  OBVIOUS
<1>1. Returned(type) = {<<r>> : r \in Records(Encodes[type])}
  BY DEF Returned
<1>2. PICK r \in Records(Encodes[type]) : v = <<r>>
  BY <1>1
<1>3. type \in RowKinds /\ Telling(Encodes[type])
  BY AnswersAgree DEF RowKinds
<1>4. Fills(Encodes[type], r)
  BY <1>3, RecordsSay
<1> DEFINE row == EncodedRow(type, r)
<1>5. Encoded(type, v) = <<row>>
  BY <1>2 DEF Encoded
<1>6. row # Head1("end") /\ DecodedRow(type, row) = {r}
  BY <1>3, <1>4, RowIs, RowReadsBack
<1> HIDE DEF row
<1>7. Decoded(type, <<row>>) = {v}
  <2>1. CASE type \in {"channel", "client"}
    <3>1. Decoded(type, <<row>>) = {<<rows[1]>> : rows \in DecodedRows(type, <<row>>)}
      BY <2>1 DEF Decoded
    <3>2. DecodedRows(type, <<row>>) = {<<r>>}
      <4> DEFINE lines == <<row>>
      <4>1. DOMAIN lines = {1} /\ lines[1] = row
        OBVIOUS
      <4> HIDE DEF lines
      <4>2. [i \in DOMAIN lines |-> CHOOSE q \in DecodedRow(type, lines[i]) : TRUE] = <<r>>
        BY <1>6, <4>1
      <4>3. DecodedRows(type, lines) = {<<r>>}
        BY <1>6, <4>1, <4>2 DEF DecodedRows
      <4> QED BY <4>3 DEF lines
    <3> QED BY <1>2, <3>1, <3>2
  <2>2. CASE type \notin {"channel", "client"}
    <3>1. Decoded(type, <<row>>) = {<<q>> : q \in DecodedRow(type, row)}
      BY <2>2 DEF Decoded
    <3> QED BY <1>2, <1>6, <3>1
  <2> QED BY <2>1, <2>2
<1>8. <<row>> = [i \in 1 .. 1 |-> <<row>>[i]] /\ DOMAIN <<row>> = {1} /\ <<row>>[1] = row
  OBVIOUS
<1>9. \A i \in DOMAIN <<row>> : <<row>>[i] # Head1("end")
  BY <1>6, <1>8
<1> QED BY <1>5, <1>7, <1>8, <1>9 DEF Arrives

\* An application of a server group, with its client or without.
LEMMA ApplicationArrives ==
    \A v \in Returned("server_group_application") : Arrives("server_group_application", v)
<1> DEFINE type == "server_group_application"
           fields == ApplicationEncodes
           Present(a, is) == [a EXCEPT !.client_present = is]
<1> SUFFICES ASSUME NEW v \in Returned(type) PROVE Arrives(type, v)
  OBVIOUS
<1>1. Returned(type) = UNION {{<<Present(a, "false")>>}
                              \cup {<<Present(a, "true"), c>> : c \in Records(ClientEncodes)} :
                              a \in Records(fields)}
  BY DEF Returned
<1>2. PICK a \in Records(fields) :
         v \in {<<Present(a, "false")>>}
               \cup {<<Present(a, "true"), c>> : c \in Records(ClientEncodes)}
  BY <1>1
<1>3. /\ Encodes[type] = fields /\ Encodes["client"] = ClientEncodes
      /\ Telling(fields) /\ Telling(ClientEncodes) /\ type \in RowKinds /\ "client" \in RowKinds
  BY TellingApplication, TellingClient DEF Encodes, RowKinds
<1>4. ASSUME NEW is \in {"false", "true"}
      PROVE  Fills(fields, Present(a, is)) /\ Present(a, is).client_present = is
  <2>1. 4 \in DOMAIN fields /\ fields[4].name = "client_present" /\ is \in ToSet(fields[4].says)
    BY DEF ApplicationEncodes, Bool, ToSet
  <2>2. Fills(fields, a)
    BY <1>3, RecordsSay
  <2>3. /\ Fills(fields, [a EXCEPT ![fields[4].name] = is])
        /\ [a EXCEPT ![fields[4].name] = is][fields[4].name] = is
    BY <1>3, <2>1, <2>2, SaysElse
  <2> QED BY <2>1, <2>3
<1>5. CASE v = <<Present(a, "false")>>
  <2> DEFINE b == Present(a, "false")
             row == EncodedRow(type, b)
  <2>1. row # Head1("end") /\ DecodedRow(type, row) = {b} /\ b.client_present = "false"
    BY <1>3, <1>4, RowIs, RowReadsBack
  <2>2. Encoded(type, <<b>>) = <<row>>
    BY DEF Encoded
  <2> HIDE DEF row, b
  <2>3. DecodedRows("client", <<>>) = {<<>>}
    BY DEF DecodedRows
  <2> DEFINE lines == <<row>>
  <2>4. Len(lines) = 1 /\ lines[1] = row /\ Tail(lines) = <<>> /\ DOMAIN lines = {1}
        /\ lines = [i \in 1 .. 1 |-> lines[i]]
    OBVIOUS
  <2> HIDE DEF lines
  <2>5. DecodedApplication(lines) = {<<b>> \o <<>>}
    <3> DEFINE heads == {h \in DecodedRow(type, lines[1]) :
                            (h.client_present = "true") = (Len(lines) = 2)}
               more == DecodedRows("client", Tail(lines))
    <3>1. (b.client_present = "true") = (Len(lines) = 2)
      BY <2>1, <2>4
    <3>2. heads = {b} /\ more = {<<>>}
      BY <2>1, <2>3, <2>4, <3>1
    <3>3. Len(lines) \in {1, 2}
      BY <2>4
    <3>4. DecodedApplication(lines) = {<<h>> \o cs : h \in heads, cs \in more}
      BY <3>3 DEF DecodedApplication
    <3> HIDE DEF heads, more
    <3> QED BY <3>2, <3>4
  <2>6. <<b>> \o <<>> = <<b>>
    OBVIOUS
  <2>7. Decoded(type, lines) = {<<b>>}
    BY <2>5, <2>6 DEF Decoded
  <2>8. \A i \in DOMAIN lines : lines[i] # Head1("end")
    BY <2>1, <2>4
  <2>9. v = <<b>> /\ Encoded(type, v) = lines
    BY <1>5, <2>2 DEF b, lines
  <2> QED BY <2>4, <2>7, <2>8, <2>9 DEF Arrives
<1>6. ASSUME NEW c \in Records(ClientEncodes), v = <<Present(a, "true"), c>>
      PROVE  Arrives(type, v)
  <2> DEFINE b == Present(a, "true")
             row == EncodedRow(type, b)
             also == EncodedRow("client", c)
  <2>1. row # Head1("end") /\ DecodedRow(type, row) = {b} /\ b.client_present = "true"
    BY <1>3, <1>4, RowIs, RowReadsBack
  <2>2. also # Head1("end") /\ DecodedRow("client", also) = {c}
    BY <1>3, RecordsSay, RowIs, RowReadsBack
  <2>3. Encoded(type, <<b, c>>) = <<row, also>>
    BY DEF Encoded
  <2> HIDE DEF row, also, b
  <2>4. DecodedRows("client", <<also>>) = {<<c>>}
    <3> DEFINE one == <<also>>
    <3>1. DOMAIN one = {1} /\ one[1] = also
      OBVIOUS
    <3> HIDE DEF one
    <3>2. [i \in DOMAIN one |-> CHOOSE q \in DecodedRow("client", one[i]) : TRUE] = <<c>>
      BY <2>2, <3>1
    <3>3. DecodedRows("client", one) = {<<c>>}
      BY <2>2, <3>1, <3>2 DEF DecodedRows
    <3> QED BY <3>3 DEF one
  <2> DEFINE lines == <<row, also>>
  <2>5. Len(lines) = 2 /\ lines[1] = row /\ lines[2] = also /\ Tail(lines) = <<also>>
        /\ DOMAIN lines = {1, 2} /\ lines = [i \in 1 .. 2 |-> lines[i]]
    OBVIOUS
  <2> HIDE DEF lines
  <2>6. DecodedApplication(lines) = {<<b>> \o <<c>>}
    <3> DEFINE heads == {h \in DecodedRow(type, lines[1]) :
                            (h.client_present = "true") = (Len(lines) = 2)}
               more == DecodedRows("client", Tail(lines))
    <3>1. (b.client_present = "true") = (Len(lines) = 2)
      BY <2>1, <2>5
    <3>2. heads = {b} /\ more = {<<c>>}
      BY <2>1, <2>4, <2>5, <3>1
    <3>3. Len(lines) \in {1, 2}
      BY <2>5
    <3>4. DecodedApplication(lines) = {<<h>> \o cs : h \in heads, cs \in more}
      BY <3>3 DEF DecodedApplication
    <3> HIDE DEF heads, more
    <3> QED BY <3>2, <3>4
  <2>7. <<b>> \o <<c>> = <<b, c>>
    <3> DEFINE S == {b, c}
    <3>1. <<b>> \in Seq(S) /\ <<c>> \in Seq(S) /\ Len(<<b>>) = 1 /\ Len(<<c>>) = 1
      OBVIOUS
    <3>2. /\ <<b>> \o <<c>> \in Seq(S) /\ Len(<<b>> \o <<c>>) = 2
          /\ \A i \in 1 .. 2 : (<<b>> \o <<c>>)[i] = IF i <= 1 THEN <<b>>[i] ELSE <<c>>[i - 1]
      BY <3>1, ConcatProperties
    <3> DEFINE t == <<b>> \o <<c>>
    <3>3. t \in Seq(S) /\ Len(t) = 2 /\ t[1] = b /\ t[2] = c
      BY <3>2
    <3> HIDE DEF t
    <3>4. t = [i \in 1 .. 2 |-> t[i]]
      BY <3>3
    <3>5. t = [i \in 1 .. 2 |-> IF i = 1 THEN b ELSE c]
      BY <3>3, <3>4
    <3>6. <<b, c>> = [i \in 1 .. 2 |-> IF i = 1 THEN b ELSE c]
      OBVIOUS
    <3> QED BY <3>5, <3>6 DEF t
  <2>8. Decoded(type, lines) = {<<b, c>>}
    BY <2>6, <2>7 DEF Decoded
  <2>9. \A i \in DOMAIN lines : lines[i] # Head1("end")
    BY <2>1, <2>2, <2>5
  <2>10. v = <<b, c>> /\ Encoded(type, v) = lines
    BY <1>6, <2>3 DEF b, lines
  <2> QED BY <2>5, <2>8, <2>9, <2>10 DEF Arrives
<1> QED BY <1>2, <1>5, <1>6

\* A function on the first n numbers is a sequence.
LEMMA SequenceOf ==
    ASSUME NEW S, NEW n \in Nat, NEW f \in [1 .. n -> S]
    PROVE  f \in Seq(S) /\ Len(f) = n
OBVIOUS

\* n pairs one after the other.
TwoByTwo(s, n) == [k \in 1 .. 2 * n |-> s[(k + 1) \div 2][IF k % 2 = 1 THEN 1 ELSE 2]]

LEMMA TwoByTwoStep ==
    ASSUME NEW S, NEW s, NEW n \in Nat, NEW i \in Nat, i + 1 <= n,
           \A j \in 1 .. n : s[j] \in [1 .. 2 -> S]
    PROVE  /\ TwoByTwo(s, i) \in Seq(S) /\ Len(TwoByTwo(s, i)) = 2 * i
           /\ TwoByTwo(s, i + 1) = TwoByTwo(s, i) \o s[i + 1]
           /\ TwoByTwo(s, 1) = s[1]
<1>1. ASSUME NEW m \in Nat, m <= n
      PROVE  TwoByTwo(s, m) \in [1 .. 2 * m -> S]
  <2>1. ASSUME NEW k \in 1 .. 2 * m
        PROVE  s[(k + 1) \div 2][IF k % 2 = 1 THEN 1 ELSE 2] \in S
    <3>1. (k + 1) \div 2 \in 1 .. n /\ (IF k % 2 = 1 THEN 1 ELSE 2) \in 1 .. 2
      BY <1>1
    <3> QED BY <3>1
  <2> QED BY <2>1 DEF TwoByTwo
<1>2. 2 * i \in Nat /\ 2 * (i + 1) \in Nat /\ 2 * (i + 1) = 2 * i + 2 /\ i \in Nat /\ i + 1 \in Nat /\ i <= n
  OBVIOUS
<1>3. TwoByTwo(s, i) \in Seq(S) /\ Len(TwoByTwo(s, i)) = 2 * i
  BY <1>1, <1>2
<1>4. TwoByTwo(s, i + 1) \in Seq(S) /\ Len(TwoByTwo(s, i + 1)) = 2 * i + 2
  BY <1>1, <1>2
<1>5. s[i + 1] \in Seq(S) /\ Len(s[i + 1]) = 2
  <2>1. i + 1 \in 1 .. n
    OBVIOUS
  <2>2. s[i + 1] \in [1 .. 2 -> S]
    BY <2>1
  <2> DEFINE b == s[i + 1]
  <2>3. b \in [1 .. 2 -> S]
    BY <2>2
  <2> HIDE DEF b
  <2>4. b \in Seq(S) /\ Len(b) = 2
    BY <2>3, 2 \in Nat, SequenceOf
  <2> QED BY <2>4 DEF b
<1>6. /\ TwoByTwo(s, i) \o s[i + 1] \in Seq(S) /\ Len(TwoByTwo(s, i) \o s[i + 1]) = 2 * i + 2
      /\ \A k \in 1 .. 2 * i + 2 :
            (TwoByTwo(s, i) \o s[i + 1])[k] = IF k <= 2 * i THEN TwoByTwo(s, i)[k] ELSE s[i + 1][k - 2 * i]
  <2> DEFINE a == TwoByTwo(s, i)
             b == s[i + 1]
  <2>1. a \in Seq(S) /\ b \in Seq(S) /\ Len(a) = 2 * i /\ Len(b) = 2
    BY <1>3, <1>5
  <2> HIDE DEF a, b
  <2>2. /\ a \o b \in Seq(S) /\ Len(a \o b) = Len(a) + Len(b)
        /\ \A k \in 1 .. Len(a) + Len(b) : (a \o b)[k] = IF k <= Len(a) THEN a[k] ELSE b[k - Len(a)]
    BY <2>1, ConcatProperties
  <2>3. /\ a \o b \in Seq(S) /\ Len(a \o b) = 2 * i + 2
        /\ \A k \in 1 .. 2 * i + 2 : (a \o b)[k] = IF k <= 2 * i THEN a[k] ELSE b[k - 2 * i]
    BY <2>1, <2>2
  <2> QED BY <2>3 DEF a, b
<1>7. ASSUME NEW k \in 1 .. 2 * i + 2
      PROVE  TwoByTwo(s, i + 1)[k] = (TwoByTwo(s, i) \o s[i + 1])[k]
  <2>1. TwoByTwo(s, i + 1)[k] = s[(k + 1) \div 2][IF k % 2 = 1 THEN 1 ELSE 2]
    <3>1. k \in 1 .. 2 * (i + 1)
      BY <1>2
    <3> QED BY <3>1 DEF TwoByTwo
  <2>2. CASE k <= 2 * i
    <3>1. k \in 1 .. 2 * i
      BY <2>2
    <3>2. TwoByTwo(s, i)[k] = s[(k + 1) \div 2][IF k % 2 = 1 THEN 1 ELSE 2]
      BY <3>1 DEF TwoByTwo
    <3> QED BY <1>6, <2>1, <2>2, <3>2
  <2>3. CASE ~(k <= 2 * i)
    <3>1. (k + 1) \div 2 = i + 1 /\ (IF k % 2 = 1 THEN 1 ELSE 2) = k - 2 * i
      BY <2>3
    <3>2. TwoByTwo(s, i + 1)[k] = s[i + 1][k - 2 * i]
      BY ONLY <2>1, <3>1
    <3>3. (TwoByTwo(s, i) \o s[i + 1])[k] = s[i + 1][k - 2 * i]
      BY <1>6, <2>3
    <3> QED BY ONLY <3>2, <3>3
  <2> QED BY <2>2, <2>3
<1>8. TwoByTwo(s, i + 1) = TwoByTwo(s, i) \o s[i + 1]
  <2> DEFINE a == TwoByTwo(s, i + 1)
             b == TwoByTwo(s, i) \o s[i + 1]
  <2>1. a \in Seq(S) /\ b \in Seq(S) /\ Len(a) = Len(b) /\ \A k \in 1 .. Len(a) : a[k] = b[k]
    BY <1>4, <1>6, <1>7
  <2> HIDE DEF a, b
  <2>2. a = b
    BY <2>1
  <2> QED BY <2>2 DEF a, b
<1>9. TwoByTwo(s, 1) = s[1]
  <2>1. s[1] \in [1 .. 2 -> S]
    OBVIOUS
  <2>2. TwoByTwo(s, 1) = [k \in 1 .. 2 |-> s[(k + 1) \div 2][IF k % 2 = 1 THEN 1 ELSE 2]]
    BY DEF TwoByTwo
  <2>3. \A k \in 1 .. 2 : (k + 1) \div 2 = 1 /\ (IF k % 2 = 1 THEN 1 ELSE 2) = k
    OBVIOUS
  <2> QED BY <2>1, <2>2, <2>3
<1> QED BY <1>3, <1>8, <1>9

\* The fields of an event in one line: FlattenSeq puts the pairs one after the other.
LEMMA TwoByTwoFlat ==
    ASSUME NEW S, NEW n \in Nat, NEW s \in [1 .. n -> [1 .. 2 -> S]]
    PROVE  /\ FlattenSeq(s) \in Seq(S) /\ Len(FlattenSeq(s)) = 2 * n
           /\ \A i \in 1 .. n : FlattenSeq(s)[2 * i - 1] = s[i][1] /\ FlattenSeq(s)[2 * i] = s[i][2]
<1> DEFINE Flat(f) == f = [i \in 1 .. n |-> IF i = 1 THEN s[i] ELSE f[i - 1] \o s[i]]
           flatten == CHOOSE f : Flat(f)
           given == [i \in 1 .. n |-> TwoByTwo(s, i)]
<1>1. Len(s) = n /\ \A j \in 1 .. n : s[j] \in [1 .. 2 -> S]
  OBVIOUS
<1>2. Flat(given)
  <2>1. ASSUME NEW i \in 1 .. n
        PROVE  TwoByTwo(s, i) = IF i = 1 THEN s[i] ELSE given[i - 1] \o s[i]
    <3>1. CASE i = 1
      <4>1. 0 \in Nat /\ 0 + 1 <= n
        BY <3>1
      <4> QED BY <1>1, <3>1, <4>1, TwoByTwoStep
    <3>2. CASE i # 1
      <4>1. i - 1 \in Nat /\ (i - 1) + 1 <= n /\ (i - 1) + 1 = i /\ i - 1 \in 1 .. n
        BY <3>2
      <4>2. TwoByTwo(s, (i - 1) + 1) = TwoByTwo(s, i - 1) \o s[(i - 1) + 1]
        BY <1>1, <4>1, TwoByTwoStep
      <4> QED BY <3>2, <4>1, <4>2
    <3> QED BY <3>1, <3>2
  <2> HIDE DEF given
  <2>2. given = [i \in 1 .. n |-> TwoByTwo(s, i)]
    BY DEF given
  <2> QED BY <2>1, <2>2
<1>3. Flat(flatten)
  <2>1. \E f : Flat(f)
    BY <1>2
  <2> HIDE DEF Flat
  <2> QED BY <2>1
<1>4. n # 0 => FlattenSeq(s) = flatten[n]
  BY <1>1 DEF FlattenSeq
<1>5. n = 0 => FlattenSeq(s) = s
  BY <1>1 DEF FlattenSeq
<1>6. \A i \in 1 .. n : flatten[i] = IF i = 1 THEN s[i] ELSE flatten[i - 1] \o s[i]
  <2> HIDE DEF flatten
  <2> QED BY <1>3
<1> HIDE DEF flatten
<1> DEFINE T == {m \in Nat : m \in 1 .. n => flatten[m] = TwoByTwo(s, m)}
<1>7. 0 \in T
  OBVIOUS
<1>8. \A m \in Nat : m \in T => m + 1 \in T
  <2>1. ASSUME NEW m \in Nat, m \in T, m + 1 \in 1 .. n
        PROVE  flatten[m + 1] = TwoByTwo(s, m + 1)
    <3>1. TwoByTwo(s, m + 1) = TwoByTwo(s, m) \o s[m + 1] /\ TwoByTwo(s, 1) = s[1]
      <4>1. m + 1 <= n
        BY <2>1
      <4> HIDE DEF T
      <4> QED BY <1>1, <4>1, TwoByTwoStep
    <3>2. CASE m = 0
      <4>1. m + 1 = 1 /\ 1 \in 1 .. n
        BY <2>1, <3>2
      <4>2. flatten[1] = s[1]
        BY <1>6, <4>1
      <4> QED BY <3>1, <4>1, <4>2
    <3>3. CASE m # 0
      <4>1. m \in 1 .. n
        BY <2>1, <3>3
      <4>2. flatten[m] = TwoByTwo(s, m)
        BY <2>1, <4>1
      <4>3. m + 1 # 1 /\ (m + 1) - 1 = m
        BY <3>3
      <4>4. flatten[m + 1] = flatten[(m + 1) - 1] \o s[m + 1]
        BY <1>6, <2>1, <4>3
      <4> QED BY <3>1, <4>2, <4>3, <4>4
    <3> QED BY <3>2, <3>3
  <2>2. \A m \in Nat : m + 1 \in Nat
    OBVIOUS
  <2> SUFFICES ASSUME NEW m \in Nat, m \in T PROVE m + 1 \in T
    OBVIOUS
  <2>3. m + 1 \in 1 .. n => flatten[m + 1] = TwoByTwo(s, m + 1)
    <3> HIDE DEF T
    <3> QED BY <2>1
  <2> HIDE DEF TwoByTwo
  <2> QED BY ONLY <2>2, <2>3, m \in Nat DEF T
<1>9. Nat \subseteq T
  <2> HIDE DEF T
  <2> QED BY <1>7, <1>8, Induction
<1>10. FlattenSeq(s) = TwoByTwo(s, n)
  <2>1. CASE n = 0
    <3>1. s = <<>> /\ TwoByTwo(s, 0) = <<>>
      BY <2>1 DEF TwoByTwo
    <3> QED BY <1>5, <2>1, <3>1
  <2>2. CASE n # 0
    <3>1. n \in T
      BY <1>9
    <3> QED BY <1>4, <2>2, <3>1
  <2> QED BY <2>1, <2>2
<1>11. TwoByTwo(s, n) \in Seq(S) /\ Len(TwoByTwo(s, n)) = 2 * n
  <2>1. CASE n = 0
    BY <2>1 DEF TwoByTwo
  <2>2. CASE n # 0
    <3>1. ASSUME NEW k \in 1 .. 2 * n
          PROVE  s[(k + 1) \div 2][IF k % 2 = 1 THEN 1 ELSE 2] \in S
      <4>1. (k + 1) \div 2 \in 1 .. n /\ (IF k % 2 = 1 THEN 1 ELSE 2) \in 1 .. 2
        OBVIOUS
      <4> QED BY <1>1, <4>1
    <3>2. TwoByTwo(s, n) \in [1 .. 2 * n -> S] /\ 2 * n \in Nat
      BY <3>1 DEF TwoByTwo
    <3> QED BY <3>2
  <2> QED BY <2>1, <2>2
<1>12. ASSUME NEW i \in 1 .. n
       PROVE  TwoByTwo(s, n)[2 * i - 1] = s[i][1] /\ TwoByTwo(s, n)[2 * i] = s[i][2]
  <2>1. /\ 2 * i - 1 \in 1 .. 2 * n /\ ((2 * i - 1) + 1) \div 2 = i /\ (2 * i - 1) % 2 = 1
        /\ 2 * i \in 1 .. 2 * n /\ (2 * i + 1) \div 2 = i /\ (2 * i) % 2 # 1
    OBVIOUS
  <2> QED BY <2>1 DEF TwoByTwo
<1> QED BY <1>10, <1>11, <1>12

\* The parts of the line of an event: its four fields, and then each pair.
EventLine(h, s, n) ==
    EncodedRow("event", h) \o FlattenSeq([i \in 1 .. n |-> Line(Pair, s[i])])

\* Where on a line decode_event finds the event and each of its pairs.
HoldsEvent(line, h, s, n) ==
    /\ Len(line) = 5 + 2 * n /\ line[1] = <<"word", "event">>
    /\ SubSeq(line, 2, 5) = Line(EventEncodes, h)
    /\ \A i \in 1 .. n : SubSeq(line, 4 + 2 * i, 5 + 2 * i) = Line(Pair, s[i])

LEMMA EventLineIs ==
    ASSUME NEW h, NEW n \in Nat, NEW s
    PROVE  HoldsEvent(EventLine(h, s, n), h, s, n)
<1> DEFINE row == EncodedRow("event", h)
           fields == Line(EventEncodes, h)
           parts == [i \in 1 .. n |-> Line(Pair, s[i])]
           flat == FlattenSeq(parts)
           S == {Line(Pair, s[i])[j] : i \in 1 .. n, j \in 1 .. 2}
           line == row \o flat
<1>1. /\ \E R : row \in Seq(R)
      /\ Len(row) = 5 /\ row[1] = <<"word", "event">>
      /\ \A i \in 1 .. 4 : row[i + 1] = fields[i]
  <2> DEFINE encodes == Encodes["event"]
  <2>1. encodes = EventEncodes /\ Len(encodes) = 4 /\ "event" \in RowKinds
    BY DEF Encodes, EventEncodes, RowKinds
  <2>2. /\ \E R : row \in Seq(R)
        /\ Len(row) = 1 + Len(encodes) /\ row[1] = <<"word", "event">>
        /\ \A i \in 1 .. Len(encodes) : row[i + 1] = Line(encodes, h)[i]
    BY <2>1, RowIs
  <2> HIDE DEF row, encodes
  <2> QED BY <2>1, <2>2
<1> PICK R : row \in Seq(R)
  BY <1>1
<1> DEFINE T == S \cup R
<1>2. Telling(Pair) /\ DOMAIN Pair = 1 .. 2
  BY TellingPair DEF Pair
<1>3. parts \in [1 .. n -> [1 .. 2 -> S]]
  <2>1. ASSUME NEW i \in 1 .. n PROVE Line(Pair, s[i]) \in [1 .. 2 -> S]
    <3>1. Line(Pair, s[i]) = [j \in 1 .. 2 |-> Line(Pair, s[i])[j]]
      BY <1>2 DEF Line
    <3>2. \A j \in 1 .. 2 : Line(Pair, s[i])[j] \in S
      OBVIOUS
    <3> HIDE DEF S
    <3> QED BY <3>1, <3>2
  <2> HIDE DEF S
  <2> QED BY <2>1
<1>4. /\ flat \in Seq(S) /\ Len(flat) = 2 * n
      /\ \A i \in 1 .. n : flat[2 * i - 1] = parts[i][1] /\ flat[2 * i] = parts[i][2]
  <2> HIDE DEF S, parts
  <2> QED BY <1>3, TwoByTwoFlat
<1>5. row \in Seq(T) /\ flat \in Seq(T)
  <2> HIDE DEF row, S, flat
  <2> QED BY <1>4
<1>6. /\ line \in Seq(T) /\ Len(line) = 5 + 2 * n
      /\ \A i \in 1 .. 5 + 2 * n : line[i] = IF i <= 5 THEN row[i] ELSE flat[i - 5]
  <2> HIDE DEF row, flat, T
  <2>1. Len(row) = 5 /\ Len(flat) = 2 * n
    BY <1>1, <1>4
  <2>2. /\ line \in Seq(T) /\ Len(line) = Len(row) + Len(flat)
        /\ \A i \in 1 .. Len(row) + Len(flat) :
              line[i] = IF i <= Len(row) THEN row[i] ELSE flat[i - Len(row)]
    BY <1>5, ConcatProperties
  <2> HIDE DEF line
  <2> QED BY <2>1, <2>2
<1>7. \A i \in 1 .. n : parts[i] = Line(Pair, s[i])
  OBVIOUS
<1> HIDE DEF line, row, flat, parts, S, T
<1>8. line[1] = <<"word", "event">>
  <2>1. 1 \in 1 .. 5 + 2 * n /\ 1 <= 5
    OBVIOUS
  <2> QED BY <1>1, <1>6, <2>1
<1>9. SubSeq(line, 2, 5) = fields
  <2> DEFINE sub == SubSeq(line, 2, 5)
  <2>1. \A i \in 2 .. 5 : line[i] \in T
    <3>1. line \in [1 .. 5 + 2 * n -> T]
      BY <1>6
    <3> QED BY <3>1
  <2>2. /\ sub \in Seq(T) /\ Len(sub) = 4 /\ \A i \in 1 .. 5 - 2 + 1 : sub[i] = line[2 + i - 1]
    BY <2>1, SubSeqProperties
  <2>3. \A i \in 1 .. 4 : sub[i] = fields[i]
    <3> SUFFICES ASSUME NEW i \in 1 .. 4 PROVE sub[i] = fields[i]
      OBVIOUS
    <3>1. i \in 1 .. 5 - 2 + 1 /\ 2 + i - 1 = i + 1 /\ i + 1 \in 1 .. 5 + 2 * n /\ i + 1 <= 5
      OBVIOUS
    <3>2. sub[i] = line[i + 1] /\ line[i + 1] = row[i + 1]
      BY <1>6, <2>2, <3>1
    <3> QED BY <1>1, <3>2
  <2>4. fields = [i \in 1 .. 4 |-> fields[i]]
    <3>1. DOMAIN EventEncodes = 1 .. 4
      BY DEF EventEncodes
    <3> QED BY <3>1 DEF Line
  <2> HIDE DEF sub, fields
  <2>5. sub = [i \in 1 .. 4 |-> sub[i]]
    BY <2>2
  <2>6. sub = fields
    BY <2>3, <2>4, <2>5
  <2> QED BY <2>6 DEF sub
<1>10. ASSUME NEW i \in 1 .. n
       PROVE  SubSeq(line, 4 + 2 * i, 5 + 2 * i) = Line(Pair, s[i])
  <2> DEFINE a == 4 + 2 * i
             b == 5 + 2 * i
             sub == SubSeq(line, a, b)
  <2>1. a \in Int /\ b \in Int /\ a <= b /\ b - a + 1 = 2 /\ a >= 6 /\ b <= 5 + 2 * n /\ a <= 5 + 2 * n
    OBVIOUS
  <2>2. /\ a - 5 = 2 * i - 1 /\ b - 5 = 2 * i /\ a + 1 - 1 = a /\ a + 2 - 1 = b
    OBVIOUS
  <2> HIDE DEF a, b
  <2>3. \A k \in a .. b : line[k] \in T
    <3>1. line \in [1 .. 5 + 2 * n -> T]
      BY <1>6
    <3> QED BY <2>1, <3>1
  <2>4. /\ sub \in Seq(T) /\ Len(sub) = 2 /\ \A k \in 1 .. b - a + 1 : sub[k] = line[a + k - 1]
    BY <2>1, <2>3, SubSeqProperties
  <2>5. sub[1] = line[a] /\ sub[2] = line[b]
    <3>1. 1 \in 1 .. b - a + 1 /\ 2 \in 1 .. b - a + 1
      BY <2>1
    <3> QED BY <2>2, <2>4, <3>1
  <2>6. line[a] = flat[2 * i - 1] /\ line[b] = flat[2 * i]
    <3>1. a \in 1 .. 5 + 2 * n /\ b \in 1 .. 5 + 2 * n /\ ~(a <= 5) /\ ~(b <= 5)
      BY <2>1
    <3> QED BY <1>6, <2>2, <3>1
  <2>7. sub[1] = Line(Pair, s[i])[1] /\ sub[2] = Line(Pair, s[i])[2]
    BY <1>4, <1>7, <2>5, <2>6
  <2>8. Line(Pair, s[i]) = [j \in 1 .. 2 |-> Line(Pair, s[i])[j]]
    BY <1>2 DEF Line
  <2> HIDE DEF sub
  <2>9. sub = [j \in 1 .. 2 |-> sub[j]]
    BY <2>4
  <2>10. sub = Line(Pair, s[i])
    BY <2>7, <2>8, <2>9
  <2> QED BY <2>10 DEF sub, a, b
<1>11. line = EventLine(h, s, n)
  BY DEF EventLine, line, row, flat, parts
<1> QED BY <1>6, <1>8, <1>9, <1>10, <1>11 DEF HoldsEvent

\* An event with its fields, or none.
LEMMA EventArrives == \A v \in Returned("event") : Arrives("event", v)
<1> SUFFICES ASSUME NEW v \in Returned("event") PROVE Arrives("event", v)
  OBVIOUS
<1> DEFINE PairLists == UNION {[1 .. n -> Records(Pair)] : n \in 0 .. MaxRows}
<1>1. Returned("event") =
         {<<>>} \cup UNION {{<<[e EXCEPT !.count = ToString(Len(s))]>> \o s : s \in PairLists} :
                            e \in Records(EventEncodes)}
  BY DEF Returned
<1>2. CASE v = <<>>
  <2> DEFINE lines == <<Head1("no_event")>>
  <2>1. Encoded("event", v) = lines
    BY <1>2 DEF Encoded
  <2>2. Head1("no_event") # Head1("end")
    BY DEF Head1
  <2>3. Len(lines) = 1 /\ lines[1] = Head1("no_event") /\ DOMAIN lines = {1}
        /\ lines = [i \in 1 .. 1 |-> lines[i]]
    OBVIOUS
  <2> HIDE DEF lines
  <2>4. Decoded("event", lines) = {<<>>}
    <3>1. DecodedEvent(lines) = {<<>>}
      BY <2>3 DEF DecodedEvent
    <3> QED BY <3>1 DEF Decoded
  <2>5. \A i \in DOMAIN lines : lines[i] # Head1("end")
    BY <2>2, <2>3
  <2> QED BY <1>2, <2>1, <2>3, <2>4, <2>5 DEF Arrives
<1>3. ASSUME NEW e \in Records(EventEncodes), NEW n \in 0 .. MaxRows, NEW s \in [1 .. n -> Records(Pair)],
             v = <<[e EXCEPT !.count = ToString(Len(s))]>> \o s
      PROVE  Arrives("event", v)
  <2> DEFINE h == [e EXCEPT !.count = ToString(n)]
             lines == <<EventLine(h, s, n)>>
             line == lines[1]
  <2>1. n \in Nat /\ s \in Seq(Records(Pair)) /\ Len(s) = n /\ s = [i \in 1 .. n |-> s[i]]
        /\ \A i \in 1 .. n : s[i] \in Records(Pair)
    BY ProtocolBound, SequenceOf
  <2>2. Fills(EventEncodes, h) /\ h.count = ToString(n)
    <3>1. /\ 4 \in DOMAIN EventEncodes /\ EventEncodes[4].name = "count"
          /\ EventEncodes[4].says = Counts
      BY DEF EventEncodes, Num
    <3>2. ToString(n) \in ToSet(Counts)
      <4>1. n + 1 \in 1 .. MaxRows + 1 /\ (n + 1) - 1 = n
        BY ProtocolBound
      <4>2. Counts[n + 1] = ToString((n + 1) - 1) /\ n + 1 \in DOMAIN Counts
        BY <4>1 DEF Counts
      <4> QED BY <4>1, <4>2 DEF ToSet
    <3>3. Telling(EventEncodes) /\ Fills(EventEncodes, e)
      BY TellingEvent, RecordsSay
    <3>4. /\ Fills(EventEncodes, [e EXCEPT ![EventEncodes[4].name] = ToString(n)])
          /\ [e EXCEPT ![EventEncodes[4].name] = ToString(n)][EventEncodes[4].name] = ToString(n)
      BY <3>1, <3>2, <3>3, SaysElse
    <3> QED BY <3>1, <3>4
  <2>3. v = <<h>> \o s
    BY <1>3, <2>1
  <2> HIDE DEF h
  <2>4. /\ v # <<>> /\ Len(v) = 1 + n /\ v[1] = h /\ \A i \in 1 .. n : v[i + 1] = s[i]
    BY <2>1, <2>3, AfterOne
  <2>5. Encoded("event", v) = lines
    <3>1. Len(v) - 1 = n
      BY <2>1, <2>4
    <3>2. [i \in 1 .. Len(v) - 1 |-> Line(Pair, v[i + 1])] = [i \in 1 .. n |-> Line(Pair, s[i])]
      BY <2>4, <3>1
    <3> QED BY <2>4, <3>2 DEF Encoded, EventLine
  <2>11. /\ Len(lines) = 1 /\ line = EventLine(h, s, n) /\ DOMAIN lines = {1}
         /\ lines = [i \in 1 .. 1 |-> lines[i]]
    OBVIOUS
  <2> HIDE DEF lines
  <2>6. /\ Len(line) = 5 + 2 * n /\ line[1] = <<"word", "event">>
        /\ SubSeq(line, 2, 5) = Line(EventEncodes, h)
        /\ \A i \in 1 .. n : SubSeq(line, 4 + 2 * i, 5 + 2 * i) = Line(Pair, s[i])
    <3>1. n \in Nat
      BY <2>1
    <3>2. HoldsEvent(EventLine(h, s, n), h, s, n)
      BY ONLY <3>1, EventLineIs
    <3>3. line = EventLine(h, s, n)
      BY <2>11
    <3>4. HoldsEvent(line, h, s, n)
      BY ONLY <3>2, <3>3
    <3> HIDE DEF line
    <3> QED BY ONLY <3>4 DEF HoldsEvent
  <2>7. line # Head1("no_event") /\ line # Head1("end")
    BY <2>6 DEF Head1
  <2>8. FieldsRead(EventDecodes, SubSeq(line, 2, 5)) = {h}
    <3>1. EventDecodes = EventEncodes
      BY DEF EventDecodes, EventEncodes
    <3> QED BY <2>2, <2>6, <3>1, TellingEvent, ReadsBack
  <2>9. \A i \in 1 .. n : FieldsRead(Pair, SubSeq(line, 4 + 2 * i, 5 + 2 * i)) = {s[i]}
    BY <2>1, <2>6, TellingPair, RecordsSay, ReadsBack
  <2>10. (Len(line) - 5) \div 2 = n /\ ~(Len(line) < 5)
    <3>1. \A m \in Nat : (5 + 2 * m - 5) \div 2 = m /\ ~(5 + 2 * m < 5)
      OBVIOUS
    <3> QED BY <2>1, <2>6, <3>1
  <2>12. DecodedEvent(lines) = {<<h>> \o s}
    <3> DEFINE Rest(i) == SubSeq(line, 4 + 2 * i, 5 + 2 * i)
               heads == {g \in FieldsRead(EventDecodes, SubSeq(line, 2, 5)) :
                           /\ \E m \in 0 .. MaxRows : g.count = ToString(m) /\ Len(line) = 5 + 2 * m
                           /\ \A i \in 1 .. (Len(line) - 5) \div 2 : FieldsRead(Pair, Rest(i)) # {}}
               rest == [i \in 1 .. (Len(line) - 5) \div 2 |-> CHOOSE p \in FieldsRead(Pair, Rest(i)) : TRUE]
    <3>1. DecodedEvent(lines) = {<<g>> \o rest : g \in heads}
      BY <2>6, <2>7, <2>10, <2>11 DEF DecodedEvent
    <3>2. heads = {h}
      BY <2>2, <2>6, <2>8, <2>9, <2>10
    <3>3. rest = s
      BY <2>1, <2>9, <2>10
    <3> HIDE DEF heads, rest
    <3> QED BY <3>1, <3>2, <3>3
  <2>13. Decoded("event", lines) = {v}
    BY <2>3, <2>12 DEF Decoded
  <2>14. \A i \in DOMAIN lines : lines[i] # Head1("end")
    BY <2>7, <2>11
  <2> QED BY <2>5, <2>11, <2>13, <2>14 DEF Arrives
<1>4. CASE v # <<>>
  <2>1. PICK e \in Records(EventEncodes), s \in PairLists :
           v = <<[e EXCEPT !.count = ToString(Len(s))]>> \o s
    BY <1>1, <1>4
  <2>2. PICK n \in 0 .. MaxRows : s \in [1 .. n -> Records(Pair)]
    OBVIOUS
  <2> QED BY <1>3, <2>1, <2>2
<1> QED BY <1>2, <1>4

\* The types of an answer, and what each command is answered with: both ends agree.
Types == {"void", "channels", "clients", "channel", "client", "event", "server_group_application",
          "plugin_info", "connection_state", "server_info"}

LEMMA AnswersTypes ==
    ASSUME NEW c \in Verbs
    PROVE  Answers[c] \in Types /\ Expects[c] = Answers[c]
BY TheVerbs DEF Answers, Expects, Types

\* What the backend returns arrives, whatever its type.
LEMMA AllArrive ==
    ASSUME NEW type \in Types, NEW v \in Returned(type)
    PROVE  Arrives(type, v)
BY VoidArrives, ListsArrive, RowArrives, EventArrives, ApplicationArrives DEF Types

LEMMA SubSeqWhole ==
    ASSUME NEW S, NEW s \in Seq(S)
    PROVE  SubSeq(s, 1, Len(s)) = s
<1>1. Len(s) \in Nat /\ \A i \in 1 .. Len(s) : s[i] \in S
  OBVIOUS
<1> DEFINE sub == SubSeq(s, 1, Len(s))
<1>2. /\ sub \in Seq(S) /\ Len(sub) = Len(s)
      /\ \A i \in 1 .. Len(s) - 1 + 1 : sub[i] = s[1 + i - 1]
  BY <1>1, SubSeqProperties
<1>3. \A i \in 1 .. Len(s) : sub[i] = s[i]
  BY <1>1, <1>2
<1> HIDE DEF sub
<1>4. sub = s
  BY <1>2, <1>3
<1> QED BY <1>4 DEF sub

\* What is answered when a call succeeds, and when it fails or is not understood.
Succeeded(type, v) == <<Head1("ok") \o Head1(type)>> \o Encoded(type, v) \o <<Head1("end")>>
Failed == <<Head1("error"), Head1("end")>>

\* The lines of an answer: a header, the payload, the end.
LEMMA AnswerLines ==
    ASSUME NEW type \in Types, NEW v \in Returned(type)
    PROVE  \E n \in Nat :
              /\ \E S : Succeeded(type, v) \in Seq(S)
              /\ Len(Succeeded(type, v)) = n + 2
              /\ Succeeded(type, v)[1] = Head1("ok") \o Head1(type)
              /\ Succeeded(type, v)[n + 2] = Head1("end")
              /\ \A i \in 1 .. n : Succeeded(type, v)[i + 1] = Encoded(type, v)[i]
              /\ Encoded(type, v) = [i \in 1 .. n |-> Encoded(type, v)[i]]
<1> DEFINE head == Head1("ok") \o Head1(type)
           payload == Encoded(type, v)
           last == Head1("end")
           lines == Succeeded(type, v)
<1>1. PICK n \in Nat : payload = [i \in 1 .. n |-> payload[i]]
  BY AllArrive DEF Arrives
<1>2. lines = (<<head>> \o payload) \o <<last>>
  BY DEF Succeeded
<1> DEFINE R == {payload[i] : i \in 1 .. n}
           S == R \cup {head}
           T == S \cup {last}
<1> HIDE DEF head, payload, last, lines
<1>3. payload \in Seq(R) /\ Len(payload) = n
  <2>1. \A i \in 1 .. n : payload[i] \in R
    OBVIOUS
  <2> HIDE DEF R
  <2>2. payload \in [1 .. n -> R]
    BY <1>1, <2>1
  <2> QED BY <2>2, SequenceOf
<1> DEFINE front == <<head>> \o payload
<1> HIDE DEF R
<1>4. /\ front \in Seq(S) /\ Len(front) = 1 + n /\ front[1] = head
      /\ \A i \in 1 .. n : front[i + 1] = payload[i]
  BY <1>3, AfterOne
<1> HIDE DEF front, S
<1>5. front \in Seq(T) /\ <<last>> \in Seq(T) /\ Len(<<last>>) = 1 /\ <<last>>[1] = last
  BY <1>4
<1>6. lines = front \o <<last>>
  BY <1>2 DEF front
<1>7. /\ lines \in Seq(T) /\ Len(lines) = Len(front) + Len(<<last>>)
      /\ \A i \in 1 .. Len(front) + Len(<<last>>) :
            lines[i] = IF i <= Len(front) THEN front[i] ELSE <<last>>[i - Len(front)]
  <2> DEFINE tail == <<last>>
  <2> HIDE DEF tail, T
  <2> QED BY <1>5, <1>6, ConcatProperties DEF tail
<1>8. Len(lines) = n + 2 /\ 1 + n + 1 = n + 2
  BY <1>4, <1>5, <1>7
<1>9. lines[1] = head
  <2>1. 1 \in 1 .. 1 + n + 1 /\ 1 <= 1 + n
    OBVIOUS
  <2> QED BY <1>4, <1>5, <1>7, <2>1
<1>10. lines[n + 2] = last
  <2>1. n + 2 \in 1 .. 1 + n + 1 /\ ~(n + 2 <= 1 + n) /\ (n + 2) - (1 + n) = 1
    OBVIOUS
  <2> QED BY <1>4, <1>5, <1>7, <2>1
<1>11. ASSUME NEW i \in 1 .. n PROVE lines[i + 1] = payload[i]
  <2>1. i + 1 \in 1 .. 1 + n + 1 /\ i + 1 <= 1 + n
    OBVIOUS
  <2> QED BY <1>4, <1>5, <1>7, <2>1
<1> QED BY <1>1, <1>7, <1>8, <1>9, <1>10, <1>11 DEF head, payload, last, lines

\* SocketBackend makes of a whole answer what the backend returned.
LEMMA WholeRead ==
    ASSUME NEW c \in Verbs, NEW v \in Returned(Answers[c])
    PROVE  AnswerRead(c, Succeeded(Answers[c], v)) = {v}
<1> DEFINE type == Answers[c]
           lines == Succeeded(type, v)
           payload == Encoded(type, v)
<1>1. type \in Types /\ Expects[c] = type
  BY AnswersTypes
<1>2. Decoded(type, payload) = {v}
  BY <1>1, AllArrive DEF Arrives
<1>3. PICK n \in Nat :
         /\ \E S : lines \in Seq(S)
         /\ Len(lines) = n + 2 /\ lines[1] = Head1("ok") \o Head1(type)
         /\ lines[n + 2] = Head1("end") /\ \A i \in 1 .. n : lines[i + 1] = payload[i]
         /\ payload = [i \in 1 .. n |-> payload[i]]
  <2> HIDE DEF type
  <2> QED BY <1>1, AnswerLines DEF type
<1> HIDE DEF type, lines, payload
<1>4. SubSeq(lines, 2, Len(lines) - 1) = payload
  <2> DEFINE sub == SubSeq(lines, 2, n + 1)
  <2>1. PICK S : lines \in Seq(S)
    BY <1>3
  <2>2. \A i \in 2 .. n + 1 : lines[i] \in S
    BY <1>3, <2>1
  <2>3. 2 \in Int /\ n + 1 \in Int /\ (2 <= n + 1 => n + 1 - 2 + 1 = n) /\ (~(2 <= n + 1) => n = 0)
    OBVIOUS
  <2>4. /\ sub \in Seq(S) /\ Len(sub) = n
        /\ \A i \in 1 .. n + 1 - 2 + 1 : sub[i] = lines[2 + i - 1]
    BY <2>2, <2>3, SubSeqProperties
  <2>5. \A i \in 1 .. n : sub[i] = payload[i]
    <3> SUFFICES ASSUME NEW i \in 1 .. n PROVE sub[i] = payload[i]
      OBVIOUS
    <3>1. i \in 1 .. n + 1 - 2 + 1 /\ 2 + i - 1 = i + 1
      OBVIOUS
    <3> QED BY <1>3, <2>4, <3>1
  <2> HIDE DEF sub
  <2>6. sub = [i \in 1 .. n |-> sub[i]]
    BY <2>4
  <2>7. sub = payload
    BY <1>3, <2>5, <2>6
  <2>8. Len(lines) - 1 = n + 1
    BY <1>3
  <2> QED BY <2>7, <2>8 DEF sub
<1>5. Len(lines) \in Nat /\ ~(Len(lines) < 2) /\ lines[Len(lines)] = Head1("end")
  BY <1>3
<1>6. AnswerRead(c, lines) = Decoded(Expects[c], SubSeq(lines, 2, Len(lines) - 1))
  BY <1>1, <1>3, <1>5 DEF AnswerRead, Last
<1> QED BY <1>1, <1>2, <1>4, <1>6 DEF type, lines

\* An answer that breaks off is an error: only its end ends it.
LEMMA BrokenOffRead ==
    ASSUME NEW c \in Verbs, NEW v \in Returned(Answers[c]),
           NEW k \in 0 .. Len(Succeeded(Answers[c], v)), k # Len(Succeeded(Answers[c], v))
    PROVE  AnswerRead(c, SubSeq(Succeeded(Answers[c], v), 1, k)) = {}
<1> DEFINE type == Answers[c]
           lines == Succeeded(type, v)
           payload == Encoded(type, v)
           sub == SubSeq(lines, 1, k)
<1>1. type \in Types /\ v \in Returned(type)
  BY AnswersTypes
<1>2. PICK n \in Nat :
         /\ \E S : lines \in Seq(S)
         /\ Len(lines) = n + 2 /\ \A i \in 1 .. n : lines[i + 1] = payload[i]
         /\ payload = [i \in 1 .. n |-> payload[i]]
  <2> HIDE DEF type
  <2> QED BY <1>1, AnswerLines DEF type
<1>3. \A i \in 1 .. n : payload[i] # Head1("end")
  <2>1. \A i \in DOMAIN payload : payload[i] # Head1("end")
    <3> HIDE DEF type
    <3> QED BY <1>1, AllArrive DEF Arrives
  <2> HIDE DEF payload
  <2>2. DOMAIN payload = 1 .. n
    BY <1>2
  <2> QED BY <2>1, <2>2
<1>4. k \in Nat /\ k <= n + 1
  BY <1>2
<1>5. PICK S : lines \in Seq(S)
  BY <1>2
<1> HIDE DEF lines, payload, type
<1>6. /\ Len(sub) = k /\ \A i \in 1 .. k : sub[i] = lines[i]
  <2>1. \A i \in 1 .. k : lines[i] \in S
    BY <1>2, <1>4, <1>5
  <2>2. k \in Int /\ 1 \in Int /\ (1 <= k => k - 1 + 1 = k) /\ (~(1 <= k) => k = 0)
    BY <1>4
  <2>3. /\ Len(sub) = IF 1 <= k THEN k - 1 + 1 ELSE 0
        /\ \A i \in 1 .. k - 1 + 1 : sub[i] = lines[1 + i - 1]
    BY <2>1, <2>2, SubSeqProperties
  <2>4. \A i \in 1 .. k : i \in 1 .. k - 1 + 1 /\ 1 + i - 1 = i
    BY <1>4
  <2> QED BY <2>2, <2>3, <2>4
<1> HIDE DEF sub
<1>7. ASSUME k < 2 PROVE AnswerRead(c, sub) = {}
  BY <1>6, <1>7 DEF AnswerRead
<1>8. ASSUME ~(k < 2) PROVE AnswerRead(c, sub) = {}
  <2>1. k \in 1 .. k /\ k - 1 \in 1 .. n /\ (k - 1) + 1 = k
    BY <1>4, <1>8
  <2>2. sub[k] = payload[k - 1]
    BY <1>2, <1>6, <2>1
  <2>3. Last(sub) # Head1("end")
    BY <1>3, <1>6, <2>1, <2>2 DEF Last
  <2> QED BY <2>3 DEF AnswerRead
<1>9. AnswerRead(c, sub) = {}
  BY <1>7, <1>8
<1> QED BY <1>9 DEF sub, lines, type

\* So is an error, and an answer of which nothing came.
LEMMA ErrorRead ==
    ASSUME NEW c, NEW answer \in {<<>>, Failed}, NEW k \in 0 .. Len(answer)
    PROVE  AnswerRead(c, SubSeq(answer, 1, k)) = {}
<1> DEFINE S == {Head1("error"), Head1("end")}
           sub == SubSeq(answer, 1, k)
<1>1. answer \in Seq(S) /\ Len(answer) \in {0, 2} /\ (Len(answer) = 2 => answer[1] = Head1("error"))
  <2>1. CASE answer = <<>>
    BY <2>1
  <2>2. CASE answer = Failed
    <3> DEFINE a == Head1("error")
               b == Head1("end")
    <3>1. answer = <<a, b>>
      BY <2>2 DEF Failed
    <3> HIDE DEF a, b
    <3>2. answer \in Seq({a, b}) /\ Len(answer) = 2 /\ answer[1] = a
      BY <3>1
    <3> QED BY <3>2 DEF a, b
  <2> QED BY <2>1, <2>2
<1>2. k \in Nat /\ k <= Len(answer)
  BY <1>1
<1> HIDE DEF S
<1>3. Len(sub) = k /\ (k >= 1 => sub[1] = answer[1])
  <2>1. \A i \in 1 .. k : answer[i] \in S
    BY <1>1, <1>2
  <2>2. k \in Int /\ 1 \in Int /\ (1 <= k => k - 1 + 1 = k /\ 1 \in 1 .. k - 1 + 1) /\ (~(1 <= k) => k = 0)
    BY <1>2
  <2>3. /\ Len(sub) = IF 1 <= k THEN k - 1 + 1 ELSE 0
        /\ \A i \in 1 .. k - 1 + 1 : sub[i] = answer[1 + i - 1]
    BY <2>1, <2>2, SubSeqProperties
  <2>4. 1 + 1 - 1 = 1
    OBVIOUS
  <2> QED BY <2>2, <2>3, <2>4
<1> HIDE DEF sub
<1>4. ASSUME k < 2 PROVE AnswerRead(c, sub) = {}
  BY <1>2, <1>3, <1>4 DEF AnswerRead
<1>5. ASSUME ~(k < 2) PROVE AnswerRead(c, sub) = {}
  <2>1. sub[1] = Head1("error")
    <3>1. k >= 1 /\ Len(answer) = 2
      BY <1>1, <1>2, <1>5
    <3> QED BY <1>1, <1>3, <3>1
  <2>2. Head1("error") # Head1("ok") \o Head1(Expects[c])
    BY DEF Head1
  <2> QED BY <2>1, <2>2 DEF AnswerRead
<1>6. AnswerRead(c, sub) = {}
  BY <1>4, <1>5
<1> QED BY <1>6 DEF sub

--------------------------------------------------------------------------------
(* One exchange                                                                *)

\* The exchange has its fields.
Shaped ==
    exchange = [step |-> exchange.step, command |-> exchange.command, request |-> exchange.request,
                line |-> exchange.line, whole |-> exchange.whole, value |-> exchange.value,
                answer |-> exchange.answer, result |-> exchange.result]

Call == [command |-> exchange.command, request |-> exchange.request]

\* The line that arrived whole is the request that was made.
Requested ==
    /\ exchange.command \in Verbs /\ exchange.request \in Records(Sends[exchange.command])
    /\ exchange.whole \in BOOLEAN
    /\ exchange.whole => exchange.line = RequestLine(exchange.command, exchange.request)

\* An answer is nothing for a line that broke off, and else an error or what the
\* backend returned; both after the call.
Answered ==
    IF exchange.whole
    THEN /\ executed # <<>>
         /\ \/ exchange.answer = Failed
            \/ /\ exchange.value \in Returned(Answers[exchange.command])
               /\ exchange.answer = Succeeded(Answers[exchange.command], exchange.value)
    ELSE executed = <<>> /\ exchange.answer = <<>>

\* What is known of an exchange at each of its steps.
ProtocolInv ==
    /\ Shaped
    /\ exchange.step \in {"idle", "asked", "answered", "done"}
    /\ exchange.step = "idle" => exchange = Idle
    /\ exchange.step \in {"idle", "asked"} => executed = <<>>
    /\ exchange.step \in {"asked", "answered"} => Requested
    /\ executed = <<>> \/ (exchange.whole /\ executed = <<Call>>)
    /\ exchange.step = "answered" => Answered
    /\ AnswerIsBackends

\* The line of a request is a sequence.
LEMMA RequestLineIs ==
    ASSUME NEW c \in Verbs, NEW r \in Records(Sends[c])
    PROVE  SubSeq(RequestLine(c, r), 1, Len(RequestLine(c, r))) = RequestLine(c, r)
<1> DEFINE s == Line(Sends[c], r)
           S == {s[i] : i \in DOMAIN Sends[c]}
           T == S \cup {kMagic, Verb(c)}
           line == RequestLine(c, r)
<1>1. s \in Seq(S)
  BY RequestsAgree, LineLength
<1>2. line = <<kMagic, Verb(c)>> \o s
  BY DEF RequestLine
<1> HIDE DEF s, S, line
<1>3. s \in Seq(T) /\ <<kMagic, Verb(c)>> \in Seq(T)
  BY <1>1
<1>4. line \in Seq(T)
  <2> HIDE DEF T
  <2> QED BY <1>2, <1>3, ConcatProperties
<1>5. SubSeq(line, 1, Len(line)) = line
  <2> HIDE DEF T
  <2> QED BY <1>4, SubSeqWhole
<1> QED BY <1>5 DEF line

\* A request, whole or broken off.
LEMMA InvAsks == ProtocolInv /\ Asks => ProtocolInv'
<1> SUFFICES ASSUME ProtocolInv, Asks PROVE ProtocolInv'
  OBVIOUS
<1>1. PICK c \in Verbs : \E r \in Records(Sends[c]) :
            LET line == RequestLine(c, r)
            IN  \E n \in 0 .. Len(line), whole \in BOOLEAN :
                    /\ whole => n = Len(line)
                    /\ exchange' = [exchange EXCEPT !.step = "asked", !.command = c, !.request = r,
                                                    !.line = SubSeq(line, 1, n), !.whole = whole]
  BY DEF Asks
<1>2. PICK r \in Records(Sends[c]) :
          \E n \in 0 .. Len(RequestLine(c, r)), whole \in BOOLEAN :
                    /\ whole => n = Len(RequestLine(c, r))
                    /\ exchange' = [exchange EXCEPT !.step = "asked", !.command = c, !.request = r,
                                                    !.line = SubSeq(RequestLine(c, r), 1, n),
                                                    !.whole = whole]
  BY <1>1
<1> DEFINE full == RequestLine(c, r)
<1>3. PICK n \in 0 .. Len(full), whole \in BOOLEAN :
                    /\ whole => n = Len(full)
                    /\ exchange' = [exchange EXCEPT !.step = "asked", !.command = c, !.request = r,
                                                    !.line = SubSeq(full, 1, n), !.whole = whole]
  BY <1>2
<1>4. SubSeq(full, 1, Len(full)) = full
  BY RequestLineIs
<1> HIDE DEF full
<1>5. Shaped /\ exchange.step = "idle" /\ executed = <<>> /\ executed' = <<>>
  BY DEF ProtocolInv, Asks
<1>6. /\ exchange'.step = "asked" /\ exchange'.command = c /\ exchange'.request = r
      /\ exchange'.whole = whole /\ exchange'.line = SubSeq(full, 1, n)
      /\ Shaped'
  BY <1>3, <1>5 DEF Shaped
<1>7. Requested'
  BY <1>3, <1>4, <1>6 DEF Requested, full
<1>8. AnswerIsBackends'
  BY <1>6 DEF AnswerIsBackends
<1> QED BY <1>5, <1>6, <1>7, <1>8 DEF ProtocolInv

LEMMA InvUnreached == ProtocolInv /\ Unreached => ProtocolInv'
<1> SUFFICES ASSUME ProtocolInv, Unreached PROVE ProtocolInv'
  OBVIOUS
<1> DEFINE none == {<<[Plain(PluginInfoDecodes \o DiagnosticsDecodes)
                       EXCEPT !.plugin_version = "unavailable"]>>}
<1>1. PICK c \in Verbs :
         exchange' = [exchange EXCEPT !.step = "done", !.command = c,
                                      !.result = IF c # "plugin_info" THEN {} ELSE none]
  BY DEF Unreached
<1> HIDE DEF none
<1>2. Shaped /\ executed = <<>> /\ executed' = <<>>
  BY DEF ProtocolInv, Unreached
<1>3. /\ exchange'.step = "done" /\ exchange'.command = c /\ Shaped'
      /\ exchange'.result = IF c # "plugin_info" THEN {} ELSE none
  BY <1>1, <1>2 DEF Shaped
<1>4. AnswerIsBackends'
  BY <1>2, <1>3 DEF AnswerIsBackends
<1> QED BY <1>2, <1>3, <1>4 DEF ProtocolInv

\* The server: a line that broke off is answered by nothing, and a whole one is
\* the call that was asked for.
LEMMA InvServes == ProtocolInv /\ Serves => ProtocolInv'
<1> SUFFICES ASSUME ProtocolInv, Serves PROVE ProtocolInv'
  OBVIOUS
<1> DEFINE calls == IF read_line THEN Understood(exchange.line) ELSE {}
           Answering(lines) == [exchange EXCEPT !.step = "answered", !.answer = lines]
<1>1. /\ Shaped /\ exchange.step = "asked" /\ executed = <<>> /\ Requested
  BY DEF ProtocolInv, Serves
<1>2. calls = IF exchange.whole THEN {Call} ELSE {}
  <2>1. exchange.whole => Understood(exchange.line) = {Call}
    BY <1>1, RequestUnderstood DEF Requested, Call
  <2> QED BY <2>1 DEF read_line
<1>3. CASE ~exchange.whole
  <2>1. /\ exchange' = Answering(IF read_line THEN Failed ELSE <<>>)
        /\ executed' = executed
    BY <1>2, <1>3 DEF Serves, Failed
  <2>2. /\ exchange'.step = "answered" /\ exchange'.answer = <<>> /\ ~exchange'.whole
        /\ exchange'.command = exchange.command /\ exchange'.request = exchange.request
        /\ exchange'.line = exchange.line /\ exchange'.whole = exchange.whole /\ Shaped'
    BY <1>1, <1>3, <2>1 DEF Shaped, read_line
  <2>3. Requested'
    BY <1>1, <2>2 DEF Requested
  <2>4. Answered' /\ AnswerIsBackends'
    BY <1>1, <2>1, <2>2 DEF Answered, AnswerIsBackends
  <2> QED BY <1>1, <2>1, <2>2, <2>3, <2>4 DEF ProtocolInv
<1>4. CASE exchange.whole
  <2> DEFINE type == Answers[exchange.command]
             Returns(v) == [Answering(Succeeded(type, v)) EXCEPT !.value = v]
  <2>1. /\ executed' = Append(executed, Call)
        /\ \/ exchange' = Answering(Failed)
           \/ \E v \in Returned(type) : exchange' = Returns(v)
    <3>1. Call.command = exchange.command
      BY DEF Call
    <3> QED BY <1>2, <1>4, <3>1 DEF Serves, Failed, Succeeded
  <2>2. executed' = <<Call>>
    <3>1. \A x : Append(<<>>, x) = <<x>>
      OBVIOUS
    <3> QED BY <1>1, <2>1, <3>1
  <2> HIDE DEF type
  <2>3. /\ exchange'.step = "answered" /\ exchange'.command = exchange.command
        /\ exchange'.request = exchange.request /\ exchange'.line = exchange.line
        /\ exchange'.whole = exchange.whole /\ Shaped'
        /\ \/ exchange'.answer = Failed
           \/ /\ exchange'.value \in Returned(type)
              /\ exchange'.answer = Succeeded(type, exchange'.value)
    <3>1. CASE exchange' = Answering(Failed)
      BY <1>1, <3>1 DEF Shaped
    <3>2. ASSUME NEW v \in Returned(type), exchange' = Returns(v)
          PROVE  /\ exchange'.step = "answered" /\ exchange'.command = exchange.command
                 /\ exchange'.request = exchange.request /\ exchange'.line = exchange.line
                 /\ exchange'.whole = exchange.whole /\ Shaped'
                 /\ exchange'.value = v /\ exchange'.answer = Succeeded(type, v)
      BY <1>1, <3>2 DEF Shaped
    <3> QED BY <2>1, <3>1, <3>2
  <2>4. Call' = Call
    BY <2>3 DEF Call
  <2>5. Requested'
    BY <1>1, <2>3 DEF Requested
  <2>6. Answered' /\ AnswerIsBackends'
    BY <1>4, <2>2, <2>3 DEF Answered, AnswerIsBackends, type
  <2> QED BY <1>4, <2>2, <2>3, <2>4, <2>5, <2>6 DEF ProtocolInv
<1> QED BY <1>1, <1>3, <1>4 DEF Requested

\* The answer, as much of it as arrives.
LEMMA InvReceives == ProtocolInv /\ Receives => ProtocolInv'
<1> SUFFICES ASSUME ProtocolInv, Receives PROVE ProtocolInv'
  OBVIOUS
<1> DEFINE answer == exchange.answer
<1>1. PICK n \in 0 .. Len(answer) :
         exchange' = [exchange EXCEPT !.step = "done",
                                      !.result = AnswerRead(exchange.command, SubSeq(answer, 1, n))]
  BY DEF Receives
<1>2. Shaped /\ exchange.step = "answered" /\ Requested /\ Answered /\ executed' = executed
  BY DEF ProtocolInv, Receives
<1>3. /\ exchange'.step = "done" /\ exchange'.command = exchange.command
      /\ exchange'.request = exchange.request /\ exchange'.whole = exchange.whole
      /\ exchange'.value = exchange.value /\ Shaped'
      /\ exchange'.result = AnswerRead(exchange.command, SubSeq(answer, 1, n))
  BY <1>1, <1>2 DEF Shaped
<1>4. exchange'.result # {} => executed # <<>> /\ exchange'.result = {exchange.value}
  <2>1. CASE answer \in {<<>>, Failed}
    BY <1>3, <2>1, ErrorRead
  <2>2. CASE /\ exchange.whole /\ exchange.value \in Returned(Answers[exchange.command])
             /\ answer = Succeeded(Answers[exchange.command], exchange.value)
    <3>1. exchange.command \in Verbs /\ executed # <<>>
      BY <1>2, <2>2 DEF Requested, Answered
    <3>2. CASE n = Len(answer)
      <4>1. SubSeq(answer, 1, n) = answer
        <5>1. PICK S : answer \in Seq(S)
          BY <2>2, <3>1, AnswersTypes, AnswerLines
        <5> HIDE DEF answer
        <5> QED BY <3>2, <5>1, SubSeqWhole
      <4>2. AnswerRead(exchange.command, answer) = {exchange.value}
        <5>1. exchange.command \in Verbs /\ exchange.value \in Returned(Answers[exchange.command])
          BY <2>2, <3>1
        <5>2. answer = Succeeded(Answers[exchange.command], exchange.value)
          BY <2>2
        <5> QED BY ONLY <5>1, <5>2, WholeRead
      <4> QED BY <1>3, <3>1, <4>1, <4>2
    <3>3. CASE n # Len(answer)
      <4>1. AnswerRead(exchange.command, SubSeq(answer, 1, n)) = {}
        BY <2>2, <3>1, <3>3, BrokenOffRead
      <4> QED BY <1>3, <4>1
    <3> QED BY <3>2, <3>3
  <2> QED BY <1>2, <2>1, <2>2 DEF Answered
<1>5. AnswerIsBackends'
  BY <1>2, <1>3, <1>4 DEF AnswerIsBackends
<1>6. Call' = Call
  BY <1>3 DEF Call
<1> QED BY <1>2, <1>3, <1>5, <1>6 DEF ProtocolInv

LEMMA InvOver == ProtocolInv /\ Over => ProtocolInv'
BY DEF ProtocolInv, Over, Shaped, Idle, AnswerIsBackends

\* What is known of an exchange holds from first to last.
THEOREM ProtocolInvHolds == ProtocolSpec => []ProtocolInv
<1>1. ProtocolInit => ProtocolInv
  BY DEF ProtocolInit, ProtocolInv, Shaped, Idle, AnswerIsBackends
<1>2. ProtocolInv /\ [ProtocolNext]_protocolVars => ProtocolInv'
  <2>1. ProtocolInv /\ UNCHANGED protocolVars => ProtocolInv'
    BY DEF ProtocolInv, protocolVars, Shaped, Requested, Answered, AnswerIsBackends, Call
  <2> QED BY <2>1, InvAsks, InvUnreached, InvServes, InvReceives, InvOver DEF ProtocolNext
<1> QED BY <1>1, <1>2, PTL DEF ProtocolSpec

\* The backend is called once at most, for a request that arrived whole, and with
\* what the command was given.
THEOREM CallIsAsAsked == ProtocolSpec => []ExecutedAsAsked
<1>1. \A x : Len(<<x>>) = 1 /\ DOMAIN <<x>> = {1} /\ <<x>>[1] = x
  OBVIOUS
<1>2. ASSUME exchange.whole, executed = <<Call>> PROVE ExecutedAsAsked
  <2>1. Len(executed) = 1 /\ DOMAIN executed = {1} /\ executed[1] = Call
    BY <1>1, <1>2
  <2> QED BY <1>2, <2>1 DEF ExecutedAsAsked, Call
<1>3. executed = <<>> => ExecutedAsAsked
  BY DEF ExecutedAsAsked
<1>4. ProtocolInv => ExecutedAsAsked
  BY <1>2, <1>3 DEF ProtocolInv
<1> QED BY <1>4, ProtocolInvHolds, PTL

\* A command reports what the backend returned to it, wherever its answer breaks off.
THEOREM ReportIsBackends == ProtocolSpec => []AnswerIsBackends
<1>1. ProtocolInv => AnswerIsBackends
  BY DEF ProtocolInv
<1> QED BY <1>1, ProtocolInvHolds, PTL

\* What arrives whole, request or answer, is understood at the other end.
THEOREM WholeIsTaken == ProtocolSpec => []WholeIsUnderstood
<1>1. ASSUME ProtocolInv PROVE WholeIsUnderstood
  <2>1. ASSUME exchange.step = "answered" PROVE Answered /\ Requested
    BY <1>1, <2>1 DEF ProtocolInv
  <2>2. exchange.step = "answered" /\ exchange.whole => executed # <<>>
    BY <2>1 DEF Answered
  <2>3. ASSUME exchange.step = "answered", exchange.answer # <<>>,
               Head1("error") # exchange.answer[1]
        PROVE  AnswerRead(exchange.command, exchange.answer) = {exchange.value}
    <3>1. Failed[1] = Head1("error")
      BY DEF Failed
    <3>2. /\ exchange.value \in Returned(Answers[exchange.command])
          /\ exchange.answer = Succeeded(Answers[exchange.command], exchange.value)
          /\ exchange.command \in Verbs
      BY <2>1, <2>3, <3>1 DEF Answered, Requested
    <3> QED BY <3>2, WholeRead
  <2> QED BY <2>2, <2>3 DEF WholeIsUnderstood
<1> QED BY <1>1, ProtocolInvHolds, PTL

--------------------------------------------------------------------------------
(* The processes of one user together (MCProcesses).  A step is one part's and  *)
(* a stutter of the others, so what is so of each part is so of them all.       *)

allVars == <<processVars, clientVars, configVars, hookVars, part>>

\* The processes together do what the specifications of the parts let each do.
THEOREM PartsAreKept ==
    ProcessesSpec => ProcessSpec /\ ClientSpec /\ ConfigSpec /\ HookSpec
<1>1. ProcessesInit => ProcessInit /\ ClientInit /\ ConfigInit /\ HookInit
  BY DEF ProcessesInit
<1>2. ASSUME [ProcessesNext]_allVars
      PROVE  /\ [ProcessNext]_processVars
             /\ [ClientNext]_clientVars
             /\ [ConfigNext]_configVars
             /\ [HookNext]_hookVars
  <2>1. CASE UNCHANGED allVars
    BY <2>1 DEF allVars
  <2>2. CASE ProcessNext /\ UNCHANGED <<clientVars, configVars, hookVars>>
    BY <2>2
  <2>3. CASE ClientNext /\ UNCHANGED <<processVars, configVars, hookVars>>
    BY <2>3
  <2>4. CASE ConfigNext /\ UNCHANGED <<processVars, clientVars, hookVars>>
    BY <2>4
  <2>5. CASE HookNext /\ UNCHANGED <<processVars, clientVars, configVars>>
    BY <2>5
  <2> QED BY <1>2, <2>1, <2>2, <2>3, <2>4, <2>5 DEF ProcessesNext
<1> QED BY <1>1, <1>2, PTL DEF ProcessesSpec, allVars, ProcessSpec, ClientSpec, ConfigSpec, HookSpec

\* Whichever of them run, a stop and a status that find no daemon, and no client,
\* are right, and every part has its types.
THEOREM NothingIsDenied == ProcessesSpec => []NotDenied
<1>1. /\ DaemonProcessTypeOK /\ DaemonNotDenied
      /\ ClientTypeOK /\ ClientNotDenied
      /\ ConfigTypeOK
      /\ HookInv
      => NotDenied
  BY DEF NotDenied, HookInv
<1> QED BY <1>1, PartsAreKept, DaemonProcessTypeCorrect, DaemonIsNotDenied, ClientTypeCorrect,
           ClientIsNotDenied, ConfigTypes, HookInvHolds, PTL

================================================================================
