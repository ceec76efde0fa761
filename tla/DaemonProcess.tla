----------------------------- MODULE DaemonProcess -----------------------------
(* "ts daemon start", "stop" and "status": one-shot ts processes and the        *)
(* daemons they fork, which know of each other by a pid file and a status file. *)
(* Nothing locks the files; a step is one system call on the pid file, or one   *)
(* look at another process.  What the daemon does while it runs is EventDaemon. *)
EXTENDS Naturals, FiniteSets

CONSTANTS
    Pids,          \* process numbers, used again once they are free
    Commands,      \* the ts processes that run daemon commands
    Nobody         \* no process

ASSUME PidsAssumption ==
    /\ Nobody \notin Commands \cup Pids
    /\ {"none", "empty"} \cap Pids = {}

VARIABLES
    pidFile,       \* daemon.pid: a process number, "empty", or "none"
    statusSays,    \* daemon.status: does it say running?
    process,       \* what each process number stands for
    command,       \* the daemon command each ts process runs
    told,          \* history: what the last command to end said, and what was so
    disturbed      \* history: commands overlapped, or one died writing the file

processVars == <<pidFile, statusSays, process, command, told, disturbed>>

FreePid == [is |-> "free", at |-> "off", stop |-> FALSE, guard |-> FALSE, parent |-> Nobody]
NoCommand == [at |-> "idle", task |-> "none", pid |-> Nobody]

Daemons == {p \in Pids : process[p].is = "daemon"}

\* process_is_running: a zombie is, and so is whatever has the number now.
Running(p) == process[p].is # "free"

DaemonProcessTypeOK ==
    /\ pidFile \in Pids \cup {"none", "empty"}
    /\ statusSays \in BOOLEAN
    /\ process \in [Pids -> [is : {"free", "daemon", "zombie", "stranger"},
                             at : {"off", "pid", "write", "begin", "run", "end", "guard"},
                             stop : BOOLEAN, guard : BOOLEAN, parent : Commands \cup {Nobody}]]
    /\ \A p \in Pids : process[p].is = "daemon" <=> process[p].at # "off"
    /\ command \in [Commands ->
          [at : {"idle", "probe", "unlink", "fork", "record", "write", "signal", "wait",
                 "forget", "report"},
           task : {"none", "start", "stop", "status"}, pid : Pids \cup {Nobody}]]
    /\ \A c \in Commands :
          /\ command[c].at = "idle" <=> command[c].task = "none"
          /\ command[c].at \notin {"idle", "fork"} => command[c].pid # Nobody
    /\ told \in [said : {"nothing", "started", "already", "stopped", "absent", "timeout", "failed",
                         "running", "not running"}, daemon : BOOLEAN]
    /\ disturbed \in BOOLEAN

ProcessInit ==
    /\ pidFile = "none"
    /\ statusSays = FALSE
    /\ process = [p \in Pids |-> FreePid]
    /\ command = [c \in Commands |-> NoCommand]
    /\ told = [said |-> "nothing", daemon |-> FALSE]
    /\ disturbed = FALSE

--------------------------------------------------------------------------------
(* The commands                                                                *)

\* With process table ps, the command ends: a child it has not outlived is
\* adopted, or reaped if it is dead.
Orphaned(ps, c) ==
    [p \in Pids |-> IF ps[p].parent # c THEN ps[p]
                    ELSE IF ps[p].is = "zombie" THEN FreePid
                    ELSE [ps[p] EXCEPT !.parent = Nobody]]

Says(c, what) ==
    /\ command' = [command EXCEPT ![c] = NoCommand]
    /\ told' = [said |-> what, daemon |-> Daemons # {}]

Goes(c, at) == command' = [command EXCEPT ![c].at = at] /\ UNCHANGED told

\* Another command runs, or a new daemon has yet to write its number.
Busy == \/ \E c \in Commands : command[c].at # "idle"
        \/ \E p \in Pids : process[p].at \in {"pid", "write"}

\* Each command first reads the pid file: read_pid_file has no number for a file
\* that is missing or empty.
Begins(c, task) ==
    /\ command[c].at = "idle"
    /\ disturbed' = (disturbed \/ Busy)
    /\ IF pidFile \in Pids
       THEN /\ command' = [command EXCEPT ![c] = [at |-> "probe", task |-> task, pid |-> pidFile]]
            /\ UNCHANGED told
       ELSE IF task = "start"
       THEN /\ command' = [command EXCEPT ![c] = [at |-> "fork", task |-> task, pid |-> Nobody]]
            /\ UNCHANGED told
       ELSE Says(c, IF task = "stop" THEN "absent" ELSE "not running")
    /\ UNCHANGED <<pidFile, statusSays, process>>

\* ... and looks whether that process runs.
Probes(c) ==
    /\ command[c].at = "probe"
    /\ IF ~Running(command[c].pid) THEN Goes(c, "unlink")
       ELSE CASE command[c].task = "start" -> Says(c, "already")
              [] command[c].task = "stop" -> Goes(c, "signal")
              [] command[c].task = "status" -> Says(c, "running")
    /\ UNCHANGED <<pidFile, statusSays, process, disturbed>>

\* remove_pid_file of a stale number, whatever the file holds by now.
Unlinks(c) ==
    /\ command[c].at = "unlink"
    /\ pidFile' = "none"
    /\ CASE command[c].task = "start" -> Goes(c, "fork")
         [] command[c].task = "stop" -> Goes(c, "wait")
         [] command[c].task = "status" -> Goes(c, "report")
    /\ UNCHANGED <<statusSays, process, disturbed>>

\* A daemon in a process of its own, or with --foreground in this one.
StartForks(c, p, foreground) ==
    /\ command[c].at = "fork"
    /\ process[p].is = "free"
    /\ process' = [process EXCEPT ![p] =
          [is |-> "daemon", at |-> "pid", stop |-> FALSE, guard |-> foreground,
           parent |-> IF foreground THEN Nobody ELSE c]]
    /\ IF foreground
       THEN Says(c, "started")
       ELSE command' = [command EXCEPT ![c].at = "record", ![c].pid = p] /\ UNCHANGED told
    /\ UNCHANGED <<pidFile, statusSays, disturbed>>

\* No backend for the profile, or no process.
StartFails(c) ==
    /\ command[c].at = "fork"
    /\ Says(c, "failed")
    /\ UNCHANGED <<pidFile, statusSays, process, disturbed>>

\* The parent opens the file, which empties it, and writes the child's number.
StartRecords(c) ==
    /\ command[c].at = "record"
    /\ pidFile' = "empty"
    /\ Goes(c, "write")
    /\ UNCHANGED <<statusSays, process, disturbed>>

StartWrites(c) ==
    /\ command[c].at = "write"
    /\ pidFile' = command[c].pid
    /\ process' = Orphaned(process, c)
    /\ Says(c, "started")
    /\ UNCHANGED <<statusSays, disturbed>>

\* The process p is gone: a child whose parent still runs stays as a zombie.
Dead(p) == IF process[p].parent = Nobody THEN FreePid
           ELSE [FreePid EXCEPT !.is = "zombie", !.parent = process[p].parent]

\* SIGTERM ends a daemon that has not installed its handler, or has given it back.
Signalled(p) ==
    IF process[p].at \in {"begin", "run", "end"} THEN [process[p] EXCEPT !.stop = TRUE]
    ELSE IF process[p].is \in {"daemon", "stranger"} THEN Dead(p)
    ELSE process[p]

\* The parent cannot open the file, and stops its child.
RecordFails(c) ==
    /\ command[c].at = "record"
    /\ process' = Orphaned([process EXCEPT ![command[c].pid] = Signalled(command[c].pid)], c)
    /\ Says(c, "failed")
    /\ UNCHANGED <<pidFile, statusSays, disturbed>>

\* Mutant: stop does not wait for the end.
StopOnlySignals(c) ==
    /\ command[c].at = "signal"
    /\ process' = [process EXCEPT ![command[c].pid] = Signalled(command[c].pid)]
    /\ Goes(c, "forget")
    /\ UNCHANGED <<pidFile, statusSays, disturbed>>

StopSignals(c) ==
    /\ command[c].at = "signal"
    /\ process' = [process EXCEPT ![command[c].pid] = Signalled(command[c].pid)]
    /\ Goes(c, "wait")
    /\ UNCHANGED <<pidFile, statusSays, disturbed>>

StopWaits(c) ==
    /\ command[c].at = "wait"
    /\ ~Running(command[c].pid)
    /\ Goes(c, "forget")
    /\ UNCHANGED <<pidFile, statusSays, process, disturbed>>

\* Mutant: the number is forgotten whether the daemon ended or not.
StopGivesUp(c) ==
    /\ command[c].at = "wait"
    /\ Running(command[c].pid)
    /\ pidFile' = "none"
    /\ Says(c, "timeout")
    /\ UNCHANGED <<statusSays, process, disturbed>>

\* The deadline passes: the daemon may still be handling an event.
StopTimesOut(c) ==
    /\ command[c].at = "wait"
    /\ Running(command[c].pid)
    /\ Says(c, "timeout")
    /\ UNCHANGED <<pidFile, statusSays, process, disturbed>>

StopForgets(c) ==
    /\ command[c].at = "forget"
    /\ pidFile' = "none"
    /\ Goes(c, "report")
    /\ UNCHANGED <<statusSays, process, disturbed>>

\* Mutant: a crashed daemon's status stays.
ReportsOnly(c) ==
    /\ command[c].at = "report"
    /\ Says(c, IF command[c].task = "stop" THEN "stopped" ELSE "not running")
    /\ UNCHANGED <<pidFile, statusSays, process, disturbed>>

\* stop and status rewrite the status file before they report.
Reports(c) ==
    /\ command[c].at = "report"
    /\ statusSays' = FALSE
    /\ Says(c, IF command[c].task = "stop" THEN "stopped" ELSE "not running")
    /\ UNCHANGED <<pidFile, process, disturbed>>

\* The ts process is killed or interrupted.
CommandKilled(c) ==
    /\ command[c].at # "idle"
    /\ command' = [command EXCEPT ![c] = NoCommand]
    /\ told' = [said |-> "nothing", daemon |-> FALSE]
    /\ process' = Orphaned(process, c)
    /\ disturbed' = (disturbed \/ command[c].at = "write")
    /\ UNCHANGED <<pidFile, statusSays>>

--------------------------------------------------------------------------------
(* A daemon                                                                    *)

Moves(p, at) == process' = [process EXCEPT ![p].at = at]

\* The daemon writes its own number as well, before it installs its handlers.
DaemonRecords(p) ==
    /\ process[p].at = "pid"
    /\ pidFile' = "empty"
    /\ Moves(p, "write")
    /\ UNCHANGED <<statusSays, command, told, disturbed>>

DaemonWrites(p) ==
    /\ process[p].at = "write"
    /\ pidFile' = p
    /\ Moves(p, "begin")
    /\ UNCHANGED <<statusSays, command, told, disturbed>>

\* run_event_daemon writes its first status ...
DaemonBegins(p) ==
    /\ process[p].at = "begin"
    /\ statusSays' = TRUE
    /\ Moves(p, "run")
    /\ UNCHANGED <<pidFile, command, told, disturbed>>

\* ... its last when it stops or fails ...
DaemonEnds(p) ==
    /\ process[p].at = "run"
    /\ statusSays' = FALSE
    /\ Moves(p, "end")
    /\ UNCHANGED <<pidFile, command, told, disturbed>>

\* ... and leaves: in the background by _exit, which keeps the pid file, in the
\* foreground through the guard that removes it.
DaemonLeaves(p) ==
    /\ process[p].at = "end"
    /\ process' = [process EXCEPT ![p] = IF process[p].guard THEN [@ EXCEPT !.at = "guard"]
                                         ELSE Dead(p)]
    /\ UNCHANGED <<pidFile, statusSays, command, told, disturbed>>

DaemonUnlinks(p) ==
    /\ process[p].at = "guard"
    /\ pidFile' = "none"
    /\ process' = [process EXCEPT ![p] = FreePid]
    /\ UNCHANGED <<statusSays, command, told, disturbed>>

\* A file it cannot write ends the daemon before it runs, and a crash or SIGKILL
\* at any time.
DaemonDies(p) ==
    /\ process[p].is = "daemon"
    /\ process' = [process EXCEPT ![p] = Dead(p)]
    /\ UNCHANGED <<pidFile, statusSays, command, told, disturbed>>

\* The number is used again by a program that has nothing to do with ts.
Stranger(p) ==
    /\ process[p].is \in {"free", "stranger"}
    /\ process' = [process EXCEPT ![p].is = IF @ = "free" THEN "stranger" ELSE "free"]
    /\ UNCHANGED <<pidFile, statusSays, command, told, disturbed>>

ProcessNext ==
    \/ \E c \in Commands :
          \/ \E task \in {"start", "stop", "status"} : Begins(c, task)
          \/ Probes(c) \/ Unlinks(c)
          \/ \E p \in Pids, foreground \in BOOLEAN : StartForks(c, p, foreground)
          \/ StartFails(c) \/ StartRecords(c) \/ StartWrites(c) \/ RecordFails(c)
          \/ StopSignals(c) \/ StopWaits(c) \/ StopTimesOut(c) \/ StopForgets(c)
          \/ Reports(c)
          \/ CommandKilled(c)
    \/ \E p \in Pids :
          \/ DaemonRecords(p) \/ DaemonWrites(p) \/ DaemonBegins(p) \/ DaemonEnds(p)
          \/ DaemonLeaves(p) \/ DaemonUnlinks(p) \/ DaemonDies(p) \/ Stranger(p)

ProcessSpec == ProcessInit /\ [][ProcessNext]_processVars

--------------------------------------------------------------------------------
(* Properties                                                                  *)

\* At most one daemon runs, through crashes, stale and recycled numbers, stops
\* that time out and starts that fail half-way, as long as no two commands
\* overlap (daemon start refuses while the pid file names a process).
OneDaemon == ~disturbed => Cardinality(Daemons) <= 1

\* A stop or a status that says no daemon runs is right.
DaemonNotDenied ==
    ~disturbed /\ told.said \in {"stopped", "absent", "not running"} => ~told.daemon

\* After a stop that succeeded nothing speaks of a daemon, until the next command.
StopLeavesNothing ==
    ~disturbed /\ told.said = "stopped" /\ (\A c \in Commands : command[c].at = "idle") =>
        pidFile = "none" /\ ~statusSays /\ Daemons = {}

================================================================================
