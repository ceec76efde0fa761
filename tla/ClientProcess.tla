----------------------------- MODULE ClientProcess -----------------------------
(* "ts client start", "stop" and "status": one ts process after another, the    *)
(* TeamSpeak client they launch, as a transient systemd unit or as a detached   *)
(* child, and what they find it by: client.pid, the unit file and /proc.        *)
(* Left out: the control socket path, Xvfb (it shares the client's process      *)
(* group), the headless script and the dialogs.  Commands do not overlap.       *)
EXTENDS Naturals, FiniteSets

CONSTANTS
    ClientPids,    \* process numbers, used again once they are free
    Units,         \* names of systemd units
    None           \* no process, no unit, a file that is missing or holds neither

ASSUME ClientAssumption == None \notin ClientPids \cup Units

VARIABLES
    clientFile,    \* client.pid; read_pid_file takes an empty one for a missing one
    unitFile,      \* the file that names the transient unit
    proc,          \* what each process number stands for
    run,           \* the ts process that runs
    said           \* history: what the last command said, and whether a client of ours lived

clientVars == <<clientFile, unitFile, proc, run, said>>

\* A child that has not yet become the launcher, a launcher that has not yet
\* become the client, the client; a client the user started; another program.
Kinds == {"free", "forked", "launching", "client", "byhand", "stranger"}
NoProc == [is |-> "free", unit |-> None, stopping |-> FALSE, lost |-> FALSE]
NoRun == [at |-> "idle", task |-> "none", pid |-> None, unit |-> None]

Alive(p) == p \in ClientPids /\ proc[p].is # "free"

\* The clients ts launched and has not lost: none that an interrupted command, or
\* a systemd that did not answer, left to itself.
Ours == {p \in ClientPids : proc[p].is \in {"forked", "launching", "client"} /\ ~proc[p].lost}

\* discover_running_client_process knows a client by its name.
Discovered == {p \in ClientPids : proc[p].is \in {"client", "byhand"}}

MainOf(u) == {p \in ClientPids : u # None /\ proc[p].unit = u}

ClientTypeOK ==
    /\ clientFile \in ClientPids \cup {None}
    /\ unitFile \in Units \cup {None}
    /\ proc \in [ClientPids -> [is : Kinds, unit : Units \cup {None}, stopping : BOOLEAN,
                                lost : BOOLEAN]]
    /\ \A p \in ClientPids : proc[p].is = "free" => proc[p] = NoProc
    /\ \A u \in Units : Cardinality(MainOf(u)) <= 1
    /\ run \in [at : {"idle", "unit", "unit stop", "pid", "find", "launch", "unit pid", "unit file",
                      "direct", "wait", "record", "signal", "wait end"},
                task : {"none", "start", "status", "stop", "force"},
                pid : ClientPids \cup {None}, unit : Units \cup {None}]
    /\ said \in [what : {"nothing", "started", "already", "running", "not running", "stopped",
                         "absent", "timeout", "failed"}, client : BOOLEAN]

ClientInit ==
    /\ clientFile = None
    /\ unitFile = None
    /\ proc = [p \in ClientPids |-> NoProc]
    /\ run = NoRun
    /\ said = [what |-> "nothing", client |-> FALSE]

Answer(what) ==
    /\ run' = NoRun
    /\ said' = [what |-> what, client |-> Ours # {}]

Proceed(at) == run' = [run EXCEPT !.at = at] /\ UNCHANGED said

\* process table: the processes of set ps are left to themselves.
Lose(ps) == [p \in ClientPids |-> IF p \in ps THEN [proc[p] EXCEPT !.lost = TRUE] ELSE proc[p]]

IsStop == run.task \in {"stop", "force"}

--------------------------------------------------------------------------------
(* Looking for a client                                                        *)

ClientBegins(task) ==
    /\ run.at = "idle"
    /\ run' = [NoRun EXCEPT !.at = "unit", !.task = task]
    /\ UNCHANGED <<clientFile, unitFile, proc, said>>

NoUnitFile ==
    /\ run.at = "unit"
    /\ unitFile = None
    /\ Proceed("pid")
    /\ UNCHANGED <<clientFile, unitFile, proc>>

\* The unit runs: start and status are done, and write its number, or fail to.
UnitActive(p) ==
    /\ run.at = "unit"
    /\ p \in MainOf(unitFile)
    /\ ~proc[p].stopping
    /\ IF IsStop
       THEN Proceed("unit stop") /\ UNCHANGED <<clientFile, proc>>
       ELSE /\ clientFile' \in {p, clientFile}
            /\ Answer(IF run.task = "start" THEN "already" ELSE "running")
            /\ UNCHANGED proc
    /\ UNCHANGED unitFile

\* The unit ended, or is being stopped: stop then leaves the files.
UnitInactive ==
    /\ run.at = "unit"
    /\ unitFile # None
    /\ \A p \in MainOf(unitFile) : proc[p].stopping
    /\ IF IsStop /\ MainOf(unitFile) # {}
       THEN UNCHANGED <<clientFile, unitFile>>
       ELSE clientFile' = None /\ unitFile' = None
    /\ Proceed("pid")
    /\ UNCHANGED proc

\* systemctl is gone, or fails: then stop forgets the unit.
UnitUnknown(present) ==
    /\ run.at = "unit"
    /\ unitFile # None
    /\ IF IsStop /\ present
       THEN clientFile' = None /\ unitFile' = None
       ELSE UNCHANGED <<clientFile, unitFile>>
    /\ proc' = Lose(MainOf(unitFile))
    /\ Proceed("pid")

PidRuns ==
    /\ run.at = "pid"
    /\ Alive(clientFile)
    /\ CASE run.task = "start" -> Answer("already")
         [] run.task = "status" -> Answer("running")
         [] IsStop -> run' = [run EXCEPT !.at = "signal", !.pid = clientFile] /\ UNCHANGED said
    /\ UNCHANGED <<clientFile, unitFile, proc>>

\* Mutant: start does not look whether the process runs.
PidForgotten ==
    /\ run.at = "pid"
    /\ run.task = "start" \/ ~Alive(clientFile)
    /\ clientFile' = None
    /\ Proceed("find")
    /\ UNCHANGED <<unitFile, proc>>

PidStale ==
    /\ run.at = "pid"
    /\ ~Alive(clientFile)
    /\ clientFile' = None
    /\ Proceed("find")
    /\ UNCHANGED <<unitFile, proc>>

Finds(p) ==
    /\ run.at = "find"
    /\ p \in Discovered
    /\ CASE run.task = "start" -> Answer("already")
         [] run.task = "status" -> Answer("running")
         [] IsStop -> run' = [run EXCEPT !.at = "signal", !.pid = p] /\ UNCHANGED said
    /\ UNCHANGED <<clientFile, unitFile, proc>>

FindsNone ==
    /\ run.at = "find"
    /\ Discovered = {}
    /\ CASE run.task = "start" -> unitFile' = None /\ Proceed("launch")
         [] run.task = "status" -> Answer("not running") /\ UNCHANGED unitFile
         [] IsStop -> Answer("absent") /\ UNCHANGED unitFile
    /\ UNCHANGED <<clientFile, proc>>

--------------------------------------------------------------------------------
(* Launching one                                                               *)

\* systemd-run returns once the unit's process executes.
LaunchUnit(p, u) ==
    /\ run.at = "launch"
    /\ proc[p].is = "free"
    /\ MainOf(u) = {}
    /\ proc' = [proc EXCEPT ![p] = [NoProc EXCEPT !.is = "launching", !.unit = u]]
    /\ run' = [run EXCEPT !.at = "unit pid", !.unit = u]
    /\ UNCHANGED <<clientFile, unitFile, said>>

\* TS_CLIENT_SYSTEMD_RUN, a display, or systemd-run itself rules the unit out;
\* forced is the setting that allows nothing else.
LaunchNoUnit(forced) ==
    /\ run.at = "launch"
    /\ IF forced THEN Answer("failed") ELSE Proceed("direct")
    /\ UNCHANGED <<clientFile, unitFile, proc>>

UnitReports(p) ==
    /\ run.at = "unit pid"
    /\ p \in MainOf(run.unit)
    /\ run' = [run EXCEPT !.at = "unit file", !.pid = p]
    /\ UNCHANGED <<clientFile, unitFile, proc, said>>

\* The process table once stop_client_systemd_unit has stopped unit u, or failed to.
AfterUnitStop(u, stopped) ==
    IF ~stopped THEN Lose(MainOf(u))
    ELSE [p \in ClientPids |-> IF p \in MainOf(u) THEN NoProc ELSE proc[p]]

\* No number within 3 s, or no unit file: the unit is stopped, whatever comes of
\* it, and the client launched without one.
UnitAbandoned(stopped, forced) ==
    /\ run.at \in {"unit pid", "unit file"}
    /\ proc' = AfterUnitStop(run.unit, stopped)
    /\ IF forced THEN Answer("failed")
       ELSE run' = [run EXCEPT !.at = "direct", !.pid = None, !.unit = None] /\ UNCHANGED said
    /\ UNCHANGED <<clientFile, unitFile>>

UnitRecorded ==
    /\ run.at = "unit file"
    /\ unitFile' = run.unit
    /\ Proceed("record")
    /\ UNCHANGED <<clientFile, proc>>

Forks(p) ==
    /\ run.at = "direct"
    /\ proc[p].is = "free"
    /\ proc' = [proc EXCEPT ![p] = [NoProc EXCEPT !.is = "forked"]]
    /\ run' = [run EXCEPT !.at = "wait", !.pid = p]
    /\ UNCHANGED <<clientFile, unitFile, said>>

\* No process, or the child writes its errno to the pipe.
DirectFails ==
    /\ \/ run.at = "direct" /\ UNCHANGED proc
       \/ /\ run.at = "wait"
          /\ proc[run.pid].is = "forked"
          /\ proc' = [proc EXCEPT ![run.pid] = NoProc]
    /\ Answer("failed")
    /\ UNCHANGED <<clientFile, unitFile>>

\* The pipe closes: the child is the launcher now, or ended without a word.
PipeCloses ==
    /\ run.at = "wait"
    /\ proc[run.pid].is # "forked"
    /\ Proceed("record")
    /\ UNCHANGED <<clientFile, unitFile, proc>>

ClientRecorded ==
    /\ run.at = "record"
    /\ clientFile' = run.pid
    /\ Answer("started")
    /\ UNCHANGED <<unitFile, proc>>

\* No pid file: the unit is stopped, or the child signalled, and not waited for.
RecordImpossible(stopped) ==
    /\ run.at = "record"
    /\ unitFile' = None
    /\ proc' = IF run.unit # None THEN AfterUnitStop(run.unit, stopped)
               ELSE Lose(Ours \cap {run.pid})
    /\ Answer("failed")
    /\ UNCHANGED clientFile

--------------------------------------------------------------------------------
(* Stopping one                                                                *)

\* systemctl stop signals the unit ...
UnitStopBegins ==
    /\ run.at = "unit stop"
    /\ \E p \in MainOf(unitFile) :
          ~proc[p].stopping /\ proc' = [proc EXCEPT ![p].stopping = TRUE]
    /\ UNCHANGED <<clientFile, unitFile, run, said>>

\* ... and returns when it is gone ...
UnitStopped ==
    /\ run.at = "unit stop"
    /\ MainOf(unitFile) = {}
    /\ clientFile' = None
    /\ unitFile' = None
    /\ Answer("stopped")
    /\ UNCHANGED proc

\* ... or fails: the client is then stopped by its number.
UnitStopFails ==
    /\ run.at = "unit stop"
    /\ proc' = Lose(MainOf(unitFile))
    /\ Proceed("pid")
    /\ UNCHANGED <<clientFile, unitFile>>

\* SIGTERM, to the whole process group: the process may end, at any later step.
ClientSignalled ==
    /\ run.at = "signal"
    /\ Alive(run.pid)
    /\ Proceed("wait end")
    /\ UNCHANGED <<clientFile, unitFile, proc>>

\* It has just ended, or it is someone else's.
NotSignalled ==
    /\ run.at = "signal"
    /\ \/ ~Alive(run.pid) /\ clientFile' = None /\ Answer("absent")
       \/ /\ Alive(run.pid)
          /\ proc[run.pid].is = "stranger"
          /\ Answer("failed")
          /\ UNCHANGED clientFile
    /\ UNCHANGED <<unitFile, proc>>

ForceKills ==
    /\ run.at = "wait end"
    /\ run.task = "force"
    /\ Alive(run.pid)
    /\ proc' = [proc EXCEPT ![run.pid] = NoProc]
    /\ UNCHANGED <<clientFile, unitFile, run, said>>

ClientStopped ==
    /\ run.at = "wait end"
    /\ ~Alive(run.pid)
    /\ clientFile' = None
    /\ Answer("stopped")
    /\ UNCHANGED <<unitFile, proc>>

\* 5 s pass, and with --force 2 more.
ClientStopTimesOut ==
    /\ run.at = "wait end"
    /\ Alive(run.pid)
    /\ Answer("timeout")
    /\ UNCHANGED <<clientFile, unitFile, proc>>

--------------------------------------------------------------------------------
(* What happens by itself                                                      *)

\* The ts process is interrupted: a client on its way in or out is left to itself,
\* unless the unit file names it.
RunKilled ==
    /\ run.at # "idle"
    /\ proc' = Lose(CASE run.at \in {"unit pid", "unit file"} -> MainOf(run.unit)
                      [] run.at \in {"wait", "record"} /\ run.unit = None -> Ours \cap {run.pid}
                      [] run.at = "unit stop" -> MainOf(unitFile)
                      [] OTHER -> {})
    /\ run' = NoRun
    /\ said' = [what |-> "nothing", client |-> FALSE]
    /\ UNCHANGED <<clientFile, unitFile>>

Becomes(p) ==
    /\ \/ proc[p].is = "forked" /\ proc' = [proc EXCEPT ![p].is = "launching"]
       \/ proc[p].is = "launching" /\ proc' = [proc EXCEPT ![p].is = "client"]
    /\ UNCHANGED <<clientFile, unitFile, run, said>>

\* A process ends: by itself, signalled, or in a crash.
Dies(p) ==
    /\ Alive(p)
    /\ proc' = [proc EXCEPT ![p] = NoProc]
    /\ UNCHANGED <<clientFile, unitFile, run, said>>

\* A client the user starts, or a program that has nothing to do with ts.
Appears(p, kind) ==
    /\ proc[p].is = "free"
    /\ kind \in {"byhand", "stranger"}
    /\ proc' = [proc EXCEPT ![p].is = kind]
    /\ UNCHANGED <<clientFile, unitFile, run, said>>

ClientNext ==
    \/ \E task \in {"start", "status", "stop", "force"} : ClientBegins(task)
    \/ NoUnitFile \/ UnitInactive
    \/ \E p \in ClientPids : UnitActive(p)
    \/ \E present \in BOOLEAN : UnitUnknown(present)
    \/ PidRuns \/ PidStale \/ FindsNone
    \/ \E p \in ClientPids : Finds(p)
    \/ \E p \in ClientPids, u \in Units : LaunchUnit(p, u)
    \/ \E forced \in BOOLEAN : LaunchNoUnit(forced)
    \/ \E p \in ClientPids : UnitReports(p) \/ Forks(p)
    \/ \E stopped, forced \in BOOLEAN : UnitAbandoned(stopped, forced)
    \/ UnitRecorded \/ DirectFails \/ PipeCloses \/ ClientRecorded
    \/ \E stopped \in BOOLEAN : RecordImpossible(stopped)
    \/ UnitStopBegins \/ UnitStopped \/ UnitStopFails
    \/ ClientSignalled \/ NotSignalled \/ ForceKills \/ ClientStopped \/ ClientStopTimesOut
    \/ RunKilled
    \/ \E p \in ClientPids :
          Becomes(p) \/ Dies(p) \/ \E kind \in {"byhand", "stranger"} : Appears(p, kind)

ClientSpec == ClientInit /\ [][ClientNext]_clientVars

--------------------------------------------------------------------------------
(* Properties                                                                  *)

\* ts never runs two clients: start finds the one it launched by the unit, the
\* number or the name, though it may have crashed, timed out on a stop, or still
\* be a launcher that no name betrays.  Between commands the files lead to it.
OneClient ==
    /\ Cardinality(Ours) <= 1
    /\ run.at = "idle" => \A p \in Ours : clientFile = p \/ p \in MainOf(unitFile)

\* A stop or a status that says no client runs is right.
ClientNotDenied ==
    said.what \in {"stopped", "absent", "not running"} => ~said.client

================================================================================
