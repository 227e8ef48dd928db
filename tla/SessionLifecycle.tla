--------------------------- MODULE SessionLifecycle ---------------------------
(***************************************************************************)
(* Starting, stopping and restarting one desktop (src/session.rs): the     *)
(* connection threads that carry out START, STOP, RESTART and PROVISION as *)
(* a series of commands and file operations, the transient systemd unit    *)
(* (external) with its restart-on-failure policy, and the session process  *)
(* (src/bin/desktop_session.rs), which needs its runtime directory.        *)
(*                                                                         *)
(* Threads share no lock: whatever one has looked at may have changed      *)
(* before its next step.  Desktops share nothing, so there is one.  The    *)
(* daemon may die between any two steps: it keeps nothing in memory, and   *)
(* what it has done so far to files, users and units stays.                *)
(***************************************************************************)
EXTENDS Naturals

CONSTANTS
    Thread,      \* threads of the daemon that have a request for the desktop
    May,         \* the operations each thread may be asked for
    MaxRuntimes, \* bound: runtime directories created over the run
    MaxFailures  \* bound: failures of the session over the run

Operation == {"PROVISION", "START", "STOP", "RESTART"}

ASSUME RequestAssumption == May \in [Thread -> SUBSET Operation]
ASSUME BoundAssumption == {MaxRuntimes, MaxFailures} \subseteq Nat

VARIABLES
    user,     \* the Linux user exists
    home,     \* owner of the desktop's HOME, or "none"
    runtime,  \* owner of the runtime directory, or "none"
    dirty,    \* the runtime directory holds what a session left in it
    gen,      \* how many runtime directories have been created
    unit,     \* the unit's state as systemctl is-active tells it
    session,  \* the session process of the unit
    lives,    \* the runtime directory the session process has
    failures, \* how often the session failed
    op,       \* the request each thread carries out
    at,       \* and how far it got
    reply     \* the answer to its last request

host    == <<user, home>>
dir     == <<runtime, dirty, gen>>
process == <<session, lives>>
systemd == <<unit, process, failures>>
vars == <<host, dir, systemd, op, at, reply>>

Owner == {"none", "root", "desktop"}

(* A start, once it has found the unit down.                               *)
Building == {"exists", "remove", "create", "own", "run"}
Step == {"idle", "id", "useradd", "home", "ownhome", "status"} \cup Building
            \cup {"stop", "stopping", "left", "clean"}

Go(t, from, to) == at[t] = from /\ at' = [at EXCEPT ![t] = to] /\ UNCHANGED <<op, reply>>
Answer(t, from, answer) ==
    /\ at[t] = from
    /\ at' = [at EXCEPT ![t] = "idle"]
    /\ reply' = [reply EXCEPT ![t] = answer]
    /\ UNCHANGED op

-----------------------------------------------------------------------------
Request(t, o) ==
    /\ at[t] = "idle" /\ o \in May[t]
    /\ o \in {"START", "RESTART"} => gen < MaxRuntimes
    /\ op' = [op EXCEPT ![t] = o]
    /\ at' = [at EXCEPT ![t] = IF o \in {"STOP", "RESTART"} THEN "stop" ELSE "id"]
    /\ reply' = [reply EXCEPT ![t] = "none"]
    /\ UNCHANGED <<host, dir, systemd>>

(* provision: id -u, useradd if there is no such user ...                  *)
LookUpUser(t) ==
    /\ IF user THEN Go(t, "id", "home") ELSE Go(t, "id", "useradd")
    /\ UNCHANGED <<host, dir, systemd>>

AddUser(t) ==
    /\ user' = TRUE
    /\ IF user THEN Answer(t, "useradd", "error") ELSE Go(t, "useradd", "home")
    /\ UNCHANGED <<home, dir, systemd>>

(* ... create_dir_all and chown of HOME, which starting goes on from.      *)
CreateHome(t) ==
    /\ Go(t, "home", "ownhome")
    /\ home' = IF home = "none" THEN "root" ELSE home
    /\ UNCHANGED <<user, dir, systemd>>

OwnHome(t) ==
    /\ home' = "desktop"
    /\ \/ op[t] = "PROVISION" /\ Answer(t, "ownhome", "provisioned")
       \/ op[t] # "PROVISION" /\ Go(t, "ownhome", "status")
    /\ UNCHANGED <<user, dir, systemd>>

-----------------------------------------------------------------------------
(* Mutant of Running: a unit that waits for its restart is not running.    *)
RunningActive == unit = "active"

Running == unit \in {"active", "activating"}

(* Mutant of ReadStatus: wait until the unit is up.                        *)
ReadStatusOnceUp(t) ==
    /\ \/ unit = "active" /\ Answer(t, "status", "already-running")
       \/ unit = "deactivating" /\ Answer(t, "status", "error")
       \/ unit = "inactive" /\ Go(t, "status", "exists")
    /\ UNCHANGED <<host, dir, systemd>>

(* start, after provision: systemctl is-active ...                         *)
ReadStatus(t) ==
    /\ \/ Running /\ Answer(t, "status", "already-running")
       \/ unit = "deactivating" /\ Answer(t, "status", "error")
       \/ ~Running /\ unit # "deactivating" /\ Go(t, "status", "exists")
    /\ UNCHANGED <<host, dir, systemd>>

(* Mutant of LookForRuntime: create_dir_all will do.                       *)
ReuseRuntime(t) == Go(t, "exists", "create") /\ UNCHANGED <<host, dir, systemd>>

(* ... replace a runtime directory that is left ...                        *)
LookForRuntime(t) ==
    /\ IF runtime # "none" THEN Go(t, "exists", "remove") ELSE Go(t, "exists", "create")
    /\ UNCHANGED <<host, dir, systemd>>

RemoveRuntime(t) ==
    /\ runtime' = "none" /\ dirty' = FALSE
    /\ IF runtime # "none" THEN Go(t, "remove", "create") ELSE Answer(t, "remove", "error")
    /\ UNCHANGED <<host, gen, systemd>>

CreateRuntime(t) ==
    /\ Go(t, "create", "own")
    /\ \/ runtime = "none" /\ runtime' = "root" /\ gen' = gen + 1
       \/ runtime # "none" /\ UNCHANGED <<runtime, gen>>
    /\ UNCHANGED <<host, dirty, systemd>>

(* Mutant of OwnRuntime: the directory stays root's.                       *)
OwnRuntimeNot(t) == Go(t, "own", "run") /\ UNCHANGED <<host, dir, systemd>>

OwnRuntime(t) ==
    /\ \/ runtime # "none" /\ runtime' = "desktop" /\ Go(t, "own", "run")
       \/ runtime = "none" /\ Answer(t, "own", "error") /\ UNCHANGED runtime
    /\ UNCHANGED <<host, dirty, gen, systemd>>

(* ... and systemd-run, which refuses while the unit is loaded.            *)
Run(t) ==
    /\ \/ /\ unit = "inactive"
          /\ unit' = "active" /\ session' = "starting"
          /\ Answer(t, "run", IF op[t] = "START" THEN "started" ELSE "restarted")
       \/ unit # "inactive" /\ Answer(t, "run", "error") /\ UNCHANGED <<unit, session>>
    /\ UNCHANGED <<host, dir, lives, failures>>

-----------------------------------------------------------------------------
(* stop: systemctl stop, which waits for the unit to be gone, and fails    *)
(* when it is not loaded ...                                               *)
StopUnit(t) ==
    /\ \/ /\ unit # "inactive"
          /\ unit' = "deactivating"
          /\ Go(t, "stop", "stopping")
       \/ unit = "inactive" /\ Answer(t, "stop", "error") /\ UNCHANGED unit
    /\ UNCHANGED <<host, dir, process, failures>>

(* Mutant of AwaitStop: systemctl stop --no-block.                         *)
AwaitNothing(t) == Go(t, "stopping", "left") /\ UNCHANGED <<host, dir, systemd>>

AwaitStop(t) ==
    /\ unit # "deactivating"
    /\ Go(t, "stopping", "left")
    /\ UNCHANGED <<host, dir, systemd>>

(* ... and remove the runtime directory, if it is there.                   *)
Stopped(t, from) == \/ op[t] = "STOP" /\ Answer(t, from, "stopped")
                    \/ op[t] = "RESTART" /\ Go(t, from, "id")

LookForLeftovers(t) ==
    /\ IF runtime # "none" THEN Go(t, "left", "clean") ELSE Stopped(t, "left")
    /\ UNCHANGED <<host, dir, systemd>>

CleanRuntime(t) ==
    /\ runtime' = "none" /\ dirty' = FALSE
    /\ IF runtime # "none" THEN Stopped(t, "clean") ELSE Answer(t, "clean", "error")
    /\ UNCHANGED <<host, gen, systemd>>

-----------------------------------------------------------------------------
(* The session process and its unit.                                       *)

(* prepare_directory of the session: HOME and the runtime must be there and*)
(* its own for the desktop to be launched, else the process exits with 2.  *)
SessionBegins ==
    /\ unit = "active" /\ session = "starting"
    /\ home = "desktop" /\ runtime = "desktop"
    /\ session' = "running" /\ lives' = gen /\ dirty' = TRUE
    /\ UNCHANGED <<host, runtime, gen, unit, failures, op, at, reply>>

(* Mutant of SessionFails: no --collect.                                   *)
SessionFailsForGood ==
    /\ unit = "active" /\ failures < MaxFailures
    /\ failures' = failures + 1
    /\ session' = "none" /\ lives' = 0
    /\ unit' \in {"activating", "failed"}
    /\ UNCHANGED <<host, dir, op, at, reply>>

(* Restart=on-failure, until StartLimitBurst; --collect unloads the unit.  *)
SessionFails ==
    /\ unit = "active" /\ failures < MaxFailures
    /\ failures' = failures + 1
    /\ session' = "none" /\ lives' = 0
    /\ unit' \in {"activating", "inactive"}
    /\ UNCHANGED <<host, dir, op, at, reply>>

AutoRestart ==
    /\ unit = "activating"
    /\ unit' = "active" /\ session' = "starting"
    /\ UNCHANGED <<host, dir, lives, failures, op, at, reply>>

(* The desktop is left by its user.                                        *)
SessionEnds ==
    /\ unit = "active" /\ session = "running"
    /\ unit' = "inactive" /\ session' = "none" /\ lives' = 0
    /\ UNCHANGED <<host, dir, failures, op, at, reply>>

UnitStops ==
    /\ unit = "deactivating"
    /\ unit' = "inactive" /\ session' = "none" /\ lives' = 0
    /\ UNCHANGED <<host, dir, failures, op, at, reply>>

-----------------------------------------------------------------------------
(* The daemon dies, with the commands it waits for, and systemd starts it  *)
(* again; systemd also completes the stop of a unit that was asked of it.  *)
DaemonDies ==
    /\ \E t \in Thread : at[t] # "idle"
    /\ at' = [t \in Thread |-> "idle"]
    /\ UNCHANGED <<host, dir, systemd, op, reply>>

-----------------------------------------------------------------------------
(* A dead daemon may have left a user without HOME, or with root's.        *)
Init ==
    /\ user \in BOOLEAN /\ home \in Owner /\ (user \/ home = "none")
    /\ runtime = "none" /\ dirty = FALSE /\ gen = 0
    /\ unit = "inactive" /\ session = "none" /\ lives = 0 /\ failures = 0
    /\ op = [t \in Thread |-> "PROVISION"] /\ at = [t \in Thread |-> "idle"]
    /\ reply = [t \in Thread |-> "none"]

Provision(t) == LookUpUser(t) \/ AddUser(t) \/ CreateHome(t) \/ OwnHome(t)
Start(t) == \/ ReadStatus(t) \/ LookForRuntime(t) \/ RemoveRuntime(t)
            \/ CreateRuntime(t) \/ OwnRuntime(t) \/ Run(t)
Stop(t) == StopUnit(t) \/ AwaitStop(t) \/ LookForLeftovers(t) \/ CleanRuntime(t)

Carry(t) == Provision(t) \/ Start(t) \/ Stop(t)

Unit == SessionBegins \/ SessionFails \/ AutoRestart \/ SessionEnds \/ UnitStops

Next == Unit \/ DaemonDies \/ \E t \in Thread : Carry(t) \/ \E o \in Operation : Request(t, o)

(* A thread carries its request on, and systemd stops a unit it was asked  *)
(* to stop, with SIGKILL in the end.                                       *)
Fairness == WF_vars(UnitStops) /\ \A t \in Thread : WF_vars(Carry(t))

Spec == Init /\ [][Next]_vars /\ Fairness

-----------------------------------------------------------------------------
TypeOK ==
    /\ user \in BOOLEAN /\ home \in Owner
    /\ runtime \in Owner /\ dirty \in BOOLEAN /\ gen \in Nat
    /\ unit \in {"inactive", "active", "activating", "deactivating"}
    /\ session \in {"none", "starting", "running"} /\ lives \in Nat /\ failures \in Nat
    /\ op \in [Thread -> Operation] /\ at \in [Thread -> Step]
    /\ reply \in [Thread -> {"none", "provisioned", "already-running", "started",
                             "restarted", "stopped", "error"}]

(* A running desktop has a runtime directory of its own, the one it was    *)
(* started with (session.rs 356-426).                                      *)
HasItsRuntime == session = "running" /\ unit # "deactivating"
                    => runtime = "desktop" /\ lives = gen

(* A session that is started, or started again after a failure, finds the  *)
(* directories it needs, whatever a daemon that died half way through an   *)
(* earlier request has left (session.rs 209-210, 370-374,                  *)
(* desktop_session.rs 19-30).                                              *)
FindsItsDirectories ==
    session = "starting" /\ unit = "active" => home = "desktop" /\ runtime = "desktop"

(* A desktop that is started finds nothing in its runtime directory of a   *)
(* session before: no socket or status file that invites the daemon to     *)
(* connect, also when the daemon died before it had cleaned up             *)
(* (session.rs 370-373, 418-421).                                          *)
StartsFresh == [][unit = "inactive" /\ unit' # "inactive" => ~dirty]_vars

(* A start that has found the desktop down, a stop that systemd has begun, *)
(* and a restart since then are not refused any more: no directory goes or *)
(* stays that they need or need away, and the unit is not left loaded by a *)
(* session that failed, or by a stop whose daemon died (session.rs         *)
(* 356-431).                                                               *)
Underway(t) == \/ at[t] \in Building \cup {"stopping", "left", "clean"}
               \/ op[t] = "RESTART" /\ at[t] \notin {"idle", "stop"}

UnderwaySucceeds ==
    [][\A t \in Thread : Underway(t) => reply'[t] # "error"]_vars

(* A desktop whose STOP was answered is down and its runtime is gone, until*)
(* it is started again (session.rs 412-426).                               *)
StoppedIsClean ==
    \A t \in Thread : reply[t] = "stopped" => unit = "inactive" /\ runtime = "none"

(* Every request ends: it is answered, unless the daemon dies (session.rs  *)
(* 187-431).                                                               *)
RequestsEnd == \A t \in Thread : at[t] # "idle" ~> at[t] = "idle"

(* README 98: RESTART "performs a controlled stop, cleans the temporary    *)
(* runtime and starts a fresh session", whatever became of the old one.    *)
RestartStarts == \A t \in Thread : op[t] = "RESTART" /\ dirty => reply[t] # "error"
=============================================================================
