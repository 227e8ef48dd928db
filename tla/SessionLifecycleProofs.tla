------------------------ MODULE SessionLifecycleProofs ------------------------
(***************************************************************************)
(* Theorems of SessionLifecycle.  The type invariant holds for any         *)
(* requests; the safety properties hold while the requests that change the *)
(* session are carried out one at a time, whoever makes them, which nothing*)
(* in session.rs enforces (TLC shows what happens without): []Serial is    *)
(* what a lock for each desktop would have to give, and all it would.      *)
(***************************************************************************)
EXTENDS SessionLifecycle, TLAPS

LEMMA CarrySteps ==
    ASSUME NEW t
    PROVE  Carry(t) <=> \/ LookUpUser(t) \/ AddUser(t)
                        \/ CreateHome(t) \/ OwnHome(t)
                        \/ ReadStatus(t) \/ LookForRuntime(t) \/ RemoveRuntime(t)
                        \/ CreateRuntime(t) \/ OwnRuntime(t) \/ Run(t)
                        \/ StopUnit(t) \/ AwaitStop(t) \/ LookForLeftovers(t)
                        \/ CleanRuntime(t)
BY Zenon DEF Carry, Provision, Start, Stop

LEMMA InitType == Init => TypeOK
<1>1. Init => user \in BOOLEAN /\ dirty \in BOOLEAN
  BY Zenon DEF Init
<1>2. QED BY <1>1 DEF Init, TypeOK, Operation, Owner, Building, Step

(* Every variable keeps its type, whatever is requested of whom.           *)
LEMMA TypeStep == TypeOK /\ [Next]_vars => TypeOK'
<1>. SUFFICES ASSUME TypeOK, [Next]_vars PROVE TypeOK'
  OBVIOUS
<1>. USE RequestAssumption DEF TypeOK, Operation, Owner, Building, Step, vars, host, dir, process,
          systemd
<1>1. CASE UNCHANGED vars
  BY <1>1
<1>2. CASE Unit
  <2>1. dirty' \in BOOLEAN
    BY <1>2, Zenon DEF Unit, SessionBegins, SessionFails, AutoRestart, SessionEnds, UnitStops
  <2>2. QED BY <1>2, <2>1
               DEF Unit, SessionBegins, SessionFails, AutoRestart, SessionEnds, UnitStops
<1>3. ASSUME NEW t \in Thread, NEW o \in Operation, Request(t, o) PROVE TypeOK'
  BY <1>3 DEF Request
<1>4. ASSUME NEW t \in Thread, Carry(t) PROVE TypeOK'
  <2>. USE DEF Go, Answer, Stopped
  <2>1. CASE LookUpUser(t)      BY <2>1 DEF LookUpUser
  <2>2. CASE AddUser(t)         BY <2>2 DEF AddUser
  <2>3. CASE CreateHome(t)      BY <2>3 DEF CreateHome
  <2>4. CASE OwnHome(t)         BY <2>4 DEF OwnHome
  <2>5. CASE ReadStatus(t)      BY <2>5 DEF ReadStatus
  <2>6. CASE LookForRuntime(t)  BY <2>6 DEF LookForRuntime
  <2>7. CASE RemoveRuntime(t)   BY <2>7 DEF RemoveRuntime
  <2>8. CASE CreateRuntime(t)   BY <2>8 DEF CreateRuntime
  <2>9. CASE OwnRuntime(t)      BY <2>9 DEF OwnRuntime
  <2>10. CASE Run(t)            BY <2>10 DEF Run
  <2>11. CASE StopUnit(t)       BY <2>11 DEF StopUnit
  <2>12. CASE AwaitStop(t)      BY <2>12 DEF AwaitStop
  <2>13. CASE LookForLeftovers(t) BY <2>13 DEF LookForLeftovers
  <2>14. CASE CleanRuntime(t)   BY <2>14 DEF CleanRuntime
  <2>15. QED BY <1>4, <2>1, <2>2, <2>3, <2>4, <2>5, <2>6, <2>7, <2>8, <2>9, <2>10, <2>11, <2>12,
                <2>13, <2>14, CarrySteps
<1>5. CASE DaemonDies
  BY <1>5 DEF DaemonDies
<1>6. QED BY <1>1, <1>2, <1>3, <1>4, <1>5 DEF Next

(* The state of the desktop, its unit and all requests keeps its type      *)
(* (session.rs 187-431), whatever the threads are asked for.               *)
THEOREM TypeCorrect == Spec => []TypeOK
<1>1. Init => TypeOK
  BY InitType
<1>2. QED BY <1>1, TypeStep, PTL DEF Spec

-----------------------------------------------------------------------------
(* One request at a time starts, stops or restarts the desktop; any number *)
(* of threads provision it meanwhile.                                      *)
Busy(t) == op[t] # "PROVISION" /\ at[t] # "idle"
Serial == \A t, u \in Thread : Busy(t) /\ Busy(u) => t = u

Places(t) == op[t] = "PROVISION" => at[t] \in {"idle", "id", "useradd", "home", "ownhome"}

(* From the look at the unit to systemd-run the unit is down, and stays so *)
(* from the end of systemctl stop to the end of the clean-up.  It may be   *)
(* going down at any other time, by a stop whose daemon has died.          *)
DownWhileBuilding(t) ==
    /\ at[t] \in Building \cup {"left", "clean"} => unit = "inactive"
    /\ at[t] = "stopping" => unit \in {"deactivating", "inactive"}

(* What the steps so far have made of the user and the directories.        *)
BuiltSoFar(t) ==
    /\ at[t] \in Building \cup {"home", "ownhome", "status", "stopping", "left", "clean"} => user
    /\ at[t] \in Building \cup {"status"} => home = "desktop"
    /\ at[t] \in {"remove", "own", "run", "clean"} => runtime # "none"
    /\ at[t] = "create" => runtime = "none"
    /\ at[t] \in {"own", "run"} => ~dirty
    /\ at[t] = "run" => runtime = "desktop"

(* A restart that has stopped the desktop finds its user and the unit down.*)
DownSinceStop(t) ==
    op[t] = "RESTART" /\ at[t] \in {"id", "useradd", "home", "ownhome", "status"}
        => unit = "inactive" /\ user /\ at[t] # "useradd"

(* Who is at work has not answered.                                        *)
Pending(t) == at[t] # "idle" => reply[t] = "none"

Holds(t) == Places(t) /\ DownWhileBuilding(t) /\ BuiltSoFar(t) /\ DownSinceStop(t) /\ Pending(t)

(* The unit is up only with a user and usable directories, and its session *)
(* runs in the last runtime directory that was created.                    *)
UpWithRuntime ==
    /\ unit # "inactive" => user
    /\ unit \in {"active", "activating"} => home = "desktop" /\ runtime = "desktop"
    /\ unit \in {"inactive", "activating"} => session = "none"
    /\ session = "running" => lives = gen
    /\ runtime = "none" => ~dirty

IInv == TypeOK /\ UpWithRuntime /\ \A t \in Thread : Holds(t)

LEMMA InitIInv == Init => IInv
BY InitType DEF Init, IInv, Holds, Places, DownWhileBuilding, BuiltSoFar, DownSinceStop,
       Pending, UpWithRuntime, Operation, Owner, Building, Step

(* One step per action.                                                    *)
LEMMA IInvStep == IInv /\ Serial /\ [Next]_vars => IInv'
<1>. SUFFICES ASSUME IInv, Serial, [Next]_vars PROVE IInv'
  OBVIOUS
<1>0. TypeOK /\ TypeOK'
  BY TypeStep DEF IInv
<1>h. \A t \in Thread : Holds(t)
  BY DEF IInv
<1>u. UpWithRuntime
  BY DEF IInv
<1>1. CASE UNCHANGED vars
  BY <1>0, <1>1, <1>h, <1>u DEF vars, host, dir, process, systemd, IInv, Holds, Places,
     DownWhileBuilding, BuiltSoFar, DownSinceStop, Pending, UpWithRuntime
<1>. USE DEF TypeOK, Operation, Owner, Building, Step, host, dir, process, systemd
<1>2. CASE Unit
  <2>. USE <1>0, <1>2, <1>h, <1>u
       DEF Unit, SessionBegins, SessionFails, AutoRestart, SessionEnds, UnitStops
  <2>1. UpWithRuntime'
    BY DEF UpWithRuntime
  <2>2. ASSUME NEW t \in Thread PROVE Holds(t)'
    BY DEF Holds, Places, DownWhileBuilding, BuiltSoFar, DownSinceStop, Pending, UpWithRuntime
  <2>3. QED BY <2>1, <2>2 DEF IInv
<1>3. ASSUME NEW t \in Thread, NEW o \in Operation, Request(t, o) PROVE IInv'
  <2>. USE <1>0, <1>3, <1>h, <1>u DEF Request
  <2>1. UpWithRuntime'
    BY DEF UpWithRuntime
  <2>2. ASSUME NEW u \in Thread PROVE Holds(u)'
    BY DEF Holds, Places, DownWhileBuilding, BuiltSoFar, DownSinceStop, Pending
  <2>3. QED BY <2>1, <2>2 DEF IInv
<1>4. ASSUME NEW t \in Thread, Carry(t) PROVE IInv'
  <2>0. ASSUME NEW u \in Thread, u # t PROVE
            \/ op[u] = "PROVISION" /\ at[u] \in {"idle", "id", "useradd", "home", "ownhome"}
            \/ op[t] = "PROVISION" /\ at[t] \in {"idle", "id", "useradd", "home", "ownhome"}
            \/ at[u] = "idle" \/ at[t] = "idle"
    BY <2>0, <1>h, Serial DEF Holds, Places, Serial, Busy
  <2>. USE <1>0, <1>h, <1>u DEF Go, Answer, Stopped
  <2>1. CASE LookUpUser(t)
    <3>. USE <2>1 DEF LookUpUser
    <3>1. UpWithRuntime'
      BY DEF UpWithRuntime, Holds, Places, DownWhileBuilding, BuiltSoFar
    <3>2. Holds(t)'
      BY DEF Holds, Places, DownWhileBuilding, BuiltSoFar, DownSinceStop, Pending, UpWithRuntime
    <3>3. ASSUME NEW u \in Thread, u # t PROVE Holds(u)'
      BY <2>0, <3>3
         DEF Holds, Places, DownWhileBuilding, BuiltSoFar, DownSinceStop, Pending
    <3>4. QED BY <3>1, <3>2, <3>3 DEF IInv
  <2>2. CASE AddUser(t)
    <3>. USE <2>2 DEF AddUser
    <3>1. UpWithRuntime'
      BY DEF UpWithRuntime, Holds, Places, DownWhileBuilding, BuiltSoFar
    <3>2. Holds(t)'
      BY DEF Holds, Places, DownWhileBuilding, BuiltSoFar, DownSinceStop, Pending, UpWithRuntime
    <3>3. ASSUME NEW u \in Thread, u # t PROVE Holds(u)'
      BY <2>0, <3>3
         DEF Holds, Places, DownWhileBuilding, BuiltSoFar, DownSinceStop, Pending
    <3>4. QED BY <3>1, <3>2, <3>3 DEF IInv
  <2>3. CASE CreateHome(t)
    <3>. USE <2>3 DEF CreateHome
    <3>1. UpWithRuntime'
      BY DEF UpWithRuntime, Holds, Places, DownWhileBuilding, BuiltSoFar
    <3>2. Holds(t)'
      BY DEF Holds, Places, DownWhileBuilding, BuiltSoFar, DownSinceStop, Pending, UpWithRuntime
    <3>3. ASSUME NEW u \in Thread, u # t PROVE Holds(u)'
      BY <2>0, <3>3
         DEF Holds, Places, DownWhileBuilding, BuiltSoFar, DownSinceStop, Pending
    <3>4. QED BY <3>1, <3>2, <3>3 DEF IInv
  <2>4. CASE OwnHome(t)
    <3>. USE <2>4 DEF OwnHome
    <3>1. UpWithRuntime'
      BY DEF UpWithRuntime, Holds, Places, DownWhileBuilding, BuiltSoFar
    <3>2. Holds(t)'
      BY DEF Holds, Places, DownWhileBuilding, BuiltSoFar, DownSinceStop, Pending, UpWithRuntime
    <3>3. ASSUME NEW u \in Thread, u # t PROVE Holds(u)'
      BY <2>0, <3>3
         DEF Holds, Places, DownWhileBuilding, BuiltSoFar, DownSinceStop, Pending
    <3>4. QED BY <3>1, <3>2, <3>3 DEF IInv
  <2>5. CASE ReadStatus(t)
    <3>. USE <2>5 DEF ReadStatus, Running
    <3>1. UpWithRuntime'
      BY DEF UpWithRuntime, Holds, Places, DownWhileBuilding, BuiltSoFar
    <3>2. Holds(t)'
      BY DEF Holds, Places, DownWhileBuilding, BuiltSoFar, DownSinceStop, Pending, UpWithRuntime
    <3>3. ASSUME NEW u \in Thread, u # t PROVE Holds(u)'
      BY <2>0, <3>3
         DEF Holds, Places, DownWhileBuilding, BuiltSoFar, DownSinceStop, Pending
    <3>4. QED BY <3>1, <3>2, <3>3 DEF IInv
  <2>6. CASE LookForRuntime(t)
    <3>. USE <2>6 DEF LookForRuntime
    <3>1. UpWithRuntime'
      BY DEF UpWithRuntime, Holds, Places, DownWhileBuilding, BuiltSoFar
    <3>2. Holds(t)'
      BY DEF Holds, Places, DownWhileBuilding, BuiltSoFar, DownSinceStop, Pending, UpWithRuntime
    <3>3. ASSUME NEW u \in Thread, u # t PROVE Holds(u)'
      BY <2>0, <3>3
         DEF Holds, Places, DownWhileBuilding, BuiltSoFar, DownSinceStop, Pending
    <3>4. QED BY <3>1, <3>2, <3>3 DEF IInv
  <2>7. CASE RemoveRuntime(t)
    <3>. USE <2>7 DEF RemoveRuntime
    <3>1. UpWithRuntime'
      BY DEF UpWithRuntime, Holds, Places, DownWhileBuilding, BuiltSoFar
    <3>2. Holds(t)'
      BY DEF Holds, Places, DownWhileBuilding, BuiltSoFar, DownSinceStop, Pending, UpWithRuntime
    <3>3. ASSUME NEW u \in Thread, u # t PROVE Holds(u)'
      BY <2>0, <3>3
         DEF Holds, Places, DownWhileBuilding, BuiltSoFar, DownSinceStop, Pending
    <3>4. QED BY <3>1, <3>2, <3>3 DEF IInv
  <2>8. CASE CreateRuntime(t)
    <3>. USE <2>8 DEF CreateRuntime
    <3>1. UpWithRuntime'
      BY DEF UpWithRuntime, Holds, Places, DownWhileBuilding, BuiltSoFar
    <3>2. Holds(t)'
      BY DEF Holds, Places, DownWhileBuilding, BuiltSoFar, DownSinceStop, Pending, UpWithRuntime
    <3>3. ASSUME NEW u \in Thread, u # t PROVE Holds(u)'
      BY <2>0, <3>3
         DEF Holds, Places, DownWhileBuilding, BuiltSoFar, DownSinceStop, Pending
    <3>4. QED BY <3>1, <3>2, <3>3 DEF IInv
  <2>9. CASE OwnRuntime(t)
    <3>. USE <2>9 DEF OwnRuntime
    <3>1. UpWithRuntime'
      BY DEF UpWithRuntime, Holds, Places, DownWhileBuilding, BuiltSoFar
    <3>2. Holds(t)'
      BY DEF Holds, Places, DownWhileBuilding, BuiltSoFar, DownSinceStop, Pending, UpWithRuntime
    <3>3. ASSUME NEW u \in Thread, u # t PROVE Holds(u)'
      BY <2>0, <3>3
         DEF Holds, Places, DownWhileBuilding, BuiltSoFar, DownSinceStop, Pending
    <3>4. QED BY <3>1, <3>2, <3>3 DEF IInv
  <2>10. CASE Run(t)
    <3>. USE <2>10 DEF Run
    <3>1. UpWithRuntime'
      BY DEF UpWithRuntime, Holds, Places, DownWhileBuilding, BuiltSoFar
    <3>2. Holds(t)'
      BY DEF Holds, Places, DownWhileBuilding, BuiltSoFar, DownSinceStop, Pending, UpWithRuntime
    <3>3. ASSUME NEW u \in Thread, u # t PROVE Holds(u)'
      BY <2>0, <3>3
         DEF Holds, Places, DownWhileBuilding, BuiltSoFar, DownSinceStop, Pending
    <3>4. QED BY <3>1, <3>2, <3>3 DEF IInv
  <2>11. CASE StopUnit(t)
    <3>. USE <2>11 DEF StopUnit
    <3>1. UpWithRuntime'
      BY DEF UpWithRuntime, Holds, Places, DownWhileBuilding, BuiltSoFar
    <3>2. Holds(t)'
      BY DEF Holds, Places, DownWhileBuilding, BuiltSoFar, DownSinceStop, Pending, UpWithRuntime
    <3>3. ASSUME NEW u \in Thread, u # t PROVE Holds(u)'
      BY <2>0, <3>3
         DEF Holds, Places, DownWhileBuilding, BuiltSoFar, DownSinceStop, Pending
    <3>4. QED BY <3>1, <3>2, <3>3 DEF IInv
  <2>12. CASE AwaitStop(t)
    <3>. USE <2>12 DEF AwaitStop
    <3>1. UpWithRuntime'
      BY DEF UpWithRuntime, Holds, Places, DownWhileBuilding, BuiltSoFar
    <3>2. Holds(t)'
      BY DEF Holds, Places, DownWhileBuilding, BuiltSoFar, DownSinceStop, Pending, UpWithRuntime
    <3>3. ASSUME NEW u \in Thread, u # t PROVE Holds(u)'
      BY <2>0, <3>3
         DEF Holds, Places, DownWhileBuilding, BuiltSoFar, DownSinceStop, Pending
    <3>4. QED BY <3>1, <3>2, <3>3 DEF IInv
  <2>13. CASE LookForLeftovers(t)
    <3>. USE <2>13 DEF LookForLeftovers
    <3>1. UpWithRuntime'
      BY DEF UpWithRuntime, Holds, Places, DownWhileBuilding, BuiltSoFar
    <3>2. Holds(t)'
      BY DEF Holds, Places, DownWhileBuilding, BuiltSoFar, DownSinceStop, Pending, UpWithRuntime
    <3>3. ASSUME NEW u \in Thread, u # t PROVE Holds(u)'
      BY <2>0, <3>3
         DEF Holds, Places, DownWhileBuilding, BuiltSoFar, DownSinceStop, Pending
    <3>4. QED BY <3>1, <3>2, <3>3 DEF IInv
  <2>14. CASE CleanRuntime(t)
    <3>. USE <2>14 DEF CleanRuntime
    <3>1. UpWithRuntime'
      BY DEF UpWithRuntime, Holds, Places, DownWhileBuilding, BuiltSoFar
    <3>2. Holds(t)'
      BY DEF Holds, Places, DownWhileBuilding, BuiltSoFar, DownSinceStop, Pending, UpWithRuntime
    <3>3. ASSUME NEW u \in Thread, u # t PROVE Holds(u)'
      BY <2>0, <3>3
         DEF Holds, Places, DownWhileBuilding, BuiltSoFar, DownSinceStop, Pending
    <3>4. QED BY <3>1, <3>2, <3>3 DEF IInv
  <2>15. QED BY <1>4, <2>1, <2>2, <2>3, <2>4, <2>5, <2>6, <2>7, <2>8, <2>9, <2>10, <2>11, <2>12,
                <2>13, <2>14, CarrySteps
<1>5. CASE DaemonDies
  <2>. USE <1>0, <1>5, <1>h, <1>u DEF DaemonDies
  <2>1. UpWithRuntime'
    BY DEF UpWithRuntime
  <2>2. ASSUME NEW t \in Thread PROVE Holds(t)'
    BY DEF Holds, Places, DownWhileBuilding, BuiltSoFar, DownSinceStop, Pending
  <2>3. QED BY <2>1, <2>2 DEF IInv
<1>6. QED BY <1>1, <1>2, <1>3, <1>4, <1>5 DEF Next

LEMMA IInvAlways == Spec /\ []Serial => []IInv
<1>1. Init => IInv
  BY InitIInv
<1>2. IInv /\ Serial /\ [Next]_vars => IInv'
  BY IInvStep
<1>3. QED BY <1>1, <1>2, PTL DEF Spec

-----------------------------------------------------------------------------
(* With one request at a time at work on it, a running desktop always has  *)
(* the runtime directory it was started with (session.rs 356-426).         *)
THEOREM RuntimeKept == Spec /\ []Serial => []HasItsRuntime
<1>1. IInv => HasItsRuntime
  BY DEF IInv, TypeOK, UpWithRuntime, HasItsRuntime
<1>2. QED BY <1>1, IInvAlways, PTL

(* ... a session that starts or restarts finds its directories, also after *)
(* a daemon that died half way (session.rs 209-210, 370-374) ...           *)
THEOREM DirectoriesFound == Spec /\ []Serial => []FindsItsDirectories
<1>1. IInv => FindsItsDirectories
  BY DEF IInv, UpWithRuntime, FindsItsDirectories
<1>2. QED BY <1>1, IInvAlways, PTL

(* ... a desktop that is started finds nothing of a session before in its  *)
(* runtime directory (session.rs 370-373) ...                              *)
THEOREM FreshStarts == Spec /\ []Serial => StartsFresh
<1>1. IInv /\ [Next]_vars => [unit = "inactive" /\ unit' # "inactive" => ~dirty]_vars
  <2>1. SUFFICES ASSUME IInv, Next, unit = "inactive", unit' # "inactive" PROVE ~dirty
    OBVIOUS
  <2>. USE <2>1 DEF host, dir, process, systemd
  <2>2. ~Unit
    BY DEF Unit, SessionBegins, SessionFails, AutoRestart, SessionEnds, UnitStops
  <2>3. ~DaemonDies
    BY DEF DaemonDies
  <2>4. PICK t \in Thread : Carry(t)
    BY <2>2, <2>3 DEF Next, Request
  <2>5. Run(t)
    BY <2>4, CarrySteps DEF LookUpUser, AddUser, CreateHome, OwnHome, ReadStatus, LookForRuntime,
       RemoveRuntime, CreateRuntime, OwnRuntime, StopUnit, AwaitStop, LookForLeftovers,
       CleanRuntime
  <2>6. QED BY <2>5 DEF Run, Go, Answer, IInv, Holds, BuiltSoFar
<1>2. QED BY <1>1, IInvAlways, PTL DEF Spec, StartsFresh

(* What is under way has an answer to come, and it is no error.            *)
LEMMA UnderwayStep ==
    ASSUME IInv, Next, NEW t \in Thread, Underway(t)
    PROVE  reply'[t] # "error"
<1>1. /\ TypeOK
      /\ at[t] # "idle" /\ reply[t] = "none"
      /\ Places(t) /\ DownWhileBuilding(t) /\ BuiltSoFar(t) /\ DownSinceStop(t)
  BY DEF IInv, Holds, Pending, Underway, Building
<1>2. CASE Unit \/ DaemonDies
  BY <1>1, <1>2 DEF Unit, SessionBegins, SessionFails, AutoRestart, SessionEnds, UnitStops,
     DaemonDies
<1>3. ASSUME NEW u \in Thread, NEW o \in Operation, Request(u, o) PROVE reply'[t] # "error"
  BY <1>1, <1>3 DEF Request, TypeOK
<1>4. ASSUME NEW u \in Thread, u # t, Carry(u) PROVE reply'[t] # "error"
  <2>1. reply'[t] = reply[t]
    BY <1>1, <1>4, CarrySteps DEF LookUpUser, AddUser, CreateHome, OwnHome, ReadStatus,
       LookForRuntime, RemoveRuntime, CreateRuntime, OwnRuntime, Run, StopUnit, AwaitStop,
       LookForLeftovers, CleanRuntime, Stopped, Go, Answer, TypeOK
  <2>2. QED BY <1>1, <2>1
<1>5. ASSUME Carry(t) PROVE reply'[t] # "error"
  <2>. USE <1>1 DEF TypeOK, Underway, Building, Go, Answer, Stopped
  <2>1. CASE Start(t)
    BY <2>1 DEF Start, ReadStatus, LookForRuntime, RemoveRuntime, CreateRuntime, OwnRuntime,
                Run, Running, DownWhileBuilding, BuiltSoFar, DownSinceStop
  <2>2. CASE Stop(t)
    BY <2>2 DEF Stop, StopUnit, AwaitStop, LookForLeftovers, CleanRuntime, BuiltSoFar
  <2>3. CASE Provision(t)
    BY <2>3 DEF Provision, LookUpUser, AddUser, CreateHome, OwnHome, DownSinceStop, Places
  <2>4. QED BY <1>5, <2>1, <2>2, <2>3, Zenon DEF Carry
<1>6. QED BY <1>2, <1>3, <1>4, <1>5 DEF Next

(* ... a start that found the desktop down, a stop that has begun and a    *)
(* restart since then are not refused any more (session.rs 356-431) ...    *)
THEOREM UnderwayGoesOn == Spec /\ []Serial => UnderwaySucceeds
<1>1. IInv /\ [Next]_vars => [\A t \in Thread : Underway(t) => reply'[t] # "error"]_vars
  BY UnderwayStep
<1>2. QED BY <1>1, IInvAlways, PTL DEF Spec, UnderwaySucceeds

(* Every restart finds the unit still loaded when it comes to stop it.     *)
RestartsLoaded == \A t \in Thread : op[t] = "RESTART" /\ at[t] = "stop" => unit # "inactive"

(* A restart was not refused so far.                                       *)
Restarts == \A t \in Thread : op[t] = "RESTART" => reply[t] # "error"

LEMMA RestartsStep == IInv /\ Restarts /\ RestartsLoaded /\ [Next]_vars => Restarts'
<1>. SUFFICES ASSUME IInv, Restarts, RestartsLoaded, [Next]_vars PROVE Restarts'
  OBVIOUS
<1>0. TypeOK
  BY DEF IInv
<1>. USE <1>0 DEF TypeOK, Restarts
<1>1. CASE UNCHANGED vars \/ Unit \/ DaemonDies
  BY <1>1 DEF vars, Unit, SessionBegins, SessionFails, AutoRestart, SessionEnds, UnitStops,
              DaemonDies
<1>2. ASSUME NEW t \in Thread, NEW o \in Operation, Request(t, o) PROVE Restarts'
  BY <1>2 DEF Request
<1>3. ASSUME NEW t \in Thread, Carry(t) PROVE Restarts'
  <2>1. /\ op' = op /\ at[t] # "idle"
        /\ \A u \in Thread \ {t} : reply'[u] = reply[u]
    BY <1>3, CarrySteps DEF LookUpUser, AddUser, CreateHome, OwnHome, ReadStatus,
       LookForRuntime, RemoveRuntime, CreateRuntime, OwnRuntime, Run, StopUnit, AwaitStop,
       LookForLeftovers, CleanRuntime, Stopped, Go, Answer
  <2>2. ASSUME op[t] = "RESTART", at[t] = "stop" PROVE reply'[t] = reply[t]
    <3>1. unit # "inactive"
      BY <2>2 DEF RestartsLoaded
    <3>2. StopUnit(t)
      BY <1>3, <2>2, CarrySteps DEF LookUpUser, AddUser, CreateHome, OwnHome, ReadStatus,
         LookForRuntime, RemoveRuntime, CreateRuntime, OwnRuntime, Run, AwaitStop,
         LookForLeftovers, CleanRuntime, Stopped, Go, Answer
    <3>3. QED BY <3>1, <3>2 DEF StopUnit, Go
  <2>3. ASSUME op[t] = "RESTART", at[t] # "stop" PROVE reply'[t] # "error"
    <3>1. Underway(t) /\ Next
      BY <1>3, <2>1, <2>3, Zenon DEF Underway, Next
    <3>2. QED BY <3>1, UnderwayStep
  <2>4. QED BY <2>1, <2>2, <2>3
<1>4. QED BY <1>1, <1>2, <1>3 DEF Next

(* ... and a restart starts the desktop again if systemd still has the unit*)
(* loaded when the restart stops it: that --collect has unloaded it is the *)
(* only way for a restart to fail (session.rs 379, 412-431).               *)
THEOREM RestartWorks == Spec /\ []Serial /\ []RestartsLoaded => []RestartStarts
<1>1. Init => Restarts
  BY DEF Init, Restarts
<1>2. Restarts => RestartStarts
  BY DEF Restarts, RestartStarts
<1>3. QED BY <1>1, <1>2, RestartsStep, IInvAlways, PTL DEF Spec

-----------------------------------------------------------------------------
(* One way to have one request at a time: only m is asked for more than    *)
(* provisioning.                                                           *)
Manages(m) == m \in Thread /\ \A t \in Thread \ {m} : May[t] \subseteq {"PROVISION"}

OthersProvision(m) == \A t \in Thread \ {m} : op[t] = "PROVISION" /\ reply[t] # "stopped"

(* Nothing has happened since a STOP was answered.                         *)
CleanSinceStop(m) ==
    reply[m] = "stopped" => at[m] = "idle" /\ unit = "inactive" /\ runtime = "none"

LEMMA OthersStep ==
    ASSUME NEW m, Manages(m)
    PROVE  IInv /\ OthersProvision(m) /\ [Next]_vars => OthersProvision(m)'
<1>. SUFFICES ASSUME IInv, OthersProvision(m), [Next]_vars PROVE OthersProvision(m)'
  OBVIOUS
<1>. USE DEF IInv, TypeOK, OthersProvision
<1>1. CASE UNCHANGED vars \/ Unit \/ DaemonDies
  BY <1>1 DEF vars, Unit, SessionBegins, SessionFails, AutoRestart, SessionEnds, UnitStops,
              DaemonDies
<1>2. ASSUME NEW t \in Thread, NEW o \in Operation, Request(t, o) PROVE OthersProvision(m)'
  BY <1>2, RequestAssumption DEF Request, Manages
<1>3. ASSUME NEW t \in Thread, Carry(t) PROVE OthersProvision(m)'
  <2>1. op' = op /\ (t # m => op[t] = "PROVISION" /\ Places(t))
    BY <1>3, CarrySteps DEF LookUpUser, AddUser, CreateHome, OwnHome, ReadStatus,
       LookForRuntime, RemoveRuntime, CreateRuntime, OwnRuntime, Run, StopUnit, AwaitStop,
       LookForLeftovers, CleanRuntime, Stopped, Go, Answer, Holds
  <2>2. CASE Provision(t) \/ Start(t)
    BY <2>1, <2>2 DEF Provision, LookUpUser, AddUser, CreateHome, OwnHome, Start, ReadStatus,
       LookForRuntime, RemoveRuntime, CreateRuntime, OwnRuntime, Run, Go, Answer
  <2>3. CASE Stop(t)
    BY <2>1, <2>3 DEF Stop, StopUnit, AwaitStop, LookForLeftovers, CleanRuntime, Stopped, Go,
       Answer, Places
  <2>4. QED BY <1>3, <2>2, <2>3, Zenon DEF Carry
<1>4. QED BY <1>1, <1>2, <1>3 DEF Next

LEMMA CleanStep ==
    ASSUME NEW m, Manages(m)
    PROVE  IInv /\ OthersProvision(m) /\ CleanSinceStop(m) /\ [Next]_vars => CleanSinceStop(m)'
<1>. SUFFICES ASSUME IInv, OthersProvision(m), CleanSinceStop(m), [Next]_vars
              PROVE  CleanSinceStop(m)'
  OBVIOUS
<1>0. TypeOK /\ m \in Thread /\ Holds(m)
  BY DEF IInv, Manages
<1>. USE <1>0 DEF TypeOK, CleanSinceStop, Holds
<1>1. CASE UNCHANGED vars \/ Unit \/ DaemonDies
  BY <1>1 DEF vars, host, dir, process, systemd, Unit, SessionBegins, SessionFails, AutoRestart,
              SessionEnds, UnitStops, DaemonDies
<1>2. ASSUME NEW t \in Thread, NEW o \in Operation, Request(t, o) PROVE CleanSinceStop(m)'
  BY <1>2 DEF Request, dir, systemd
<1>3. ASSUME NEW t \in Thread, t # m, Carry(t) PROVE CleanSinceStop(m)'
  <2>1. op[t] = "PROVISION" /\ at[t] \in {"idle", "id", "useradd", "home", "ownhome"}
    BY <1>3 DEF OthersProvision, IInv, Places
  <2>2. Provision(t)
    BY <1>3, <2>1 DEF Carry, Start, Stop, ReadStatus, LookForRuntime, RemoveRuntime,
       CreateRuntime, OwnRuntime, Run, StopUnit, AwaitStop, LookForLeftovers, CleanRuntime,
       Building, Stopped, Go, Answer
  <2>3. QED BY <1>3, <2>2 DEF Provision, LookUpUser, AddUser, CreateHome, OwnHome, Go, Answer,
               dir, systemd
<1>4. ASSUME Carry(m) PROVE CleanSinceStop(m)'
  <2>1. at[m] # "idle" /\ reply[m] = "none"
    BY <1>4, CarrySteps DEF LookUpUser, AddUser, CreateHome, OwnHome, ReadStatus,
       LookForRuntime, RemoveRuntime, CreateRuntime, OwnRuntime, Run, StopUnit, AwaitStop,
       LookForLeftovers, CleanRuntime, Stopped, Go, Answer, Pending
  <2>2. CASE Provision(m) \/ Start(m)
    BY <2>1, <2>2 DEF Provision, LookUpUser, AddUser, CreateHome, OwnHome, Start, ReadStatus,
       LookForRuntime, RemoveRuntime, CreateRuntime, OwnRuntime, Run, Go, Answer
  <2>3. CASE Stop(m)
    BY <2>1, <2>3 DEF Stop, StopUnit, AwaitStop, LookForLeftovers, CleanRuntime, Stopped, Go,
       Answer, DownWhileBuilding, dir, systemd
  <2>4. QED BY <1>4, <2>2, <2>3, Zenon DEF Carry
<1>5. QED BY <1>1, <1>2, <1>3, <1>4 DEF Next

(* Where only one thread is asked for more than provisioning, the requests *)
(* come one at a time, and what holds under []Serial holds.                *)
THEOREM ManagerIsSerial == ASSUME NEW m, Manages(m) PROVE Spec => []Serial
<1>1. Init => IInv /\ OthersProvision(m)
  BY InitIInv DEF Init, OthersProvision
<1>2. IInv /\ OthersProvision(m) => Serial
  BY DEF OthersProvision, Serial, Busy
<1>3. IInv /\ OthersProvision(m) /\ [Next]_vars => IInv' /\ OthersProvision(m)'
  BY <1>2, IInvStep, OthersStep
<1>4. QED BY <1>1, <1>2, <1>3, PTL DEF Spec

(* There also a desktop that was stopped is down and left nothing behind,  *)
(* until the thread that stopped it starts it again (session.rs 412-426).  *)
THEOREM StopCleans == ASSUME NEW m, Manages(m) PROVE Spec => []StoppedIsClean
<1>1. Init => IInv /\ OthersProvision(m) /\ CleanSinceStop(m)
  BY InitIInv DEF Init, OthersProvision, CleanSinceStop, Manages
<1>2. IInv /\ OthersProvision(m) => Serial
  BY DEF OthersProvision, Serial, Busy
<1>3. IInv /\ OthersProvision(m) /\ CleanSinceStop(m) /\ [Next]_vars
        => IInv' /\ OthersProvision(m)' /\ CleanSinceStop(m)'
  BY <1>2, IInvStep, OthersStep, CleanStep
<1>4. IInv /\ OthersProvision(m) /\ CleanSinceStop(m) => StoppedIsClean
  BY DEF OthersProvision, CleanSinceStop, StoppedIsClean
<1>5. QED BY <1>1, <1>3, <1>4, PTL DEF Spec
=============================================================================
