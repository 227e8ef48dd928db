-------------------------- MODULE PairingStoreProofs --------------------------
(***************************************************************************)
(* Theorems of PairingStore: any threads, codes, tokens and desktops, any  *)
(* interleaving of their steps and any crashes.                            *)
(***************************************************************************)
EXTENDS PairingStore, TLAPS

(* The steps of one thread, one disjunct each.                             *)
ThreadStep(t) ==
    \/ \E c \in Code : BeginRedeem(t, c)
    \/ ReadCode(t) \/ Claim(t) \/ CheckExpiry(t) \/ Mint(t) \/ Write(t) \/ Provision(t)
    \/ \E x \in Token : BeginAuth(t, x)
    \/ ReadDigest(t) \/ ReadPlain(t) \/ Migrate(t) \/ Welcome(t) \/ HangUp(t)
    \/ \E d \in Desktop : BeginRevoke(t, d)
    \/ Scan(t) \/ Unlink(t) \/ FinishRevoke(t)
    \/ \E d \in Desktop, x \in Token : BeginRevokeDevice(t, d, x)
    \/ List(t) \/ Find(t) \/ UnlinkFound(t)

LEMMA NextSteps ==
    Next => \/ Crash \/ Tick
            \/ \E c \in Code, d \in Desktop : Create(c, d)
            \/ \E t \in Thread : ThreadStep(t)
BY Zenon DEF Next, ThreadStep, Request, Redeem, DesktopForToken, RevokeDesktopTokens, RevokeDevice

(* What a thread has in hand at each step.                                 *)
Holds(j) ==
    /\ j.at \in {"readCode", "claim", "check", "mint"} => j.code \in Code
    /\ j.at \in {"write", "provision", "readDigest", "readPlain", "migrate",
                 "admit", "serving", "list", "find", "unlinkFound"} => j.token \in Token
    /\ j.at \in {"claim", "check", "mint", "write", "migrate", "admit", "serving", "list",
                 "find", "unlinkFound", "scan", "unlink"} => j.desktop \in Desktop
    /\ j.at \in {"unlink", "unlinkFound"} => j.name \in Name

TInv == TypeOK /\ \A t \in Thread : Holds(job[t])

LEMMA IdleJob == Idle \in Job /\ Holds(Idle)
BY DEF Idle, Job, Step, Holds

LEMMA SetJob ==
    ASSUME TInv, NEW t \in Thread, NEW j \in Job, Holds(j), Become(t, j)
    PROVE  /\ job' \in [Thread -> Job]
           /\ \A u \in Thread : Holds(job'[u])
           /\ job'[t] = j
           /\ \A u \in Thread \ {t} : job'[u] = job[u]
<1>1. job' = [job EXCEPT ![t] = j] /\ job \in [Thread -> Job]
  BY DEF Become, TInv, TypeOK
<1>2. job' \in [Thread -> Job] /\ job'[t] = j /\ \A u \in Thread \ {t} : job'[u] = job[u]
  BY <1>1
<1>3. \A u \in Thread : Holds(job'[u])
  BY <1>2 DEF TInv
<1>4. QED BY <1>2, <1>3

LEMMA Works ==
    ASSUME TInv, NEW t \in Thread
    PROVE  job[t] \in Job /\ Holds(job[t])
BY DEF TInv, TypeOK

LEMMA Listings ==
    ASSUME NEW kinds \in SUBSET {"digest", "plain"}
    PROVE  RecordNames(kinds) \in SUBSET Name
BY DEF RecordNames, Name

(* A thread that goes on has the right things in hand for its next step.   *)
LEMMA WorkStep ==
    ASSUME TInv, NEW t \in Thread, ThreadStep(t)
    PROVE  \E j \in Job : Holds(j) /\ Become(t, j)
<1>. DEFINE w == job[t]
            Fits(j) == j \in Job /\ Holds(j)
<1>0. Fits(w)
  BY Works
<1>. USE NamesAssumption DEF Begin, Go, End, At
<1>1. ASSUME End(t) PROVE \E j \in Job : Holds(j) /\ Become(t, j)
  BY <1>1, IdleJob
<1>2. ASSUME NEW c \in Code, BeginRedeem(t, c) PROVE \E j \in Job : Holds(j) /\ Become(t, j)
  <2>1. Fits([Idle EXCEPT !.at = "readCode", !.code = c])
    BY DEF Idle, Job, Step, Holds
  <2>2. QED BY <1>2, <2>1 DEF BeginRedeem
<1>3. CASE ReadCode(t)
  <2>1. ASSUME w.at = "readCode", NEW d \in Desktop
        PROVE  Fits([w EXCEPT !.at = "claim", !.desktop = d])
    BY <1>0, <2>1 DEF Job, Step, Holds
  <2>2. pairings[w.code] # Nothing /\ w.at = "readCode" => pairings[w.code] \in Desktop
    BY <1>0 DEF Holds, TInv, TypeOK
  <2>3. QED BY <1>1, <1>3, <2>1, <2>2 DEF ReadCode
<1>4. CASE Claim(t) \/ CheckExpiry(t)
  <2>1. w.at = "claim" => Fits([w EXCEPT !.at = "check"])
    BY <1>0 DEF Job, Step, Holds
  <2>2. w.at = "check" => Fits([w EXCEPT !.at = "mint"])
    BY <1>0 DEF Job, Step, Holds
  <2>3. QED BY <1>1, <1>4, <2>1, <2>2 DEF Claim, CheckExpiry
<1>5. CASE Mint(t)
  <2>1. ASSUME w.at = "mint", NEW x \in Token PROVE Fits([w EXCEPT !.at = "write", !.token = x])
    BY <1>0, <2>1 DEF Job, Step, Holds
  <2>2. QED BY <1>5, <2>1 DEF Mint
<1>6. CASE Write(t)
  <2>1. w.at = "write" => Fits([w EXCEPT !.at = "provision"])
    BY <1>0 DEF Job, Step, Holds
  <2>2. QED BY <1>6, <2>1 DEF Write
<1>7. CASE Provision(t) \/ HangUp(t) \/ FinishRevoke(t) \/ UnlinkFound(t)
  BY <1>1, <1>7 DEF Provision, HangUp, FinishRevoke, UnlinkFound
<1>8. ASSUME NEW x \in Token, BeginAuth(t, x) PROVE \E j \in Job : Holds(j) /\ Become(t, j)
  <2>1. ASSUME NEW b \in BOOLEAN
        PROVE  Fits([Idle EXCEPT !.at = "readDigest", !.token = x, !.barred = b])
    BY DEF Idle, Job, Step, Holds
  <2>2. (x \in revoked) \in BOOLEAN
    OBVIOUS
  <2>3. QED BY <1>8, <2>1, <2>2 DEF BeginAuth
<1>9. CASE ReadDigest(t) \/ ReadPlain(t) \/ Migrate(t) \/ Welcome(t)
  <2>1. w.at = "readDigest" => Fits([w EXCEPT !.at = "readPlain"])
    BY <1>0 DEF Job, Step, Holds
  <2>2. ASSUME w.at \in {"readDigest", "readPlain", "migrate"},
               NEW s \in {"migrate", "admit"}, NEW d \in Desktop
        PROVE  Fits([w EXCEPT !.at = s, !.desktop = d])
    BY <1>0, <2>2 DEF Job, Step, Holds
  <2>3. /\ w.at = "readPlain" /\ plains[w.token] # Nothing => plains[w.token] \in Desktop
        /\ w.at = "migrate" => w.desktop \in Desktop
    BY <1>0 DEF Holds, TInv, TypeOK
  <2>4. CASE ReadDigest(t)
    BY <1>1, <2>1, <2>2, <2>4 DEF ReadDigest, Admit
  <2>5. CASE ReadPlain(t)
    BY <1>1, <2>2, <2>3, <2>5 DEF ReadPlain
  <2>6. CASE Migrate(t)
    BY <1>1, <2>2, <2>3, <2>6 DEF Migrate, Admit
  <2>7. CASE Welcome(t)
    <3>1. w.at = "admit" => Fits([w EXCEPT !.at = "serving"])
      BY <1>0 DEF Job, Step, Holds
    <3>2. QED BY <2>7, <3>1 DEF Welcome
  <2>8. QED BY <1>9, <2>4, <2>5, <2>6, <2>7
<1>10. ASSUME NEW d \in Desktop, BeginRevoke(t, d) PROVE \E j \in Job : Holds(j) /\ Become(t, j)
  <2>1. ASSUME NEW V \in SUBSET Token, NEW N \in SUBSET Name
        PROVE  Fits([Idle EXCEPT !.at = "scan", !.desktop = d, !.victims = V, !.todo = N])
    BY DEF Idle, Job, Step, Holds
  <2>2. QED BY <1>10, <2>1, Listings DEF BeginRevoke
<1>11. ASSUME PassOver(t), w.at \in {"scan", "list"} PROVE \E j \in Job : Holds(j) /\ Become(t, j)
  <2>1. ASSUME NEW n PROVE Fits([w EXCEPT !.todo = @ \ {n}])
    BY <1>0, <1>11 DEF Job, Step, Holds
  <2>2. QED BY <1>11, <2>1 DEF PassOver
<1>12. CASE Scan(t)
  <2>1. ASSUME w.at = "scan", NEW n \in w.todo
        PROVE  Fits([w EXCEPT !.at = "unlink", !.name = n, !.todo = @ \ {n}])
    BY <1>0, <2>1 DEF Job, Step, Holds
  <2>2. QED BY <1>1, <1>11, <1>12, <2>1 DEF Scan, Vanished
<1>13. CASE Unlink(t)
  <2>1. w.at = "unlink" => Fits([w EXCEPT !.at = "scan", !.name = Nothing])
    BY <1>0 DEF Job, Step, Holds
  <2>2. QED BY <1>1, <1>13, <2>1 DEF Unlink
<1>14. ASSUME NEW d \in Desktop, NEW x \in Token, BeginRevokeDevice(t, d, x)
       PROVE  \E j \in Job : Holds(j) /\ Become(t, j)
  <2>1. ASSUME NEW V \in SUBSET Token, NEW N \in SUBSET Name
        PROVE  Fits([Idle EXCEPT !.at = "list", !.desktop = d, !.token = x,
                                 !.victims = V, !.todo = N])
    BY DEF Idle, Job, Step, Holds
  <2>2. QED BY <1>14, <2>1, Listings DEF BeginRevokeDevice
<1>15. CASE List(t)
  <2>1. ASSUME w.at = "list", NEW n \in w.todo
        PROVE  Fits([w EXCEPT !.todo = @ \ {n}, !.found = @ \/ n[2] = w.token])
    BY ZenonT(60), <1>0, <2>1 DEF Job, Step, Holds
  <2>2. w.at = "list" => Fits([w EXCEPT !.at = "find"])
    BY <1>0 DEF Job, Step, Holds
  <2>3. QED BY <1>1, <1>11, <1>15, <2>1, <2>2 DEF List, Vanished
<1>16. CASE Find(t)
  <2>1. w.at = "find" => Fits([w EXCEPT !.at = "unlinkFound", !.name = <<"digest", w.token>>])
    BY <1>0 DEF Job, Step, Holds, Name
  <2>2. QED BY <1>1, <1>16, <2>1 DEF Find
<1>17. QED BY <1>2, <1>3, <1>4, <1>5, <1>6, <1>7, <1>8, <1>9, <1>10, <1>12, <1>13, <1>14,
              <1>15, <1>16 DEF ThreadStep

(* Every variable keeps its type.                                          *)
LEMMA TypeStep == TInv /\ [Next]_vars => TInv'
<1>. SUFFICES ASSUME TInv, [Next]_vars PROVE TInv'
  OBVIOUS
<1>. USE NamesAssumption, TimeAssumption DEF vars, codes, devices, history
<1>. DEFINE JobTyped == job \in [Thread -> Job] /\ \A u \in Thread : Holds(job[u])
<1>1. CASE UNCHANGED vars
  BY <1>1 DEF TInv, TypeOK, Holds
<1>2. CASE Crash
  BY <1>2, IdleJob DEF Crash, TInv, TypeOK
<1>3. CASE Tick
  BY <1>3 DEF Tick, TInv, TypeOK
<1>4. ASSUME NEW c \in Code, NEW d \in Desktop, Create(c, d) PROVE TInv'
  BY <1>4 DEF Create, TInv, TypeOK
<1>5. ASSUME NEW t \in Thread, ThreadStep(t) PROVE TInv'
  <2>1. JobTyped'
    BY <1>5, WorkStep, SetJob
  <2>2. Holds(job[t])
    BY Works
  <2>. USE <2>1 DEF TInv, TypeOK, At
  <2>3. ASSUME NEW c \in Code, BeginRedeem(t, c) PROVE TInv'
    BY <2>3 DEF BeginRedeem
  <2>4. CASE ReadCode(t) \/ CheckExpiry(t) \/ ReadDigest(t) \/ ReadPlain(t) \/ Welcome(t)
             \/ HangUp(t) \/ Scan(t) \/ List(t) \/ Find(t)
    BY <2>4 DEF ReadCode, CheckExpiry, ReadDigest, ReadPlain, Welcome, HangUp, Scan, List, Find
  <2>5. CASE Claim(t)
    BY <2>2, <2>5 DEF Claim, Late, Holds
  <2>6. CASE Mint(t)
    BY <2>2, <2>6 DEF Mint, Holds
  <2>7. CASE Write(t)
    BY <2>2, <2>7 DEF Write, Holds
  <2>8. CASE Provision(t)
    BY <2>2, <2>8 DEF Provision, Holds
  <2>9. ASSUME NEW x \in Token, BeginAuth(t, x) PROVE TInv'
    BY <2>9 DEF BeginAuth
  <2>10. CASE Migrate(t)
    BY <2>2, <2>10 DEF Migrate, Holds
  <2>11. ASSUME NEW d \in Desktop, BeginRevoke(t, d) PROVE TInv'
    BY <2>11 DEF BeginRevoke
  <2>12. CASE Unlink(t)
    BY <2>2, <2>12 DEF Unlink, Remove, Holds, Name
  <2>13. CASE FinishRevoke(t)
    BY <2>13 DEF FinishRevoke, Job
  <2>14. ASSUME NEW d \in Desktop, NEW x \in Token, BeginRevokeDevice(t, d, x) PROVE TInv'
    BY <2>14 DEF BeginRevokeDevice
  <2>15. CASE UnlinkFound(t)
    BY <2>2, <2>15 DEF UnlinkFound, Remove, Holds, Name, Job
  <2>16. QED BY <1>5, <2>3, <2>4, <2>5, <2>6, <2>7, <2>8, <2>9, <2>10, <2>11, <2>12, <2>13,
                <2>14, <2>15 DEF ThreadStep
<1>6. QED BY <1>1, <1>2, <1>3, <1>4, <1>5, NextSteps

LEMMA InitTyped == Init => TInv
BY IdleJob, NamesAssumption DEF Init, TypeOK, TInv

(* Every file, thread and history variable keeps its type, for any         *)
(* interleaving of redemptions, lookups, revocations and crashes           *)
(* (pairing.rs 49-223).                                                    *)
THEOREM TypeCorrect == Spec => []TypeOK
<1>1. Init => TInv
  BY InitTyped
<1>2. TInv => TypeOK
  BY DEF TInv
<1>3. QED BY <1>1, <1>2, TypeStep, PTL DEF Spec

-----------------------------------------------------------------------------
(* Codes.                                                                  *)

(* A code is in pairings/ or in pairings-used/; a code that was claimed    *)
(* late stays expired; every credential comes of a used code, one of each. *)
CodeInv ==
    /\ \A c \in Code : pairings[c] # Nothing => c \notin used
    /\ \A c \in late : c \in used /\ now > expires[c]
    /\ \A x \in Token : source[x] # Nothing => source[x] \in used
    /\ SingleUse /\ MintedInTime

Claiming(u) == job[u].at \in {"check", "mint"}

(* A thread that claimed a code is alone with it, and nothing was minted.  *)
ClaimInv ==
    \A u \in Thread : Claiming(u) =>
        /\ job[u].code \in used
        /\ \A x \in Token : source[x] # job[u].code
        /\ \A v \in Thread \ {u} : Claiming(v) => job[v].code # job[u].code
        /\ job[u].at = "mint" => job[u].code \notin late

-----------------------------------------------------------------------------
(* Records.                                                                *)

Gone(x) == digests[x] = Nothing /\ plains[x] = Nothing

(* A record holds its token's desktop, or nothing yet if nobody knows the  *)
(* token; a token has one record at most, none once it was revoked, and    *)
(* the one it was issued with until its revocation begins.                 *)
RecordInv ==
    \A x \in Token :
        /\ digests[x] \in {Nothing, "empty", owner[x]} /\ plains[x] \in {Nothing, owner[x]}
        /\ digests[x] = Nothing \/ plains[x] = Nothing
        /\ owner[x] = Nothing => Gone(x) /\ x \notin known
        /\ x \in known => digests[x] # "empty"
        /\ x \in revoked => owner[x] # Nothing /\ Gone(x)
        /\ owner[x] # Nothing => x \in Legacy \cup targeted \/ digests[x] # Nothing

Writing(u) == job[u].at \in {"write", "provision"}

(* A token that is being written was minted by its thread alone, and is    *)
(* known to nobody before its record is complete.                          *)
WriteInv ==
    \A u \in Thread : Writing(u) =>
        /\ owner[job[u].token] # Nothing
        /\ job[u].at = "write" => /\ job[u].token \notin known
                                  /\ owner[job[u].token] = job[u].desktop
                                  /\ digests[job[u].token] = "empty"
        /\ job[u].at = "provision" => digests[job[u].token] # "empty"
        /\ \A v \in Thread \ {u} : Writing(v) => job[v].token # job[u].token

(* A lookup that found no digest has to do with an old record, or with a   *)
(* token that is being revoked; the record it has read names the desktop;  *)
(* and it finds none of a token that was revoked before it began.          *)
LookupInv(u) ==
    /\ job[u].at \in {"readDigest", "readPlain", "migrate"} => job[u].token \in known
    /\ job[u].at \in {"readPlain", "migrate"} => job[u].token \in targeted \cup Legacy
    /\ job[u].at \in {"migrate", "admit"} => job[u].desktop = owner[job[u].token]
    /\ job[u].at \in {"readDigest", "readPlain", "migrate"} /\ job[u].barred
          => job[u].token \in revoked
    /\ job[u].at = "admit" => ~job[u].barred

Pending(u) == job[u].todo \cup (IF job[u].at = "unlink" THEN {job[u].name} ELSE {})

(* A scan has a record of every device it is to revoke still before it, or *)
(* the device is gone; the desktop's own records are of targeted tokens.   *)
ScanInv(u) ==
    job[u].at \in {"scan", "unlink"} =>
        /\ \A n \in Pending(u) : /\ owner[n[2]] # Nothing
                                 /\ owner[n[2]] = job[u].desktop => n[2] \in targeted
        /\ job[u].at = "unlink" => /\ owner[job[u].name[2]] = job[u].desktop
                                   /\ digests[job[u].name[2]] # "empty"
        /\ \A x \in job[u].victims :
              /\ owner[x] # Nothing /\ digests[x] # "empty"
              /\ \/ Gone(x)
                 \/ owner[x] = job[u].desktop /\ \E kind \in {"digest", "plain"} :
                                                    <<kind, x>> \in Pending(u)

(* The same for the revocation of one device.                              *)
DeviceInv(u) ==
    job[u].at \in {"list", "find", "unlinkFound"} =>
        /\ owner[job[u].token] # Nothing
        /\ owner[job[u].token] = job[u].desktop => job[u].token \in targeted
        /\ job[u].victims \subseteq {job[u].token}
        /\ job[u].at = "unlinkFound" => /\ job[u].name = <<"digest", job[u].token>>
                                        /\ owner[job[u].token] = job[u].desktop
                                        /\ digests[job[u].token] # "empty"

JobInv(u) == LookupInv(u) /\ ScanInv(u) /\ DeviceInv(u)

IInv == TInv /\ CodeInv /\ ClaimInv /\ RecordInv /\ WriteInv /\ \A u \in Thread : JobInv(u)

-----------------------------------------------------------------------------
(* A thread's step leaves the other threads' work alone.                   *)
LEMMA OthersWork ==
    ASSUME TInv, NEW t \in Thread, ThreadStep(t)
    PROVE  \A u \in Thread \ {t} : job'[u] = job[u]
BY WorkStep, SetJob

(* Where a thread is after Become.                                         *)
LEMMA Became ==
    ASSUME TInv, NEW t \in Thread, NEW j, Become(t, j)
    PROVE  job'[t] = j
BY DEF TInv, TypeOK, Become

(* Where a thread is that goes on with a desktop it has read.              *)
LEMMA GoesWith ==
    ASSUME TInv, NEW t \in Thread, NEW s, NEW d,
           Become(t, [job[t] EXCEPT !.at = s, !.desktop = d])
    PROVE  job'[t].at = s
<1>1. job'[t] = [job[t] EXCEPT !.at = s, !.desktop = d]
  BY Became
<1>2. job[t] \in Job
  BY Works
<1>3. QED BY <1>1, <1>2 DEF Job

LEMMA Admitted ==
    ASSUME TInv, NEW t \in Thread, NEW d, Admit(t, d)
    PROVE  /\ job'[t].at = "admit" /\ job'[t].desktop = d
           /\ job'[t].token = job[t].token /\ job'[t].barred = job[t].barred
<1>1. job'[t] = [job[t] EXCEPT !.at = "admit", !.desktop = d]
  BY Became DEF Admit
<1>2. job[t] \in Job
  BY Works
<1>3. QED BY <1>1, <1>2 DEF Job

LEMMA Looked ==
    ASSUME TInv, NEW t \in Thread,
           ReadDigest(t) \/ ReadPlain(t) \/ Migrate(t) \/ Welcome(t) \/ HangUp(t)
    PROVE  job'[t].at \in {"idle", "admit", "serving", "readPlain", "migrate"}
<1>. USE DEF Go
<1>1. job[t] \in Job
  BY Works
<1>2. ASSUME End(t) PROVE job'[t].at = "idle"
  BY <1>2, Became DEF End, Idle
<1>3. \A s \in {"readPlain", "serving"} : Go(t, s) => job'[t].at = s
  BY <1>1, Became DEF Job
<1>4. ASSUME NEW d, Become(t, [job[t] EXCEPT !.at = "migrate", !.desktop = d])
      PROVE  job'[t].at = "migrate"
  <2>1. job'[t] = [job[t] EXCEPT !.at = "migrate", !.desktop = d]
    BY <1>4, Became
  <2>2. QED BY <1>1, <2>1 DEF Job
<1>5. QED BY <1>2, <1>3, <1>4, Admitted DEF ReadDigest, ReadPlain, Migrate, Welcome, HangUp

(* A step that neither claims a code nor mints for one.                    *)
Quiet(t) == job'[t].at \notin {"check", "mint"} /\ UNCHANGED <<now, codes, source, late>>

LEMMA QuietSteps ==
    ASSUME TInv, NEW t \in Thread, ThreadStep(t)
    PROVE  Claim(t) \/ CheckExpiry(t) \/ Mint(t) \/ Quiet(t)
<1>. USE Works DEF Quiet, codes, devices, history, At, Begin, Go, End, Job, Idle
<1>0. ASSUME End(t) PROVE job'[t].at = "idle"
  BY <1>0, Became
<1>1. ASSUME NEW c \in Code, BeginRedeem(t, c) PROVE Quiet(t)
  BY ZenonT(60), <1>1, Became DEF BeginRedeem
<1>2. CASE ReadCode(t)
  BY ZenonT(60), <1>0, <1>2, Became DEF ReadCode
<1>3. CASE Write(t) \/ Provision(t)
  BY <1>0, <1>3, Became DEF Write, Provision
<1>4. ASSUME NEW x \in Token, BeginAuth(t, x) PROVE Quiet(t)
  BY ZenonT(60), <1>4, Became DEF BeginAuth
<1>5. CASE ReadDigest(t) \/ ReadPlain(t)
  BY <1>5, Looked DEF ReadDigest, ReadPlain
<1>6. CASE Migrate(t) \/ Welcome(t) \/ HangUp(t)
  BY <1>6, Looked DEF Migrate, Welcome, HangUp
<1>7. ASSUME NEW d \in Desktop, BeginRevoke(t, d) PROVE Quiet(t)
  BY ZenonT(60), <1>7, Became DEF BeginRevoke
<1>8. ASSUME PassOver(t), job[t].at \in {"scan", "list"} PROVE job'[t].at \in {"scan", "list"}
  BY <1>8, Became DEF PassOver
<1>9. CASE Scan(t)
  BY ZenonT(60), <1>0, <1>8, <1>9, Became DEF Scan, Vanished
<1>10. CASE Unlink(t) \/ FinishRevoke(t) \/ UnlinkFound(t)
  BY ZenonT(60), <1>0, <1>10, Became DEF Unlink, FinishRevoke, UnlinkFound
<1>11. ASSUME NEW d \in Desktop, NEW x \in Token, BeginRevokeDevice(t, d, x) PROVE Quiet(t)
  <2>1. PICK V, N : Become(t, [Idle EXCEPT !.at = "list", !.desktop = d, !.token = x,
                                           !.victims = V, !.todo = N])
    BY <1>11 DEF BeginRevokeDevice
  <2>2. job'[t].at = "list"
    BY <2>1, Became
  <2>3. QED BY <1>11, <2>2 DEF BeginRevokeDevice
<1>12. CASE List(t)
  <2>1. ASSUME NEW n, Become(t, [job[t] EXCEPT !.todo = @ \ {n},
                                               !.found = @ \/ n[2] = job[t].token])
        PROVE  job'[t].at = job[t].at
    BY <2>1, Became
  <2>2. Go(t, "find") => job'[t].at = "find"
    BY Became
  <2>3. job'[t].at \in {"idle", "scan", "list", "find"}
    BY <1>0, <1>8, <1>12, <2>1, <2>2 DEF List, Vanished
  <2>4. QED BY <1>12, <2>3 DEF List
<1>13. CASE Find(t)
  BY ZenonT(60), <1>0, <1>13, Became DEF Find
<1>14. QED BY <1>1, <1>2, <1>3, <1>4, <1>5, <1>6, <1>7, <1>9, <1>10, <1>11, <1>12, <1>13
           DEF ThreadStep

(* Codes stay used, claimed by one thread and minted for once.             *)
LEMMA CodeStep ==
    TInv /\ CodeInv /\ ClaimInv /\ [Next]_vars => CodeInv' /\ ClaimInv'
<1>. SUFFICES ASSUME TInv, CodeInv, ClaimInv, [Next]_vars PROVE CodeInv' /\ ClaimInv'
  OBVIOUS
<1>. USE NamesAssumption, TimeAssumption
         DEF CodeInv, ClaimInv, Claiming, SingleUse, MintedInTime, codes, devices, history
<1>0. TInv'
  BY TypeStep
<1>1. CASE UNCHANGED vars
  BY <1>1 DEF vars
<1>2. CASE Crash
  BY <1>2 DEF Crash, Idle
<1>3. CASE Tick
  BY <1>3 DEF Tick, TInv, TypeOK
<1>4. ASSUME NEW c \in Code, NEW d \in Desktop, Create(c, d) PROVE CodeInv' /\ ClaimInv'
  BY <1>4 DEF Create, TInv, TypeOK
<1>5. ASSUME NEW t \in Thread, ThreadStep(t) PROVE CodeInv' /\ ClaimInv'
  <2>1. \A u \in Thread \ {t} : job'[u] = job[u]
    BY <1>5, OthersWork
  <2>2. job[t] \in Job /\ Holds(job[t])
    BY Works
  <2>3. CASE Quiet(t)
    BY <2>1, <2>3 DEF Quiet
  <2>4. CASE Claim(t)
    <3>1. CASE pairings[job[t].code] = Nothing
      <4>1. job'[t] = Idle
        BY <2>4, <3>1, Became DEF Claim, End
      <4>2. QED BY <2>1, <2>4, <3>1, <4>1 DEF Claim, Idle
    <3>2. CASE pairings[job[t].code] # Nothing
      <4>1. job'[t].at = "check" /\ job'[t].code = job[t].code
        BY <2>2, <2>4, <3>2, Became DEF Claim, Go, Job
      <4>2. job[t].code \in Code /\ job[t].code \notin used
        BY <2>2, <2>4, <3>2 DEF Claim, At, Holds
      <4>3. /\ used' = used \cup {job[t].code} /\ late' = late \cup Late(job[t].code)
            /\ pairings' = [pairings EXCEPT ![job[t].code] = Nothing]
            /\ UNCHANGED <<now, expires, source>>
        BY <2>4, <3>2 DEF Claim
      <4>4. CodeInv'
        BY <4>2, <4>3 DEF Late, TInv, TypeOK
      <4>5. ClaimInv'
        BY <2>1, <4>1, <4>2, <4>3 DEF Late
      <4>6. QED BY <4>4, <4>5
    <3>3. QED BY <3>1, <3>2
  <2>5. CASE CheckExpiry(t)
    <3>1. job'[t] = Idle \/ (job'[t].at = "mint" /\ job'[t].code = job[t].code
                                /\ ~(now > expires[job[t].code]))
      BY <2>2, <2>5, Became DEF CheckExpiry, Go, End, Job
    <3>2. job[t].at = "check" /\ UNCHANGED <<now, pairings, expires, used, source, late>>
      BY <2>5 DEF CheckExpiry, At
    <3>3. QED BY <2>1, <3>1, <3>2 DEF Idle
  <2>6. CASE Mint(t)
    <3>1. PICK x \in Token : /\ source' = [source EXCEPT ![x] = job[t].code]
                             /\ Become(t, [job[t] EXCEPT !.at = "write", !.token = x])
      BY <2>6 DEF Mint
    <3>2. job[t].at = "mint" /\ job'[t].at = "write"
      <4>1. job'[t] = [job[t] EXCEPT !.at = "write", !.token = x]
        BY <3>1, Became
      <4>2. QED BY <2>2, <2>6, <4>1 DEF Mint, At, Job
    <3>3. UNCHANGED <<now, pairings, expires, used, late>>
      BY <2>6 DEF Mint
    <3>4. \A y \in Token : source'[y] = IF y = x THEN job[t].code ELSE source[y]
      BY <3>1 DEF TInv, TypeOK
    <3>5. /\ job[t].code \in used /\ job[t].code \notin late
          /\ \A y \in Token : source[y] # job[t].code
          /\ \A v \in Thread \ {t} : Claiming(v) => job[v].code # job[t].code
      BY <3>2
    <3>6. CodeInv'
      BY <3>3, <3>4, <3>5
    <3>7. ClaimInv'
      BY <2>1, <3>2, <3>3, <3>4, <3>5
    <3>8. QED BY <3>6, <3>7
  <2>7. QED BY <1>5, <2>3, <2>4, <2>5, <2>6, QuietSteps
<1>6. QED BY <1>1, <1>2, <1>3, <1>4, <1>5, NextSteps

LEMMA InitCodes == Init => CodeInv /\ ClaimInv
<1>. SUFFICES ASSUME Init PROVE CodeInv /\ ClaimInv
  OBVIOUS
<1>1. CodeInv
  BY DEF Init, CodeInv, SingleUse, MintedInTime
<1>2. ClaimInv
  BY DEF Init, ClaimInv, Claiming, Idle
<1>3. QED BY <1>1, <1>2

(* A pairing code yields one credential at most, however its redemptions   *)
(* interleave and wherever the daemon dies (pairing.rs 69-106).            *)
THEOREM CodesOnce == Spec => []SingleUse
<1>1. Init => TInv /\ CodeInv /\ ClaimInv
  BY InitTyped, InitCodes
<1>2. CodeInv => SingleUse
  BY DEF CodeInv
<1>3. QED BY <1>1, <1>2, TypeStep, CodeStep, PTL DEF Spec

(* A code claimed after its five minutes yields none (pairing.rs 84-97).   *)
THEOREM CodesInTime == Spec => []MintedInTime
<1>1. Init => TInv /\ CodeInv /\ ClaimInv
  BY InitTyped, InitCodes
<1>2. CodeInv => MintedInTime
  BY DEF CodeInv
<1>3. QED BY <1>1, <1>2, TypeStep, CodeStep, PTL DEF Spec

-----------------------------------------------------------------------------
(* What no step undoes: a token's owner, the knowledge, targeting and      *)
(* revocation of a token, that it is gone, and that a record is complete.  *)
Monotone ==
    /\ \A x \in Token : owner[x] # Nothing => owner'[x] = owner[x]
    /\ known \subseteq known' /\ targeted \subseteq targeted' /\ revoked \subseteq revoked'
    /\ \A x \in Token : owner[x] # Nothing /\ Gone(x) => Gone(x)'
    /\ \A x \in Token : owner[x] # Nothing /\ digests[x] # "empty" => digests'[x] # "empty"

(* Steps that look at records, or at none.                                 *)
Looks(t) == /\ UNCHANGED <<devices, known, owner, revoked>> /\ targeted \subseteq targeted'
            /\ job'[t].at \notin {"write", "provision"}

LEMMA LookSteps ==
    ASSUME TInv, NEW t \in Thread, ThreadStep(t)
    PROVE  \/ Looks(t) \/ Mint(t) \/ Write(t) \/ Provision(t) \/ Migrate(t)
           \/ Unlink(t) \/ FinishRevoke(t) \/ UnlinkFound(t)
<1>. USE Works DEF Looks, codes, devices, history, At, Begin, Go, End, Job, Idle
<1>0. ASSUME End(t) PROVE job'[t].at = "idle"
  BY <1>0, Became
<1>1. ASSUME NEW c \in Code, BeginRedeem(t, c) PROVE Looks(t)
  BY ZenonT(60), <1>1, Became DEF BeginRedeem
<1>2. CASE ReadCode(t) \/ Claim(t) \/ CheckExpiry(t)
  BY ZenonT(60), <1>0, <1>2, Became DEF ReadCode, Claim, CheckExpiry
<1>3. ASSUME NEW x \in Token, BeginAuth(t, x) PROVE Looks(t)
  BY ZenonT(60), <1>3, Became DEF BeginAuth
<1>4. CASE ReadDigest(t) \/ ReadPlain(t) \/ Welcome(t) \/ HangUp(t)
  BY <1>4, Looked DEF ReadDigest, ReadPlain, Welcome, HangUp
<1>5. ASSUME NEW d \in Desktop, BeginRevoke(t, d) PROVE Looks(t)
  BY ZenonT(60), <1>5, Became DEF BeginRevoke
<1>6. ASSUME PassOver(t), job[t].at \in {"scan", "list"} PROVE job'[t].at \in {"scan", "list"}
  BY <1>6, Became DEF PassOver
<1>7. CASE Scan(t)
  BY ZenonT(60), <1>0, <1>6, <1>7, Became DEF Scan, Vanished
<1>8. ASSUME NEW d \in Desktop, NEW x \in Token, BeginRevokeDevice(t, d, x) PROVE Looks(t)
  <2>1. PICK V, N : Become(t, [Idle EXCEPT !.at = "list", !.desktop = d, !.token = x,
                                           !.victims = V, !.todo = N])
    BY <1>8 DEF BeginRevokeDevice
  <2>2. job'[t].at = "list"
    BY <2>1, Became
  <2>3. QED BY <1>8, <2>2 DEF BeginRevokeDevice
<1>9. CASE List(t)
  <2>1. ASSUME NEW n, Become(t, [job[t] EXCEPT !.todo = @ \ {n},
                                               !.found = @ \/ n[2] = job[t].token])
        PROVE  job'[t].at = job[t].at
    BY <2>1, Became
  <2>2. Go(t, "find") => job'[t].at = "find"
    BY Became
  <2>3. job'[t].at \in {"idle", "scan", "list", "find"}
    BY <1>0, <1>6, <1>9, <2>1, <2>2 DEF List, Vanished
  <2>4. QED BY <1>9, <2>3 DEF List
<1>10. CASE Find(t)
  BY ZenonT(60), <1>0, <1>10, Became DEF Find
<1>11. QED BY <1>1, <1>2, <1>3, <1>4, <1>5, <1>7, <1>8, <1>9, <1>10 DEF ThreadStep

LEMMA MonotoneSteps == IInv /\ [Next]_vars => Monotone
<1>. SUFFICES ASSUME IInv, [Next]_vars PROVE Monotone
  OBVIOUS
<1>. USE NamesAssumption DEF Monotone, Gone, codes, devices, history
<1>0. TypeOK /\ RecordInv /\ WriteInv
  BY DEF IInv, TInv
<1>1. CASE UNCHANGED vars
  BY <1>1 DEF vars
<1>2. CASE Crash \/ Tick
  BY <1>2 DEF Crash, Tick
<1>3. ASSUME NEW c \in Code, NEW d \in Desktop, Create(c, d) PROVE Monotone
  BY <1>3 DEF Create
<1>4. ASSUME NEW t \in Thread, ThreadStep(t) PROVE Monotone
  <2>1. Holds(job[t])
    BY Works DEF IInv
  <2>2. CASE Looks(t)
    BY <2>2 DEF Looks
  <2>3. CASE Mint(t)
    BY <1>0, <2>3 DEF Mint, TypeOK, RecordInv
  <2>4. CASE Write(t)
    <3>1. /\ job[t].token \in Token /\ digests[job[t].token] = "empty"
          /\ job[t].desktop \in Desktop
      BY <1>0, <2>1, <2>4 DEF Write, At, Holds, WriteInv, Writing
    <3>2. QED BY <1>0, <2>4, <3>1 DEF Write, TypeOK
  <2>5. CASE Provision(t)
    BY <1>0, <2>5 DEF Provision
  <2>6. CASE Migrate(t)
    <3>1. job[t].token \in Token
      BY <2>1, <2>6 DEF Migrate, At, Holds
    <3>2. QED BY <1>0, <2>6, <3>1 DEF Migrate, TypeOK
  <2>7. CASE Unlink(t) \/ UnlinkFound(t)
    BY <1>0, <2>7 DEF Unlink, UnlinkFound, Remove, TypeOK
  <2>8. CASE FinishRevoke(t)
    BY <2>8 DEF FinishRevoke
  <2>9. TInv
    BY DEF IInv
  <2>10. QED BY <1>4, <2>2, <2>3, <2>4, <2>5, <2>6, <2>7, <2>8, <2>9, LookSteps
<1>5. QED BY <1>1, <1>2, <1>3, <1>4, NextSteps

(* What an existing record says: if it is complete, its token's owner.     *)
LEMMA RecordOf ==
    ASSUME IInv, NEW n \in Name, Contents(n) # Nothing
    PROVE  /\ n[2] \in Token /\ owner[n[2]] # Nothing
           /\ Contents(n) \in {"empty", owner[n[2]]}
           /\ digests[n[2]] # "empty" => Contents(n) = owner[n[2]]
           /\ n = <<"digest", n[2]>> \/ n = <<"plain", n[2]>>
BY NamesAssumption DEF IInv, TInv, TypeOK, RecordInv, Gone, Contents, Name

(* Removing one record leaves no other record of its token.                *)
LEMMA Removal ==
    ASSUME IInv, NEW n \in Name, Remove(n)
    PROVE  /\ \A x \in Token \ {n[2]} : digests'[x] = digests[x] /\ plains'[x] = plains[x]
           /\ digests'[n[2]] \in {Nothing, digests[n[2]]}
           /\ plains'[n[2]] \in {Nothing, plains[n[2]]}
           /\ Contents(n) # Nothing => Gone(n[2])'
BY NamesAssumption DEF IInv, TInv, TypeOK, RecordInv, Gone, Contents, Name, Remove

LEMMA RecordStep == IInv /\ [Next]_vars => RecordInv'
<1>. SUFFICES ASSUME IInv, [Next]_vars PROVE RecordInv'
  OBVIOUS
<1>. USE NamesAssumption DEF RecordInv, Gone, codes, devices, history
<1>0. /\ TInv /\ TypeOK /\ RecordInv /\ WriteInv
      /\ \A u \in Thread : LookupInv(u) /\ ScanInv(u) /\ DeviceInv(u)
  BY DEF IInv, TInv, JobInv
<1>1. CASE UNCHANGED vars
  BY <1>0, <1>1 DEF vars
<1>2. CASE Crash \/ Tick
  BY <1>0, <1>2 DEF Crash, Tick
<1>3. ASSUME NEW c \in Code, NEW d \in Desktop, Create(c, d) PROVE RecordInv'
  BY <1>0, <1>3 DEF Create
<1>4. ASSUME NEW t \in Thread, ThreadStep(t) PROVE RecordInv'
  <2>1. job[t] \in Job /\ Holds(job[t])
    BY <1>0, Works
  <2>2. CASE Looks(t)
    BY <1>0, <2>2 DEF Looks
  <2>3. CASE Mint(t)
    <3>1. job[t].desktop \in Desktop
      BY <2>1, <2>3 DEF Mint, At, Holds
    <3>2. QED BY <1>0, <2>3, <3>1 DEF Mint, TypeOK
  <2>4. CASE Write(t)
    <3>1. /\ job[t].token \in Token /\ job[t].token \notin known
          /\ owner[job[t].token] = job[t].desktop /\ digests[job[t].token] = "empty"
          /\ job[t].desktop \in Desktop
      BY <1>0, <2>1, <2>4 DEF Write, At, Holds, WriteInv, Writing
    <3>2. QED BY <1>0, <2>4, <3>1 DEF Write, TypeOK
  <2>5. CASE Provision(t)
    <3>1. /\ job[t].token \in Token
          /\ owner[job[t].token] # Nothing /\ digests[job[t].token] # "empty"
      BY <1>0, <2>1, <2>5 DEF Provision, At, Holds, WriteInv, Writing
    <3>2. QED BY <1>0, <2>5, <3>1 DEF Provision, TypeOK
  <2>6. CASE Migrate(t)
    <3>1. job[t].token \in Token
      BY <2>1, <2>6 DEF Migrate, At, Holds
    <3>2. QED BY <1>0, <2>6, <3>1 DEF Migrate, TypeOK
  <2>7. CASE Unlink(t)
    <3>1. job[t].name \in Name /\ job[t].name[2] \in targeted
      BY <1>0, <2>1, <2>7 DEF Unlink, At, Holds, ScanInv, Pending
    <3>2. QED BY <1>0, <2>7, <3>1, Removal DEF Unlink, TypeOK
  <2>8. CASE FinishRevoke(t)
    <3>1. job[t].victims \subseteq Token
      BY <2>1 DEF Job
    <3>2. \A x \in job[t].victims : owner[x] # Nothing /\ Gone(x)
      BY <1>0, <2>8 DEF FinishRevoke, At, ScanInv, Pending
    <3>3. QED BY <1>0, <2>8, <3>1, <3>2 DEF FinishRevoke
  <2>9. CASE UnlinkFound(t)
    <3>1. /\ job[t].name \in Name /\ job[t].name = <<"digest", job[t].token>>
          /\ job[t].token \in Token /\ job[t].token \in targeted
          /\ job[t].victims \subseteq {job[t].token} /\ owner[job[t].token] # Nothing
      BY <1>0, <2>1, <2>9 DEF UnlinkFound, At, Holds, DeviceInv
    <3>2. \A x \in revoked' : x \in revoked \/ (x = job[t].token /\ Gone(x)')
      BY <2>9, <3>1, Removal DEF UnlinkFound
    <3>3. UNCHANGED <<known, owner, targeted>> /\ Remove(job[t].name)
      BY <2>9 DEF UnlinkFound
    <3>4. QED BY <1>0, <3>1, <3>2, <3>3, Removal DEF TypeOK
  <2>10. QED BY <1>0, <1>4, <2>2, <2>3, <2>4, <2>5, <2>6, <2>7, <2>8, <2>9, LookSteps
<1>5. QED BY <1>0, <1>1, <1>2, <1>3, <1>4, NextSteps

LEMMA WriteStep == IInv /\ [Next]_vars => WriteInv'
<1>. SUFFICES ASSUME IInv, [Next]_vars PROVE WriteInv'
  OBVIOUS
<1>. USE NamesAssumption DEF WriteInv, Writing, Gone, codes, devices, history
<1>0. TInv /\ TypeOK /\ RecordInv /\ WriteInv /\ Monotone
  BY MonotoneSteps DEF IInv, TInv
<1>1. CASE UNCHANGED vars
  BY <1>0, <1>1 DEF vars
<1>2. CASE Crash
  BY <1>2 DEF Crash, Idle
<1>3. CASE Tick
  BY <1>0, <1>3 DEF Tick
<1>4. ASSUME NEW c \in Code, NEW d \in Desktop, Create(c, d) PROVE WriteInv'
  BY <1>0, <1>4 DEF Create
<1>5. ASSUME NEW t \in Thread, ThreadStep(t) PROVE WriteInv'
  <2>1. job[t] \in Job /\ Holds(job[t]) /\ \A u \in Thread : Holds(job[u])
    BY <1>0, Works DEF TInv
  <2>2. \A u \in Thread \ {t} : job'[u] = job[u]
    BY <1>0, <1>5, OthersWork
  <2>3. CASE Looks(t)
    BY <1>0, <2>2, <2>3 DEF Looks
  <2>4. CASE Mint(t)
    <3>1. PICK x \in Token : /\ owner[x] = Nothing
                             /\ owner' = [owner EXCEPT ![x] = job[t].desktop]
                             /\ digests' = [digests EXCEPT ![x] = "empty"]
                             /\ Become(t, [job[t] EXCEPT !.at = "write", !.token = x])
      BY <2>4 DEF Mint
    <3>2. job'[t] = [job[t] EXCEPT !.at = "write", !.token = x]
      BY <1>0, <3>1, Became
    <3>3. job'[t].at = "write" /\ job'[t].token = x /\ job'[t].desktop = job[t].desktop
      BY <2>1, <3>2 DEF Job
    <3>4. job[t].desktop \in Desktop /\ known' = known /\ x \notin known
      BY <1>0, <2>1, <2>4, <3>1 DEF Mint, At, Holds, RecordInv
    <3>5. \A u \in Thread \ {t} : Writing(u) => job[u].token \in Token /\ job[u].token # x
      BY <1>0, <2>1, <3>1 DEF Holds
    <3>6. QED BY <1>0, <2>2, <3>1, <3>3, <3>4, <3>5 DEF TypeOK
  <2>5. CASE Write(t)
    <3>1. /\ job[t].at = "write" /\ job[t].token \in Token /\ job[t].desktop \in Desktop
          /\ digests' = [digests EXCEPT ![job[t].token] = job[t].desktop]
          /\ UNCHANGED <<known, owner>>
      BY <2>1, <2>5 DEF Write, At, Holds
    <3>2. job'[t].at = "provision" /\ job'[t].token = job[t].token
      BY <1>0, <2>1, <2>5, Became DEF Write, Go, Job
    <3>3. \A u \in Thread \ {t} : Writing(u) => /\ job[u].token \in Token
                                                /\ job[u].token # job[t].token
      BY <1>0, <2>1, <3>1 DEF Holds
    <3>4. QED BY <1>0, <2>2, <3>1, <3>2, <3>3 DEF TypeOK
  <2>6. CASE Provision(t)
    <3>1. job[t].at = "provision" /\ job'[t].at = "idle"
      BY <1>0, <2>6, Became DEF Provision, At, End, Idle
    <3>2. known' \subseteq known \cup {job[t].token} /\ UNCHANGED <<owner, digests>>
      BY <2>6 DEF Provision
    <3>3. QED BY <1>0, <2>2, <3>1, <3>2
  <2>7. CASE Migrate(t)
    <3>1. /\ job[t].token \in Token /\ ~Writing(t)'
          /\ UNCHANGED <<known, owner>>
      BY <1>0, <2>1, <2>7, Looked DEF Migrate, At, Holds
    <3>2. \A u \in Thread \ {t} : job[u].at = "write" =>
                /\ job[u].token \in Token
                /\ digests'[job[u].token] = digests[job[u].token]
      BY <1>0, <2>1, <2>7, <3>1 DEF Migrate, RecordInv, TypeOK, Holds
    <3>3. \A u \in Thread : Writing(u) => job[u].token \in Token
      BY <2>1 DEF Holds
    <3>4. QED BY <1>0, <2>2, <3>1, <3>2, <3>3 DEF Monotone
  <2>8. CASE Unlink(t) \/ UnlinkFound(t)
    <3>1. /\ job[t].name \in Name /\ digests[job[t].name[2]] # "empty"
          /\ Remove(job[t].name) /\ UNCHANGED <<known, owner>>
      BY <2>1, <2>8 DEF Unlink, UnlinkFound, At, Holds, IInv, JobInv, ScanInv, DeviceInv
    <3>2. job'[t].at \in {"idle", "scan"}
      <4>1. \/ job'[t] = Idle
            \/ job'[t] = [job[t] EXCEPT !.at = "scan", !.name = Nothing]
        BY <1>0, <2>8, Became DEF Unlink, UnlinkFound, End
      <4>2. job'[t] = Idle => job'[t].at = "idle"
        BY DEF Idle
      <4>3. [job[t] EXCEPT !.at = "scan", !.name = Nothing].at = "scan"
        BY <2>1 DEF Job
      <4>4. QED BY <4>1, <4>2, <4>3
    <3>3. \A u \in Thread \ {t} : job[u].at = "write" =>
                /\ job[u].token \in Token
                /\ digests'[job[u].token] = digests[job[u].token]
      BY <1>0, <2>1, <3>1, Removal DEF Holds
    <3>4. \A u \in Thread : Writing(u) => job[u].token \in Token
      BY <2>1 DEF Holds
    <3>5. QED BY <1>0, <2>2, <3>1, <3>2, <3>3, <3>4 DEF Monotone
  <2>9. CASE FinishRevoke(t)
    <3>1. job'[t].at = "idle"
      BY <1>0, <2>9, Became DEF FinishRevoke, End, Idle
    <3>2. QED BY <1>0, <2>2, <2>9, <3>1 DEF FinishRevoke
  <2>10. QED BY <1>0, <1>5, <2>3, <2>4, <2>5, <2>6, <2>7, <2>8, <2>9, LookSteps
<1>6. QED BY <1>0, <1>1, <1>2, <1>3, <1>4, <1>5, NextSteps

(* What a thread has learnt stays true while others step.                  *)
LEMMA JobFrame ==
    ASSUME IInv, Monotone, NEW u \in Thread, job'[u] = job[u]
    PROVE  JobInv(u)'
<1>1. job[u] \in Job /\ Holds(job[u]) /\ RecordInv /\ LookupInv(u) /\ ScanInv(u) /\ DeviceInv(u)
  BY Works DEF IInv, JobInv
<1>2. \A n \in Pending(u) : n[2] \in Token
  BY <1>1 DEF Pending, Job, Holds, Name
<1>3. LookupInv(u)'
  <2>1. job[u].at \in {"migrate", "admit"}
          => job[u].token \in Token /\ owner[job[u].token] # Nothing
    BY <1>1, NamesAssumption DEF LookupInv, RecordInv, Holds
  <2>2. QED BY <1>1, <2>1 DEF LookupInv, Monotone
<1>4. ScanInv(u)'
  <2>1. Pending(u)' = Pending(u)
    BY DEF Pending
  <2>2. SUFFICES ASSUME job[u].at \in {"scan", "unlink"} PROVE ScanInv(u)'
    BY DEF ScanInv
  <2>3. \A n \in Pending(u) : /\ owner'[n[2]] # Nothing
                              /\ owner'[n[2]] = job[u].desktop => n[2] \in targeted'
    BY <1>1, <1>2, <2>2 DEF ScanInv, Monotone
  <2>4. job[u].at = "unlink" => /\ owner'[job[u].name[2]] = job[u].desktop
                                /\ digests'[job[u].name[2]] # "empty"
    BY <1>1, <1>2, <2>2 DEF ScanInv, Monotone, Pending
  <2>5. ASSUME NEW x \in job[u].victims
        PROVE  /\ owner'[x] # Nothing /\ digests'[x] # "empty"
               /\ \/ Gone(x)'
                  \/ owner'[x] = job[u].desktop /\ \E kind \in {"digest", "plain"} :
                                                        <<kind, x>> \in Pending(u)
    <3>1. x \in Token /\ owner[x] # Nothing /\ digests[x] # "empty"
      BY <1>1, <2>2, <2>5 DEF ScanInv, Job
    <3>2. owner'[x] = owner[x] /\ digests'[x] # "empty" /\ (Gone(x) => Gone(x)')
      BY <3>1 DEF Monotone
    <3>3. QED BY <1>1, <2>2, <2>5, <3>2 DEF ScanInv
  <2>6. QED BY <2>1, <2>2, <2>3, <2>4, <2>5 DEF ScanInv
<1>5. DeviceInv(u)'
  BY <1>1 DEF DeviceInv, Monotone, Holds
<1>6. QED BY <1>3, <1>4, <1>5 DEF JobInv

LEMMA Went ==
    ASSUME TInv, NEW t \in Thread, NEW s, Go(t, s)
    PROVE  /\ job'[t].at = s
           /\ job'[t].token = job[t].token /\ job'[t].desktop = job[t].desktop
           /\ job'[t].todo = job[t].todo /\ job'[t].victims = job[t].victims
<1>1. job'[t] = [job[t] EXCEPT !.at = s]
  BY Became DEF Go
<1>2. job[t] \in Job
  BY Works
<1>3. QED BY <1>1, <1>2 DEF Job

(* What a thread relies on after a step of its own.                        *)
LEMMA JobStep ==
    ASSUME IInv, NEW t \in Thread, ThreadStep(t)
    PROVE  JobInv(t)'
<1>. USE NamesAssumption DEF At, codes, devices, history
<1>. DEFINE w == job[t]
<1>0. /\ TInv /\ TypeOK /\ RecordInv /\ Monotone
      /\ LookupInv(t) /\ ScanInv(t) /\ DeviceInv(t) /\ w \in Job /\ Holds(w)
  <2>1. [Next]_vars
    BY Zenon DEF Next, ThreadStep, Request, Redeem, DesktopForToken, RevokeDesktopTokens,
                 RevokeDevice
  <2>2. QED BY <2>1, MonotoneSteps, Works DEF IInv, TInv, JobInv
<1>1. ASSUME End(t) PROVE JobInv(t)'
  <2>1. job'[t].at = "idle"
    BY <1>0, <1>1, Became DEF End, Idle
  <2>2. QED BY <2>1 DEF JobInv, LookupInv, ScanInv, DeviceInv
<1>2. ASSUME job'[t].at \in {"readCode", "claim", "check", "mint", "write", "provision"}
      PROVE  JobInv(t)'
  BY <1>2 DEF JobInv, LookupInv, ScanInv, DeviceInv
<1>3. ASSUME NEW c \in Code, BeginRedeem(t, c) PROVE JobInv(t)'
  BY <1>0, <1>2, <1>3, Became DEF BeginRedeem, Begin, Idle
<1>4. CASE ReadCode(t) \/ Claim(t) \/ CheckExpiry(t) \/ Write(t)
  <2>1. ASSUME NEW d, Become(t, [w EXCEPT !.at = "claim", !.desktop = d]) PROVE JobInv(t)'
    <3>1. job'[t] = [w EXCEPT !.at = "claim", !.desktop = d]
      BY <1>0, <2>1, Became
    <3>2. [w EXCEPT !.at = "claim", !.desktop = d].at = "claim"
      BY <1>0 DEF Job
    <3>3. QED BY <1>2, <3>1, <3>2
  <2>2. ASSUME NEW s \in {"check", "mint", "provision"}, Go(t, s) PROVE JobInv(t)'
    BY <1>0, <1>2, <2>2, Went
  <2>3. QED BY <1>1, <1>4, <2>1, <2>2 DEF ReadCode, Claim, CheckExpiry, Write
<1>5. CASE Mint(t)
  <2>1. PICK x \in Token : Become(t, [w EXCEPT !.at = "write", !.token = x])
    BY <1>5 DEF Mint
  <2>2. job'[t] = [w EXCEPT !.at = "write", !.token = x]
    BY <1>0, <2>1, Became
  <2>3. [w EXCEPT !.at = "write", !.token = x].at = "write"
    BY <1>0 DEF Job
  <2>4. QED BY <1>2, <2>2, <2>3
<1>6. CASE Provision(t) \/ HangUp(t) \/ FinishRevoke(t) \/ UnlinkFound(t)
  BY <1>1, <1>6 DEF Provision, HangUp, FinishRevoke, UnlinkFound
<1>7. ASSUME NEW x \in Token, BeginAuth(t, x) PROVE JobInv(t)'
  <2>1. /\ job'[t].at = "readDigest" /\ job'[t].token = x /\ x \in known'
        /\ job'[t].barred = (x \in revoked) /\ revoked' = revoked
    BY <1>0, <1>7, Became DEF BeginAuth, Begin, Idle
  <2>2. QED BY <2>1 DEF JobInv, LookupInv, ScanInv, DeviceInv
<1>8. CASE ReadDigest(t) \/ ReadPlain(t) \/ Migrate(t) \/ Welcome(t)
  <2>0. ASSUME NEW d, Admit(t, d), w.token \in Token, d = owner[w.token], ~Gone(w.token),
               w.at \in {"readDigest", "migrate"}, owner' = owner
        PROVE  JobInv(t)'
    <3>1. /\ job'[t].at = "admit" /\ job'[t].desktop = d
          /\ job'[t].token = w.token /\ job'[t].barred = w.barred
      BY <1>0, <2>0, Admitted
    <3>2. ~w.barred
      BY <1>0, <2>0 DEF LookupInv, RecordInv, Job
    <3>3. QED BY <2>0, <3>1, <3>2 DEF JobInv, LookupInv, ScanInv, DeviceInv
  <2>1. CASE End(t)
    BY <1>1, <2>1
  <2>2. CASE ReadDigest(t) /\ Go(t, "readPlain") /\ digests[w.token] = Nothing
    <3>1. /\ job'[t].at = "readPlain" /\ job'[t].token = w.token /\ job'[t].barred = w.barred
          /\ w.at = "readDigest" /\ digests[w.token] = Nothing
          /\ UNCHANGED <<known, targeted, revoked>>
      BY <1>0, <2>2, Became DEF ReadDigest, Go, Job
    <3>2. w.token \in known /\ w.token \in targeted \cup Legacy
      BY <1>0, <3>1 DEF LookupInv, RecordInv, TypeOK
    <3>3. QED BY <1>0, <3>1, <3>2 DEF JobInv, LookupInv, ScanInv, DeviceInv
  <2>3. CASE ReadPlain(t) /\ ~End(t)
    <3>1. /\ plains[w.token] # Nothing /\ w.at = "readPlain"
          /\ Become(t, [w EXCEPT !.at = "migrate", !.desktop = plains[w.token]])
          /\ UNCHANGED <<known, targeted, owner, revoked>>
      BY <2>3 DEF ReadPlain
    <3>2. job'[t] = [w EXCEPT !.at = "migrate", !.desktop = plains[w.token]]
      BY <1>0, <3>1, Became
    <3>3. /\ job'[t].at = "migrate" /\ job'[t].token = w.token /\ job'[t].barred = w.barred
          /\ job'[t].desktop = plains[w.token]
      BY <1>0, <3>2 DEF Job
    <3>4. plains[w.token] = owner[w.token]
      BY <1>0, <3>1 DEF RecordInv, Holds
    <3>5. LookupInv(t)'
      BY <1>0, <3>1, <3>3, <3>4 DEF LookupInv
    <3>6. QED BY <3>3, <3>5 DEF JobInv, ScanInv, DeviceInv
  <2>4. CASE ReadDigest(t) /\ digests[w.token] \in Desktop
    <3>1. /\ Admit(t, digests[w.token]) /\ w.at = "readDigest" /\ owner' = owner
          /\ w.token \in Token
      BY <1>0, <2>4 DEF ReadDigest, Holds
    <3>2. QED BY <1>0, <2>0, <2>4, <3>1 DEF RecordInv, Gone
  <2>5. CASE Migrate(t) /\ plains[w.token] # Nothing
    <3>1. /\ Admit(t, w.desktop) /\ w.at = "migrate" /\ owner' = owner /\ w.token \in Token
      BY <1>0, <2>5 DEF Migrate, Holds
    <3>2. QED BY <1>0, <2>0, <2>5, <3>1 DEF LookupInv, Gone
  <2>6. CASE Welcome(t)
    <3>1. job'[t].at = "serving"
      BY <1>0, <2>6, Went DEF Welcome
    <3>2. QED BY <3>1 DEF JobInv, LookupInv, ScanInv, DeviceInv
  <2>7. QED BY <1>8, <2>1, <2>2, <2>3, <2>4, <2>5, <2>6 DEF ReadDigest, ReadPlain, Migrate
<1>9. ASSUME NEW d \in Desktop, BeginRevoke(t, d) PROVE JobInv(t)'
  <2>. DEFINE N == RecordNames({"digest", "plain"})
              V == {x \in Token : d \in {digests[x], plains[x]}}
  <2>1. /\ Become(t, [Idle EXCEPT !.at = "scan", !.desktop = d, !.victims = V, !.todo = N])
        /\ targeted' = targeted \cup {x \in Token : owner[x] = d}
        /\ UNCHANGED <<devices, known, owner>>
    BY <1>9 DEF BeginRevoke, Begin
  <2>. HIDE DEF N, V
  <2>2. /\ job'[t].at = "scan" /\ job'[t].desktop = d /\ job'[t].victims = V
        /\ job'[t].todo = N
    BY <1>0, <2>1, Became DEF Idle
  <2>3. \A n \in N : owner[n[2]] # Nothing /\ (owner[n[2]] = d => n[2] \in targeted')
    <3>1. \A n \in N : n \in Name /\ Contents(n) # Nothing
      BY Listings DEF N, RecordNames, Name
    <3>2. QED BY <2>1, <3>1, RecordOf
  <2>4. ASSUME NEW x \in V
        PROVE  /\ owner[x] = d /\ owner[x] # Nothing /\ digests[x] # "empty"
               /\ \E kind \in {"digest", "plain"} : <<kind, x>> \in N
    <3>1. x \in Token /\ (digests[x] = d \/ plains[x] = d)
      BY DEF V
    <3>2. owner[x] = d /\ owner[x] # Nothing /\ digests[x] # "empty"
      BY <1>0, <3>1 DEF RecordInv
    <3>3. ASSUME NEW kind \in {"digest", "plain"}, Contents(<<kind, x>>) # Nothing
          PROVE  <<kind, x>> \in N
      BY <3>1, <3>3 DEF N, RecordNames
    <3>4. Contents(<<"digest", x>>) = digests[x] /\ Contents(<<"plain", x>>) = plains[x]
      BY DEF Contents
    <3>5. QED BY <3>1, <3>2, <3>3, <3>4
  <2>5. Pending(t)' = N
    BY <2>2 DEF Pending
  <2>6. ScanInv(t)'
    BY <2>1, <2>2, <2>3, <2>4, <2>5 DEF ScanInv, Gone
  <2>7. QED BY <2>2, <2>6 DEF JobInv, LookupInv, DeviceInv
<1>10. ASSUME PassOver(t), w.at = "scan", UNCHANGED <<devices, history>> PROVE JobInv(t)'
  <2>1. PICK n \in w.todo : /\ Contents(n) # Nothing /\ Contents(n) # w.desktop
                            /\ Become(t, [w EXCEPT !.todo = @ \ {n}])
    BY <1>10 DEF PassOver, Mine
  <2>2. /\ job'[t].at = "scan" /\ job'[t].desktop = w.desktop /\ job'[t].victims = w.victims
        /\ job'[t].todo = w.todo \ {n}
    BY <1>0, <1>10, <2>1, Became DEF Job
  <2>3. Pending(t) = w.todo /\ Pending(t)' = w.todo \ {n}
    BY <1>10, <2>2 DEF Pending
  <2>4. n \in Name /\ w.victims \subseteq Token
    BY <1>0 DEF Job
  <2>5. ASSUME NEW x \in w.victims, NEW kind, <<kind, x>> = n PROVE owner[x] # w.desktop
    BY <1>0, <1>10, <2>1, <2>4, <2>5, RecordOf DEF ScanInv
  <2>6. ScanInv(t)'
    BY <1>0, <1>10, <2>2, <2>3, <2>5 DEF ScanInv, Gone
  <2>7. QED BY <2>2, <2>6 DEF JobInv, LookupInv, DeviceInv
<1>11. CASE Scan(t)
  <2>1. ASSUME NEW n \in w.todo, Contents(n) = w.desktop,
               Become(t, [w EXCEPT !.at = "unlink", !.name = n, !.todo = @ \ {n}])
        PROVE  JobInv(t)'
    <3>1. w.at = "scan" /\ w.desktop \in Desktop /\ n \in Name
      BY <1>0, <1>11 DEF Scan, Holds, Job
    <3>2. job'[t] = [w EXCEPT !.at = "unlink", !.name = n, !.todo = w.todo \ {n}]
      BY <1>0, <2>1, Became
    <3>3. /\ job'[t].at = "unlink" /\ job'[t].name = n /\ job'[t].desktop = w.desktop
          /\ job'[t].victims = w.victims /\ job'[t].todo = w.todo \ {n}
      BY <1>0, <3>2 DEF Job
    <3>4. Pending(t) = w.todo /\ Pending(t)' = w.todo
      BY <2>1, <3>1, <3>3 DEF Pending
    <3>5. n[2] \in Token /\ owner[n[2]] = w.desktop
      BY <2>1, <3>1, RecordOf
    <3>6. digests[n[2]] # "empty"
      BY <1>0, <2>1, <3>1, <3>5 DEF RecordInv, Contents, Name
    <3>7. UNCHANGED <<digests, plains, known, owner, targeted>>
      BY <1>11 DEF Scan
    <3>8. ScanInv(t)'
      BY <1>0, <3>1, <3>3, <3>4, <3>5, <3>6, <3>7 DEF ScanInv, Gone
    <3>9. QED BY <3>3, <3>8 DEF JobInv, LookupInv, DeviceInv
  <2>2. QED BY <1>1, <1>10, <1>11, <2>1 DEF Scan, Vanished, Mine
<1>12. CASE Unlink(t)
  <2>1. ASSUME Contents(w.name) # Nothing,
               Become(t, [w EXCEPT !.at = "scan", !.name = Nothing])
        PROVE  JobInv(t)'
    <3>1. /\ w.at = "unlink" /\ w.name \in Name /\ Remove(w.name)
          /\ UNCHANGED <<known, owner, targeted>>
      BY <1>0, <1>12 DEF Unlink, Holds
    <3>2. job'[t] = [w EXCEPT !.at = "scan", !.name = Nothing]
      BY <1>0, <2>1, Became
    <3>3. /\ job'[t].at = "scan" /\ job'[t].desktop = w.desktop
          /\ job'[t].victims = w.victims /\ job'[t].todo = w.todo
      BY <1>0, <3>2 DEF Job
    <3>4. Pending(t) = w.todo \cup {w.name} /\ Pending(t)' = w.todo
      BY <3>1, <3>3 DEF Pending
    <3>5. digests'[w.name[2]] = Nothing /\ plains'[w.name[2]] = Nothing
      BY <2>1, <3>1, Removal DEF Gone
    <3>6. ASSUME NEW x \in w.victims
          PROVE  Gone(x)' \/ (owner[x] = w.desktop /\ \E kind \in {"digest", "plain"} :
                                                            <<kind, x>> \in w.todo)
      <4>1. x \in Token /\ owner[x] # Nothing /\ (Gone(x) => Gone(x)')
        BY <1>0, <3>1 DEF ScanInv, Monotone, Job
      <4>2. ASSUME NEW kind, <<kind, x>> = w.name PROVE Gone(x)'
        BY <3>5, <4>2 DEF Gone
      <4>3. QED BY <1>0, <3>1, <3>4, <4>1, <4>2 DEF ScanInv
    <3>7. ScanInv(t)'
      <4>1. ASSUME NEW x \in w.victims PROVE owner[x] # Nothing /\ digests'[x] # "empty"
        BY <1>0, <3>1 DEF ScanInv, Monotone, Job
      <4>2. \A n \in w.todo : /\ owner[n[2]] # Nothing
                              /\ owner[n[2]] = w.desktop => n[2] \in targeted
        BY <1>0, <3>1, <3>4 DEF ScanInv
      <4>3. QED BY <3>1, <3>3, <3>4, <3>6, <4>1, <4>2 DEF ScanInv
    <3>8. QED BY <3>3, <3>7 DEF JobInv, LookupInv, DeviceInv
  <2>2. QED BY <1>1, <1>12, <2>1 DEF Unlink
<1>13. ASSUME NEW d \in Desktop, NEW x \in Token, BeginRevokeDevice(t, d, x) PROVE JobInv(t)'
  <2>. DEFINE P == {y \in {x} : owner[y] = d}
              V == {y \in {x} : digests[y] = d}
  <2>1. PICK N : /\ Become(t, [Idle EXCEPT !.at = "list", !.desktop = d, !.token = x,
                                           !.victims = V, !.todo = N])
                 /\ targeted' = targeted \cup P /\ owner[x] # Nothing
                 /\ UNCHANGED <<known, owner>>
    BY <1>13 DEF BeginRevokeDevice, Begin
  <2>. HIDE DEF P, V
  <2>2. /\ job'[t].at = "list" /\ job'[t].desktop = d /\ job'[t].token = x
        /\ job'[t].victims = V
    BY ZenonT(60), <1>0, <2>1, Became DEF Idle
  <2>3. DeviceInv(t)'
    BY <2>1, <2>2 DEF DeviceInv, P, V
  <2>4. QED BY <2>2, <2>3 DEF JobInv, LookupInv, ScanInv
<1>14. CASE List(t)
  <2>1. w.at = "list" /\ UNCHANGED <<devices, history>>
    BY <1>14 DEF List
  <2>2. ASSUME /\ job'[t].at \in {"list", "find"}
               /\ job'[t].token = w.token /\ job'[t].desktop = w.desktop
               /\ job'[t].victims = w.victims
        PROVE  JobInv(t)'
    BY <1>0, <2>1, <2>2 DEF JobInv, LookupInv, ScanInv, DeviceInv
  <2>3. ASSUME NEW n, Become(t, [w EXCEPT !.todo = @ \ {n}]) PROVE JobInv(t)'
    <3>1. job'[t] = [w EXCEPT !.todo = w.todo \ {n}]
      BY <1>0, <2>3, Became
    <3>2. QED BY <1>0, <2>1, <2>2, <3>1 DEF Job
  <2>4. ASSUME NEW n, Become(t, [w EXCEPT !.todo = @ \ {n}, !.found = @ \/ n[2] = w.token])
        PROVE  JobInv(t)'
    <3>1. job'[t] = [w EXCEPT !.todo = w.todo \ {n}, !.found = w.found \/ n[2] = w.token]
      BY <1>0, <2>4, Became
    <3>2. QED BY <1>0, <2>1, <2>2, <3>1 DEF Job
  <2>5. Go(t, "find") => JobInv(t)'
    BY <1>0, <2>2, Went
  <2>6. QED BY <1>1, <1>14, <2>3, <2>4, <2>5 DEF List, Vanished, PassOver
<1>15. CASE Find(t)
  <2>. DEFINE n == <<"digest", w.token>>
  <2>1. ASSUME Contents(n) = w.desktop, Become(t, [w EXCEPT !.at = "unlinkFound", !.name = n])
        PROVE  JobInv(t)'
    <3>1. w.at = "find" /\ w.token \in Token /\ w.desktop \in Desktop /\ n \in Name
      BY <1>0, <1>15 DEF Find, Holds, Name
    <3>2. owner[w.token] = w.desktop /\ digests[w.token] # "empty"
      BY <1>0, <2>1, <3>1 DEF Contents, RecordInv
    <3>3. job'[t] = [w EXCEPT !.at = "unlinkFound", !.name = n]
      BY <1>0, <2>1, Became
    <3>4. /\ job'[t].at = "unlinkFound" /\ job'[t].name = n /\ job'[t].token = w.token
          /\ job'[t].desktop = w.desktop /\ job'[t].victims = w.victims
      BY <1>0, <3>3 DEF Job
    <3>5. UNCHANGED <<digests, plains, known, owner, targeted>>
      BY <1>15 DEF Find
    <3>6. DeviceInv(t)'
      BY <1>0, <3>1, <3>2, <3>4, <3>5 DEF DeviceInv
    <3>7. QED BY <3>4, <3>6 DEF JobInv, LookupInv, ScanInv
  <2>2. QED BY <1>1, <1>15, <2>1 DEF Find, Mine
<1>16. QED BY <1>3, <1>4, <1>5, <1>6, <1>7, <1>8, <1>9, <1>11, <1>12, <1>13, <1>14, <1>15
           DEF ThreadStep

LEMMA InitRecords == Init => RecordInv /\ WriteInv /\ \A u \in Thread : JobInv(u)
<1>. SUFFICES ASSUME Init PROVE RecordInv /\ WriteInv /\ \A u \in Thread : JobInv(u)
  OBVIOUS
<1>1. RecordInv
  BY NamesAssumption DEF Init, RecordInv, Gone
<1>2. WriteInv
  BY DEF Init, WriteInv, Writing, Idle
<1>3. \A u \in Thread : JobInv(u)
  BY DEF Init, JobInv, LookupInv, ScanInv, DeviceInv, Idle
<1>4. QED BY <1>1, <1>2, <1>3

LEMMA IInvStep == IInv /\ [Next]_vars => IInv'
<1>. SUFFICES ASSUME IInv, [Next]_vars PROVE IInv'
  OBVIOUS
<1>1. TInv' /\ CodeInv' /\ ClaimInv' /\ RecordInv' /\ WriteInv' /\ Monotone
  BY TypeStep, CodeStep, RecordStep, WriteStep, MonotoneSteps DEF IInv
<1>2. ASSUME NEW u \in Thread PROVE JobInv(u)'
  <2>1. CASE job'[u] = job[u]
    BY <1>1, <2>1, JobFrame
  <2>2. CASE Crash
    BY <2>2 DEF Crash, JobInv, LookupInv, ScanInv, DeviceInv, Idle
  <2>3. CASE Tick \/ (\E c \in Code, d \in Desktop : Create(c, d)) \/ UNCHANGED vars
    <3>1. job' = job
      BY <2>3 DEF Tick, Create, vars
    <3>2. QED BY <2>1, <3>1
  <2>4. ASSUME NEW t \in Thread, ThreadStep(t) PROVE JobInv(u)'
    <3>1. t # u => job'[u] = job[u]
      BY <2>4, OthersWork DEF IInv
    <3>2. QED BY <2>1, <2>4, <3>1, JobStep
  <2>5. QED BY <2>2, <2>3, <2>4, NextSteps
<1>3. QED BY <1>1, <1>2 DEF IInv

LEMMA IInvAlways == Spec => []IInv
<1>1. Init => IInv
  BY InitTyped, InitCodes, InitRecords DEF IInv
<1>2. QED BY <1>1, IInvStep, PTL DEF Spec

(* After OK revoked-devices, or OK revoked-device, no record of a device   *)
(* that was revoked exists, though lookups migrated records while the      *)
(* revocation scanned them (pairing.rs 108-141, 169-223).                  *)
THEOREM RevocationHolds == Spec => []RevokedIsGone
<1>1. IInv => RevokedIsGone
  BY DEF IInv, TInv, TypeOK, RecordInv, Gone, RevokedIsGone
<1>2. QED BY <1>1, IInvAlways, PTL

(* A token that this build issued is refused only when its revocation has  *)
(* begun (pairing.rs 108-141, 169-223).                                    *)
THEOREM IssuedAccepted == Spec => IssuedIsAccepted
<1>1. ASSUME IInv, NEW t \in Thread, Refuses(t) PROVE job[t].token \in targeted \cup Legacy
  <2>1. LookupInv(t) /\ RecordInv /\ Holds(job[t])
    BY <1>1, Works DEF IInv, JobInv
  <2>2. job[t].token \in Token /\ ~(At(t, "readDigest") /\ digests[job[t].token] = "empty")
    BY <1>1, <2>1 DEF Refuses, At, LookupInv, RecordInv, Holds
  <2>3. QED BY <1>1, <2>1, <2>2 DEF Refuses, At, LookupInv
<1>2. IInv /\ [Next]_vars =>
        [\A t \in Thread : (Refuses(t) /\ job'[t] = Idle /\ crashes' = crashes)
              => job[t].token \in targeted \cup Legacy]_vars
  BY <1>1
<1>3. QED BY <1>2, IInvAlways, PTL DEF Spec, IssuedIsAccepted

(* Only a lookup brings a thread further in a lookup.                      *)
LEMMA LookingUp ==
    ASSUME TInv, NEW t \in Thread, ThreadStep(t),
           job'[t].at \in {"readPlain", "migrate", "admit", "serving"}
    PROVE  ReadDigest(t) \/ ReadPlain(t) \/ Migrate(t) \/ Welcome(t)
<1>. USE Works DEF At, Begin, Go, Job, Idle
<1>0. ~End(t) /\ job'[t].at \in {"readPlain", "migrate", "admit", "serving"}
  BY Became DEF End
<1>1. ASSUME NEW c \in Code, BeginRedeem(t, c) PROVE FALSE
  BY ZenonT(60), <1>0, <1>1, Became DEF BeginRedeem
<1>2. CASE ReadCode(t) \/ Claim(t) \/ CheckExpiry(t) \/ Write(t) \/ Provision(t)
  <2>1. ASSUME NEW d PROVE ~Become(t, [job[t] EXCEPT !.at = "claim", !.desktop = d])
    <3>1. ASSUME Become(t, [job[t] EXCEPT !.at = "claim", !.desktop = d]) PROVE FALSE
      <4>1. job'[t].at = "claim"
        BY <3>1, GoesWith, Zenon
      <4>2. QED BY <1>0, <4>1
    <3>2. QED BY <3>1, Zenon
  <2>2. ASSUME NEW s \in {"check", "mint", "provision"} PROVE ~Go(t, s)
    BY <1>0, Became
  <2>3. QED BY <1>0, <1>2, <2>1, <2>2 DEF ReadCode, Claim, CheckExpiry, Write, Provision
<1>3. CASE Mint(t)
  <2>1. PICK x \in Token : Become(t, [job[t] EXCEPT !.at = "write", !.token = x])
    BY <1>3 DEF Mint
  <2>2. job'[t].at = "write"
    BY <2>1, Became
  <2>3. QED BY <1>0, <2>2
<1>4. ASSUME NEW x \in Token, BeginAuth(t, x) PROVE FALSE
  <2>1. PICK b : Become(t, [Idle EXCEPT !.at = "readDigest", !.token = x, !.barred = b])
    BY <1>4 DEF BeginAuth
  <2>2. job'[t] = [Idle EXCEPT !.at = "readDigest", !.token = x, !.barred = b]
    BY <2>1, Became, Zenon
  <2>3. QED BY <1>0, <2>2
<1>5. CASE HangUp(t)
  BY <1>0, <1>5 DEF HangUp
<1>6. ASSUME NEW d \in Desktop, BeginRevoke(t, d) PROVE FALSE
  <2>1. PICK V, N : Become(t, [Idle EXCEPT !.at = "scan", !.desktop = d,
                                           !.victims = V, !.todo = N])
    BY <1>6 DEF BeginRevoke
  <2>2. job'[t].at = "scan"
    BY ZenonT(60), <2>1, Became
  <2>3. QED BY <1>0, <2>2
<1>7. ASSUME PassOver(t), job[t].at \in {"scan", "list"} PROVE FALSE
  BY <1>0, <1>7, Became DEF PassOver
<1>8. CASE Scan(t)
  BY ZenonT(60), <1>0, <1>7, <1>8, Became DEF Scan, Vanished
<1>9. CASE Unlink(t) \/ FinishRevoke(t) \/ UnlinkFound(t)
  <2>1. ~(FinishRevoke(t) \/ UnlinkFound(t))
    BY <1>0, Zenon DEF FinishRevoke, UnlinkFound
  <2>2. Become(t, [job[t] EXCEPT !.at = "scan", !.name = Nothing])
    BY <1>0, <1>9, <2>1, Zenon DEF Unlink
  <2>3. job'[t] = [job[t] EXCEPT !.at = "scan", !.name = Nothing]
    BY <2>2, Became, Zenon
  <2>4. QED BY <1>0, <2>3
<1>10. ASSUME NEW d \in Desktop, NEW x \in Token, BeginRevokeDevice(t, d, x) PROVE FALSE
  <2>1. PICK V, N : Become(t, [Idle EXCEPT !.at = "list", !.desktop = d, !.token = x,
                                           !.victims = V, !.todo = N])
    BY <1>10 DEF BeginRevokeDevice
  <2>2. job'[t] = [Idle EXCEPT !.at = "list", !.desktop = d, !.token = x,
                               !.victims = V, !.todo = N]
    BY <2>1, Became, Zenon
  <2>3. QED BY <1>0, <2>2
<1>11. CASE List(t)
  <2>1. ASSUME NEW n, job[t].at = "list",
               Become(t, [job[t] EXCEPT !.todo = @ \ {n}, !.found = @ \/ n[2] = job[t].token])
        PROVE  FALSE
    BY <1>0, <2>1, Became
  <2>2. ~Go(t, "find")
    BY <1>0, Became
  <2>3. QED BY <1>0, <1>7, <1>11, <2>1, <2>2 DEF List, Vanished
<1>12. CASE Find(t)
  BY <1>0, <1>12, Became DEF Find
<1>13. QED BY <1>1, <1>2, <1>3, <1>4, <1>5, <1>6, <1>8, <1>9, <1>10, <1>11, <1>12
           DEF ThreadStep

(* What AdmittedRightly says of one thread.                                 *)
Arrives(t, step) == At(t, step)' /\ ~At(t, step)
Right(t) == /\ Arrives(t, "admit") => /\ job'[t].desktop = owner[job[t].token]
                                      /\ job[t].token \notin revoked
            /\ Arrives(t, "serving") => /\ job'[t].desktop = owner[job[t].token]
                                        /\ ~job[t].barred

LEMMA LookupYields ==
    ASSUME IInv, NEW t \in Thread, ThreadStep(t)
    PROVE  Right(t)
<1>. DEFINE x == job[t].token
<1>0. /\ TInv /\ RecordInv /\ LookupInv(t) /\ job[t] \in Job /\ Holds(job[t])
  BY Works DEF IInv, JobInv
<1>1. SUFFICES ASSUME Arrives(t, "admit") \/ Arrives(t, "serving") PROVE Right(t)
  BY DEF Right
<1>2. ReadDigest(t) \/ Migrate(t) \/ Welcome(t)
  <2>1. ~Become(t, [job[t] EXCEPT !.at = "migrate", !.desktop = plains[job[t].token]])
    <3>1. ASSUME Become(t, [job[t] EXCEPT !.at = "migrate", !.desktop = plains[job[t].token]])
          PROVE  FALSE
      <4>1. job'[t].at = "migrate"
        BY <1>0, <3>1, GoesWith, Zenon
      <4>2. QED BY <1>1, <4>1 DEF Arrives, At
    <3>2. QED BY <3>1, Zenon
  <2>2. ~End(t)
    BY <1>0, <1>1, Became DEF Arrives, End, At, Idle
  <2>3. QED BY <1>0, <1>1, <2>1, <2>2, LookingUp DEF Arrives, At, ReadPlain
<1>3. x \in Token
  BY <1>0, <1>2 DEF ReadDigest, Migrate, Welcome, At, Holds
<1>4. ASSUME NEW d, Admit(t, d), d = owner[x], ~Gone(x) PROVE Right(t)
  <2>1. job'[t].at = "admit" /\ job'[t].desktop = d
    BY <1>0, <1>4, Admitted
  <2>2. QED BY <1>0, <1>3, <1>4, <2>1 DEF Right, Arrives, At, RecordInv
<1>5. ~End(t) /\ ~Go(t, "readPlain")
  BY <1>0, <1>1, Became, Went DEF Arrives, End, At, Idle
<1>6. CASE ReadDigest(t)
  <2>1. digests[x] \in Desktop /\ Admit(t, digests[x])
    BY <1>5, <1>6 DEF ReadDigest
  <2>2. QED BY <1>0, <1>3, <1>4, <2>1, NamesAssumption DEF RecordInv, Gone
<1>7. CASE Migrate(t)
  <2>1. /\ plains[x] # Nothing /\ Admit(t, job[t].desktop) /\ job[t].at = "migrate"
    BY <1>5, <1>7 DEF Migrate, At
  <2>2. QED BY <1>0, <1>3, <1>4, <2>1 DEF Gone, LookupInv
<1>8. CASE Welcome(t)
  <2>1. job[t].at = "admit" /\ job'[t].at = "serving" /\ job'[t].desktop = job[t].desktop
    BY <1>0, <1>8, Went DEF Welcome, At
  <2>2. QED BY <1>0, <2>1 DEF Right, Arrives, At, LookupInv
<1>9. QED BY <1>2, <1>6, <1>7, <1>8

(* A lookup yields its token's desktop, and nothing for a token that was   *)
(* revoked before it ended; OK is said for that desktop, and to no token   *)
(* that was revoked before its AUTH (pairing.rs 108-141, protocol.rs       *)
(* 73-111).                                                                *)
THEOREM AdmissionHolds == Spec => AdmittedRightly
<1>1. ASSUME IInv, [Next]_vars, NEW t \in Thread PROVE Right(t)
  <2>1. SUFFICES ASSUME Arrives(t, "admit") \/ Arrives(t, "serving") PROVE Right(t)
    BY DEF Right
  <2>2. ~Crash /\ ~Tick /\ ~(\E c \in Code, d \in Desktop : Create(c, d)) /\ ~UNCHANGED vars
    BY <2>1 DEF Crash, Tick, Create, vars, Arrives, At, Idle
  <2>3. PICK u \in Thread : ThreadStep(u)
    BY <1>1, <2>2, NextSteps
  <2>4. u = t
    BY <1>1, <2>1, <2>3, OthersWork DEF Arrives, At, IInv
  <2>5. QED BY <1>1, <2>3, <2>4, LookupYields
<1>2. IInv /\ [Next]_vars =>
        [\A t \in Thread :
            /\ At(t, "admit")' /\ ~At(t, "admit")
                  => job'[t].desktop = owner[job[t].token] /\ job[t].token \notin revoked
            /\ At(t, "serving")' /\ ~At(t, "serving")
                  => job'[t].desktop = owner[job[t].token] /\ ~job[t].barred]_vars
  BY <1>1 DEF Right, Arrives
<1>3. QED BY <1>2, IInvAlways, PTL DEF Spec, AdmittedRightly

-----------------------------------------------------------------------------
(* Tokens of older builds.                                                 *)

(* No two threads have found no digest of the same token and are about to  *)
(* migrate its record: what a lock for each token would give.              *)
Migrating(u) == job[u].at \in {"readPlain", "migrate"}
Apart == \A u, v \in Thread :
            Migrating(u) /\ Migrating(v) /\ job[u].token = job[v].token => u = v

(* No record goes before a revocation of its token has begun, and a lookup *)
(* that found no digest still finds the record of the older build.         *)
Kept == \A x \in Token : owner[x] # Nothing /\ x \notin targeted => ~Gone(x)
StillThere(u) == Migrating(u) => job[u].token \in targeted \/ plains[job[u].token] # Nothing

LInv == IInv /\ Kept /\ \A u \in Thread : StillThere(u)

(* What a thread's step does to the record of the older build.             *)
LEMMA PlainsStep ==
    ASSUME IInv, NEW t \in Thread, ThreadStep(t), NEW x \in Token,
           x \notin targeted, plains[x] # Nothing
    PROVE  \/ plains'[x] = plains[x]
           \/ Migrate(t) /\ job[t].token = x /\ digests'[x] # Nothing
<1>. USE NamesAssumption DEF codes, devices, history
<1>0. TInv /\ TypeOK /\ job[t] \in Job /\ Holds(job[t]) /\ ScanInv(t) /\ DeviceInv(t)
  BY Works DEF IInv, TInv, JobInv
<1>1. CASE Looks(t) \/ Mint(t) \/ Write(t) \/ Provision(t) \/ FinishRevoke(t)
  BY <1>1 DEF Looks, Mint, Write, Provision, FinishRevoke
<1>2. CASE Migrate(t)
  BY <1>0, <1>2 DEF Migrate, At, Holds, TypeOK
<1>3. CASE Unlink(t)
  <2>1. job[t].name \in Name /\ job[t].name[2] \in targeted
    BY <1>0, <1>3 DEF Unlink, At, Holds, ScanInv, Pending
  <2>2. QED BY <1>3, <2>1, Removal DEF Unlink
<1>4. CASE UnlinkFound(t)
  <2>1. job[t].name \in Name /\ job[t].name[2] \in targeted
    BY <1>0, <1>4 DEF UnlinkFound, At, Holds, DeviceInv
  <2>2. QED BY <1>4, <2>1, Removal DEF UnlinkFound
<1>5. QED BY <1>0, <1>1, <1>2, <1>3, <1>4, LookSteps

LEMMA KeptStep == IInv /\ Kept /\ [Next]_vars => Kept'
<1>. SUFFICES ASSUME IInv, Kept, [Next]_vars PROVE Kept'
  OBVIOUS
<1>. USE NamesAssumption DEF Kept, Gone, codes, devices, history
<1>0. TInv /\ TypeOK /\ RecordInv /\ WriteInv
  BY DEF IInv, TInv
<1>1. CASE UNCHANGED vars \/ Crash \/ Tick
  BY <1>1 DEF vars, Crash, Tick
<1>2. ASSUME NEW c \in Code, NEW d \in Desktop, Create(c, d) PROVE Kept'
  BY <1>2 DEF Create
<1>3. ASSUME NEW t \in Thread, ThreadStep(t) PROVE Kept'
  <2>1. job[t] \in Job /\ Holds(job[t]) /\ ScanInv(t) /\ DeviceInv(t)
    BY <1>0, Works DEF IInv, JobInv
  <2>2. CASE Looks(t) \/ Provision(t) \/ FinishRevoke(t)
    BY <2>2 DEF Looks, Provision, FinishRevoke
  <2>3. CASE Mint(t)
    BY <1>0, <2>3 DEF Mint, TypeOK
  <2>4. CASE Write(t)
    BY <1>0, <2>1, <2>4 DEF Write, At, Holds, TypeOK
  <2>5. CASE Migrate(t)
    BY <1>0, <2>1, <2>5 DEF Migrate, At, Holds, TypeOK
  <2>6. CASE Unlink(t)
    <3>1. job[t].name \in Name /\ job[t].name[2] \in targeted
      BY <2>1, <2>6 DEF Unlink, At, Holds, ScanInv, Pending
    <3>2. QED BY <2>6, <3>1, Removal DEF Unlink
  <2>7. CASE UnlinkFound(t)
    <3>1. job[t].name \in Name /\ job[t].name[2] \in targeted
      BY <2>1, <2>7 DEF UnlinkFound, At, Holds, DeviceInv
    <3>2. QED BY <2>7, <3>1, Removal DEF UnlinkFound
  <2>8. QED BY <1>0, <1>3, <2>2, <2>3, <2>4, <2>5, <2>6, <2>7, LookSteps
<1>4. QED BY <1>1, <1>2, <1>3, NextSteps

LEMMA LInvStep == LInv /\ Apart /\ [Next]_vars => LInv'
<1>. SUFFICES ASSUME LInv, Apart, [Next]_vars PROVE LInv'
  OBVIOUS
<1>1. IInv' /\ Kept' /\ Monotone
  BY IInvStep, KeptStep, MonotoneSteps DEF LInv
<1>2. ASSUME NEW u \in Thread PROVE StillThere(u)'
  <2>. SUFFICES ASSUME Migrating(u)', job'[u].token \notin targeted'
                PROVE  plains'[job'[u].token] # Nothing
    BY DEF StillThere
  <2>. DEFINE x == job'[u].token
  <2>0. /\ IInv /\ TInv /\ TypeOK /\ RecordInv /\ Kept /\ StillThere(u)
        /\ job[u] \in Job /\ Holds(job[u]) /\ LookupInv(u)
    BY Works DEF LInv, IInv, TInv, JobInv
  <2>1. x \notin targeted
    BY <1>1 DEF Monotone
  <2>2. ~Crash
    BY DEF Crash, Migrating, Idle
  <2>3. CASE Tick \/ (\E c \in Code, d \in Desktop : Create(c, d)) \/ UNCHANGED vars
    <3>1. job' = job /\ plains' = plains
      BY <2>3 DEF Tick, Create, vars, devices
    <3>2. QED BY <2>0, <2>1, <3>1 DEF StillThere, Migrating
  <2>4. ASSUME NEW t \in Thread, ThreadStep(t), t # u PROVE plains'[x] # Nothing
    <3>1. job'[u] = job[u]
      BY <2>0, <2>4, OthersWork
    <3>2. Migrating(u) /\ x = job[u].token /\ x \in Token /\ plains[x] # Nothing
      BY <2>0, <2>1, <3>1 DEF Migrating, Holds, StillThere
    <3>3. ~(Migrate(t) /\ job[t].token = x)
      BY <2>4, <3>2 DEF Migrate, At, Apart, Migrating
    <3>4. QED BY <2>0, <2>1, <2>4, <3>2, <3>3, PlainsStep
  <2>5. CASE ThreadStep(u)
    <3>1. ReadDigest(u) \/ ReadPlain(u) \/ Migrate(u)
      <4>1. Welcome(u) => job'[u].at = "serving"
        BY <2>0, Went DEF Welcome
      <4>2. QED BY <2>0, <2>5, <4>1, LookingUp DEF Migrating
    <3>2. ~End(u) /\ \A d : ~Admit(u, d)
      BY <2>0, Became, Admitted DEF End, Idle, Migrating
    <3>3. plains' = plains
      BY <3>1, <3>2 DEF ReadDigest, ReadPlain, Migrate, devices
    <3>4. CASE ReadDigest(u)
      <4>1. Go(u, "readPlain") /\ digests[job[u].token] = Nothing /\ job[u].at = "readDigest"
        BY <3>2, <3>4 DEF ReadDigest, At
      <4>2. x = job[u].token
        BY <2>0, <4>1, Became DEF Go, Job
      <4>3. x \in Token /\ owner[x] # Nothing
        BY <2>0, <4>1, <4>2 DEF Holds, LookupInv, RecordInv
      <4>4. QED BY <2>0, <2>1, <3>3, <4>1, <4>2, <4>3 DEF Kept, Gone
    <3>5. CASE ReadPlain(u)
      <4>1. /\ plains[job[u].token] # Nothing
            /\ Become(u, [job[u] EXCEPT !.at = "migrate", !.desktop = plains[job[u].token]])
        BY <3>2, <3>5 DEF ReadPlain
      <4>2. x = job[u].token
        BY <2>0, <4>1, Became DEF Job
      <4>3. QED BY <3>3, <4>1, <4>2
    <3>6. CASE Migrate(u)
      BY <3>2, <3>6 DEF Migrate
    <3>7. QED BY <3>1, <3>4, <3>5, <3>6
  <2>6. QED BY <2>2, <2>3, <2>4, <2>5, NextSteps
<1>3. QED BY <1>1, <1>2 DEF LInv

(* Where no two threads migrate the same record at once, a token of an     *)
(* older build is accepted too until its revocation begins: the race of    *)
(* two first uses is the only way to lose (pairing.rs 108-141).            *)
THEOREM LegacyAccepted == Spec /\ []Apart => LegacyIsAccepted
<1>1. Init => LInv
  <2>. SUFFICES ASSUME Init PROVE LInv
    OBVIOUS
  <2>1. IInv
    BY InitTyped, InitCodes, InitRecords DEF IInv
  <2>2. Kept
    BY NamesAssumption DEF Init, Kept, Gone
  <2>3. \A u \in Thread : StillThere(u)
    BY DEF Init, StillThere, Migrating, Idle
  <2>4. QED BY <2>1, <2>2, <2>3 DEF LInv
<1>2. LInv /\ Apart /\ [Next]_vars => LInv'
  BY LInvStep
<1>3. ASSUME LInv, NEW t \in Thread, Refuses(t) PROVE job[t].token \in targeted
  <2>1. /\ RecordInv /\ LookupInv(t) /\ StillThere(t) /\ Holds(job[t])
    BY <1>3, Works DEF LInv, IInv, JobInv
  <2>2. QED BY <1>3, <2>1 DEF Refuses, At, LookupInv, RecordInv, Holds, StillThere, Migrating
<1>4. LInv /\ [Next]_vars =>
        [\A t \in Thread : (Refuses(t) /\ job'[t] = Idle /\ crashes' = crashes)
              => job[t].token \in targeted]_vars
  BY <1>3
<1>5. QED BY <1>1, <1>2, <1>4, PTL DEF Spec, LegacyIsAccepted
=============================================================================
