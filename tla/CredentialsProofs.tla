-------------------------- MODULE CredentialsProofs --------------------------
(***************************************************************************)
(* PairingStore implements Credentials: any threads, codes, tokens and     *)
(* desktops, any interleaving of their steps and any crashes.              *)
(***************************************************************************)
EXTENDS PairingStoreProofs

(* What Credentials sees.                                                  *)
Seen == <<pairings, used, Standing, owner, Roles, revoked>>

(* What a thread has read of a code it is about to claim is still true, or *)
(* the code was claimed by another.                                        *)
ReadInv(u) ==
    job[u].at = "claim" => pairings[job[u].code] = job[u].desktop \/ job[u].code \in used

RInv == IInv /\ \A u \in Thread : ReadInv(u)

LEMMA Parts ==
    ASSUME NEW j
    PROVE  /\ j.at \in {"idle", "readCode", "claim", "provision", "readDigest", "readPlain",
                        "migrate"} => Part(j) = <<>>
           /\ j.at \in {"check", "mint"} => Part(j) = <<"claim", j.desktop>>
           /\ j.at = "write" => Part(j) = <<"store", j.token>>
           /\ j.at \in {"admit", "serving"} => Part(j) = <<"serve", j.token, j.desktop>>
           /\ j.at \in {"list", "find", "scan", "unlink", "unlinkFound"}
                 => Part(j) = <<"revoke", j.desktop, j.victims>>
BY DEF Part

LEMMA RoleOf ==
    ASSUME NEW t \in Thread
    PROVE  Roles[t] = Part(job[t])
BY DEF Roles

LEMMA RoleTaken ==
    ASSUME TInv, NEW t \in Thread, NEW j, Become(t, j)
    PROVE  Roles' = [Roles EXCEPT ![t] = Part(j)]
<1>1. job' = [job EXCEPT ![t] = j] /\ job \in [Thread -> Job]
  BY DEF Become, TInv, TypeOK
<1>2. Roles' = [u \in Thread |-> Part(job'[u])]
  BY DEF Roles
<1>3. QED BY <1>1, <1>2 DEF Roles

LEMMA RoleKept ==
    ASSUME TInv, NEW t \in Thread, NEW j, Become(t, j), Part(j) = Part(job[t])
    PROVE  Roles' = Roles
BY RoleTaken DEF Roles

LEMMA StandingKept ==
    ASSUME UNCHANGED <<digests, plains, owner>>
    PROVE  Standing' = Standing
BY DEF Standing

(* How far one token is; the others' files and owners are untouched.       *)
LEMMA StandingSet ==
    ASSUME NEW x \in Token, NEW how, Standing'[x] = how,
           \A y \in Token \ {x} : /\ owner'[y] = owner[y] /\ digests'[y] = digests[y]
                                  /\ plains'[y] = plains[y]
    PROVE  Standing' = [Standing EXCEPT ![x] = how]
<1>1. \A y \in Token \ {x} : Standing'[y] = Standing[y]
  BY DEF Standing
<1>2. Standing' = [y \in Token |-> Standing'[y]] /\ Standing = [y \in Token |-> Standing[y]]
  BY DEF Standing
<1>. HIDE DEF Standing
<1>3. QED BY <1>1, <1>2

(* A step that ends a thread's work and changes nothing else.              *)
LEMMA Ended ==
    ASSUME TInv, NEW t \in Thread, End(t), UNCHANGED <<pairings, used, devices, owner, revoked>>
    PROVE  Promised!End(t) /\ job'[t].at = "idle"
<1>1. Part(Idle) = <<>> /\ Become(t, Idle) /\ Idle.at = "idle"
  BY Parts DEF Idle, End
<1>2. Roles' = [Roles EXCEPT ![t] = <<>>] /\ job'[t] = Idle
  BY <1>1, RoleTaken, Became
<1>3. QED BY <1>1, <1>2, StandingKept DEF Promised!End, Promised!Turns, devices

LEMMA Unseen ==
    ASSUME TInv, NEW t \in Thread, NEW j, Become(t, j), Part(j) = Part(job[t]),
           UNCHANGED <<pairings, used, devices, owner, revoked>>
    PROVE  UNCHANGED Seen
BY RoleKept, StandingKept DEF Seen, devices

(* What most steps do: nothing that Credentials sees, or an end.           *)
Unmarked(t) == /\ UNCHANGED Seen \/ Promised!End(t)
               /\ job'[t].at = "claim" => ReadCode(t)

LEMMA Quietly ==
    ASSUME TInv, NEW t \in Thread, UNCHANGED <<pairings, used, devices, owner, revoked>>
    PROVE  /\ End(t) => Unmarked(t)
           /\ \A j : Become(t, j) /\ Part(j) = Part(job[t]) /\ j.at # "claim" => Unmarked(t)
<1>1. End(t) => Unmarked(t)
  BY Ended DEF Unmarked
<1>2. ASSUME NEW j, Become(t, j), Part(j) = Part(job[t]), j.at # "claim" PROVE Unmarked(t)
  BY <1>2, Unseen, Became DEF Unmarked
<1>3. QED BY <1>1, <1>2

LEMMA RedeemMoves ==
    ASSUME TInv, NEW t \in Thread,
           (\E c \in Code : BeginRedeem(t, c)) \/ ReadCode(t) \/ CheckExpiry(t) \/ Provision(t)
    PROVE  Unmarked(t)
<1>. USE DEF At, Begin, codes, history
<1>0. job[t] \in Job /\ UNCHANGED <<pairings, used, devices, owner, revoked>>
  BY Works DEF BeginRedeem, ReadCode, CheckExpiry, Provision
<1>1. ASSUME NEW c \in Code, BeginRedeem(t, c) PROVE Unmarked(t)
  <2>. DEFINE j == [Idle EXCEPT !.at = "readCode", !.code = c]
  <2>1. Become(t, j) /\ job[t].at = "idle" /\ j.at = "readCode"
    BY <1>1 DEF BeginRedeem, Idle
  <2>2. Part(j) = Part(job[t])
    BY <2>1, Parts
  <2>3. QED BY <1>0, <2>1, <2>2, Quietly
<1>2. CASE ReadCode(t)
  <2>1. CASE pairings[job[t].code] = Nothing
    BY <1>0, <1>2, <2>1, Quietly DEF ReadCode
  <2>2. CASE pairings[job[t].code] # Nothing
    <3>. DEFINE j == [job[t] EXCEPT !.at = "claim", !.desktop = pairings[job[t].code]]
    <3>1. Become(t, j) /\ job[t].at = "readCode" /\ j.at = "claim"
      BY <1>0, <1>2, <2>2 DEF ReadCode, Job
    <3>2. Part(j) = Part(job[t])
      BY <3>1, Parts
    <3>3. QED BY <1>0, <1>2, <3>1, <3>2, Unseen DEF Unmarked
  <2>3. QED BY <2>1, <2>2
<1>3. CASE CheckExpiry(t)
  <2>1. CASE End(t)
    BY <1>0, <2>1, Quietly
  <2>2. CASE Go(t, "mint")
    <3>. DEFINE j == [job[t] EXCEPT !.at = "mint"]
    <3>1. Become(t, j) /\ job[t].at = "check" /\ j.at = "mint" /\ j.desktop = job[t].desktop
      BY <1>0, <1>3, <2>2 DEF CheckExpiry, Go, Job
    <3>2. Part(j) = Part(job[t])
      BY <3>1, Parts
    <3>3. QED BY <1>0, <3>1, <3>2, Quietly
  <2>3. QED BY <1>3, <2>1, <2>2 DEF CheckExpiry
<1>4. CASE Provision(t)
  BY <1>0, <1>4, Quietly DEF Provision
<1>5. QED BY <1>1, <1>2, <1>3, <1>4

LEMMA LookupMoves ==
    ASSUME TInv, NEW t \in Thread,
           (\E x \in Token : BeginAuth(t, x)) \/ ReadPlain(t) \/ Welcome(t) \/ HangUp(t)
           \/ (ReadDigest(t) /\ digests[job[t].token] \notin Desktop)
           \/ (Migrate(t) /\ plains[job[t].token] = Nothing)
    PROVE  Unmarked(t)
<1>. USE DEF At, Begin, codes, history, devices
<1>0. job[t] \in Job /\ UNCHANGED <<pairings, used, devices, owner, revoked>>
  BY Works DEF BeginAuth, ReadPlain, Welcome, HangUp, ReadDigest, Migrate
<1>1. ASSUME NEW x \in Token, BeginAuth(t, x) PROVE Unmarked(t)
  <2>. DEFINE j == [Idle EXCEPT !.at = "readDigest", !.token = x, !.barred = x \in revoked]
  <2>1. Become(t, j) /\ job[t].at = "idle" /\ j.at = "readDigest"
    BY <1>1 DEF BeginAuth, Idle
  <2>2. Part(j) = Part(job[t])
    BY <2>1, Parts
  <2>3. QED BY <1>0, <2>1, <2>2, Quietly
<1>2. CASE End(t)
  BY <1>0, <1>2, Quietly
<1>3. CASE ReadPlain(t) /\ ~End(t)
  <2>. DEFINE j == [job[t] EXCEPT !.at = "migrate", !.desktop = plains[job[t].token]]
  <2>1. Become(t, j) /\ job[t].at = "readPlain" /\ j.at = "migrate"
    BY <1>0, <1>3 DEF ReadPlain, Job
  <2>2. Part(j) = Part(job[t])
    BY <2>1, Parts
  <2>3. QED BY <1>0, <2>1, <2>2, Quietly
<1>4. CASE ReadDigest(t) /\ digests[job[t].token] \notin Desktop /\ ~End(t)
  <2>. DEFINE j == [job[t] EXCEPT !.at = "readPlain"]
  <2>1. Become(t, j) /\ job[t].at = "readDigest" /\ j.at = "readPlain"
    BY <1>0, <1>4 DEF ReadDigest, Go, Job
  <2>2. Part(j) = Part(job[t])
    BY <2>1, Parts
  <2>3. QED BY <1>0, <2>1, <2>2, Quietly
<1>5. CASE HangUp(t) \/ (Migrate(t) /\ plains[job[t].token] = Nothing)
  BY <1>2, <1>5 DEF HangUp, Migrate
<1>6. CASE Welcome(t)
  <2>. DEFINE j == [job[t] EXCEPT !.at = "serving"]
  <2>1. /\ Become(t, j) /\ job[t].at = "admit" /\ j.at = "serving"
        /\ j.token = job[t].token /\ j.desktop = job[t].desktop
    BY <1>0, <1>6 DEF Welcome, Go, Job
  <2>2. Part(j) = Part(job[t])
    BY <2>1, Parts
  <2>3. QED BY <1>0, <2>1, <2>2, Quietly
<1>7. QED BY <1>1, <1>2, <1>3, <1>4, <1>5, <1>6

(* Looking through the records is not seen, and failing ends the work.     *)
LEMMA ScanMoves ==
    ASSUME TInv, NEW t \in Thread, Scan(t) \/ List(t) \/ Find(t)
    PROVE  Unmarked(t)
<1>. USE DEF At, codes, history, devices
<1>0. job[t] \in Job /\ UNCHANGED <<pairings, used, devices, owner, revoked>>
  BY Works DEF Scan, List, Find
<1>1. ASSUME NEW j, Become(t, j), job[t].at \in {"scan", "list", "find"},
             j.at \in {"scan", "list", "find", "unlink", "unlinkFound"},
             j.desktop = job[t].desktop, j.victims = job[t].victims
      PROVE  Unmarked(t)
  <2>1. Part(j) = Part(job[t])
    BY <1>1, Parts
  <2>2. j.at # "claim"
    BY <1>1
  <2>3. QED BY <1>0, <1>1, <2>1, <2>2, Quietly
<1>2. CASE End(t)
  BY <1>0, <1>2, Quietly
<1>3. ASSUME job[t].at \in {"scan", "list"}, PassOver(t) \/ Vanished(t) PROVE Unmarked(t)
  <2>1. CASE PassOver(t)
    <3>1. PICK n : Become(t, [job[t] EXCEPT !.todo = @ \ {n}])
      BY <2>1 DEF PassOver
    <3>. DEFINE j == [job[t] EXCEPT !.todo = @ \ {n}]
    <3>2. j.at = job[t].at /\ j.desktop = job[t].desktop /\ j.victims = job[t].victims
      BY <1>0 DEF Job
    <3>3. Become(t, j)
      BY <3>1
    <3>. HIDE DEF j
    <3>4. QED BY <1>1, <1>3, <3>2, <3>3
  <2>2. CASE Vanished(t)
    BY <1>2, <2>2 DEF Vanished
  <2>3. QED BY <1>3, <2>1, <2>2
<1>4. CASE Scan(t)
  <2>1. ASSUME NEW n, Become(t, [job[t] EXCEPT !.at = "unlink", !.name = n, !.todo = @ \ {n}])
        PROVE  Unmarked(t)
    <3>. DEFINE j == [job[t] EXCEPT !.at = "unlink", !.name = n, !.todo = @ \ {n}]
    <3>1. j.at = "unlink" /\ j.desktop = job[t].desktop /\ j.victims = job[t].victims
      BY <1>0 DEF Job
    <3>2. Become(t, j) /\ job[t].at = "scan"
      BY <1>4, <2>1 DEF Scan
    <3>. HIDE DEF j
    <3>3. QED BY <1>1, <3>1, <3>2
  <2>2. job[t].at = "scan"
    BY <1>4 DEF Scan
  <2>3. QED BY <1>3, <1>4, <2>1, <2>2, Zenon DEF Scan
<1>5. CASE List(t)
  <2>1. ASSUME NEW n, Become(t, [job[t] EXCEPT !.todo = @ \ {n},
                                               !.found = @ \/ n[2] = job[t].token])
        PROVE  Unmarked(t)
    <3>. DEFINE j == [job[t] EXCEPT !.todo = @ \ {n}, !.found = @ \/ n[2] = job[t].token]
    <3>1. j.at = job[t].at /\ j.desktop = job[t].desktop /\ j.victims = job[t].victims
      BY <1>0 DEF Job
    <3>2. Become(t, j) /\ job[t].at = "list"
      BY <1>5, <2>1 DEF List
    <3>. HIDE DEF j
    <3>3. QED BY <1>1, <3>1, <3>2
  <2>2. ASSUME Go(t, "find") PROVE Unmarked(t)
    <3>. DEFINE j == [job[t] EXCEPT !.at = "find"]
    <3>1. j.at = "find" /\ j.desktop = job[t].desktop /\ j.victims = job[t].victims
      BY <1>0 DEF Job
    <3>2. Become(t, j) /\ job[t].at = "list"
      BY <1>5, <2>2 DEF List, Go
    <3>. HIDE DEF j
    <3>3. QED BY <1>1, <3>1, <3>2
  <2>3. job[t].at = "list"
    BY <1>5 DEF List
  <2>4. QED BY <1>2, <1>3, <1>5, <2>1, <2>2, <2>3, Zenon DEF List
<1>6. CASE Find(t) /\ ~End(t)
  <2>. DEFINE n == <<"digest", job[t].token>>
              j == [job[t] EXCEPT !.at = "unlinkFound", !.name = n]
  <2>1. Become(t, j) /\ job[t].at = "find"
    BY <1>6 DEF Find
  <2>2. j.at = "unlinkFound" /\ j.desktop = job[t].desktop /\ j.victims = job[t].victims
    BY <1>0 DEF Job
  <2>. HIDE DEF j
  <2>3. QED BY <1>1, <2>1, <2>2
<1>7. QED BY <1>2, <1>4, <1>5, <1>6

-----------------------------------------------------------------------------
(* The steps that Credentials sees.                                        *)
Marked(t) == Promised!Next /\ job'[t].at # "claim"

LEMMA ClaimMaps ==
    ASSUME RInv, NEW t \in Thread, Claim(t)
    PROVE  Marked(t)
<1>. USE DEF At, history, devices, codes
<1>0. TInv /\ TypeOK /\ ReadInv(t) /\ CodeInv /\ job[t] \in Job
      /\ job[t].code \in Code /\ job[t].at = "claim"
  BY Works DEF RInv, IInv, TInv, Claim, Holds
<1>1. CASE pairings[job[t].code] = Nothing
  <2>1. End(t) /\ UNCHANGED <<pairings, used, devices, owner, revoked>>
    BY <1>1 DEF Claim
  <2>2. QED BY <1>0, <2>1, Ended DEF Marked, Promised!Next
<1>2. CASE pairings[job[t].code] # Nothing
  <2>. DEFINE c == job[t].code
              j == [job[t] EXCEPT !.at = "check"]
  <2>1. /\ Become(t, j) /\ j.at = "check" /\ j.desktop = job[t].desktop
        /\ pairings' = [pairings EXCEPT ![c] = Nothing] /\ used' = used \cup {c}
        /\ UNCHANGED <<digests, plains, owner, revoked>>
    BY <1>0, <1>2 DEF Claim, Go, Job
  <2>2. pairings[c] = job[t].desktop
    BY <1>0, <1>2 DEF ReadInv, CodeInv
  <2>3. Part(j) = <<"claim", pairings[c]>>
    BY <2>1, <2>2, Parts
  <2>4. Roles' = [Roles EXCEPT ![t] = <<"claim", pairings[c]>>] /\ job'[t] = j
    BY <1>0, <2>1, <2>3, RoleTaken, Became
  <2>. HIDE DEF j
  <2>5. Promised!Take(t, c)
    BY <1>2, <2>1, <2>4, StandingKept DEF Promised!Take, Promised!Turns
  <2>6. QED BY <1>0, <2>1, <2>4, <2>5 DEF Marked, Promised!Next
<1>3. QED BY <1>1, <1>2

LEMMA MintMaps ==
    ASSUME RInv, NEW t \in Thread, Mint(t)
    PROVE  Marked(t)
<1>. USE NamesAssumption DEF At, history, devices, codes
<1>0. TInv /\ TypeOK /\ job[t] \in Job /\ job[t].desktop \in Desktop /\ job[t].at = "mint"
  BY Works DEF RInv, IInv, TInv, Mint, Holds
<1>1. PICK x \in Token :
         /\ owner[x] = Nothing /\ owner' = [owner EXCEPT ![x] = job[t].desktop]
         /\ digests' = [digests EXCEPT ![x] = "empty"]
         /\ Become(t, [job[t] EXCEPT !.at = "write", !.token = x])
  BY DEF Mint
<1>. DEFINE j == [job[t] EXCEPT !.at = "write", !.token = x]
<1>2. j.at = "write" /\ j.token = x
  BY <1>0 DEF Job
<1>3. Roles' = [Roles EXCEPT ![t] = <<"store", x>>] /\ job'[t] = j
  <2>1. Part(j) = <<"store", x>>
    BY <1>2, Parts
  <2>2. QED BY <1>0, <1>1, <2>1, RoleTaken, Became
<1>. HIDE DEF j
<1>4. Roles[t] = <<"claim", job[t].desktop>>
  BY <1>0, Parts, RoleOf
<1>5. Standing[x] = "free" /\ Standing' = [Standing EXCEPT ![x] = "drawn"]
  <2>1. /\ \A y \in Token \ {x} : /\ owner'[y] = owner[y] /\ digests'[y] = digests[y]
                                  /\ plains'[y] = plains[y]
        /\ owner'[x] = job[t].desktop /\ digests'[x] = "empty"
    BY <1>0, <1>1 DEF TypeOK, Mint
  <2>2. Standing[x] = "free" /\ Standing'[x] = "drawn"
    BY <1>0, <1>1, <2>1 DEF Standing
  <2>3. QED BY <2>1, <2>2, StandingSet
<1>6. UNCHANGED <<pairings, used, revoked>>
  BY DEF Mint
<1>7. Promised!Doing(t, "claim") /\ Roles[t][2] = job[t].desktop
  BY <1>4 DEF Promised!Doing
<1>8. Promised!Draw(t, x)
  BY <1>1, <1>3, <1>5, <1>6, <1>7 DEF Promised!Draw, Promised!Turns
<1>9. QED BY <1>2, <1>3, <1>8 DEF Marked, Promised!Next

LEMMA WriteMaps ==
    ASSUME RInv, NEW t \in Thread, Write(t)
    PROVE  Marked(t)
<1>. USE NamesAssumption DEF At, history, devices, codes
<1>. DEFINE x == job[t].token
            j == [job[t] EXCEPT !.at = "provision"]
<1>0. /\ TInv /\ TypeOK /\ job[t] \in Job /\ x \in Token /\ job[t].desktop \in Desktop
      /\ job[t].at = "write" /\ WriteInv
  BY Works DEF RInv, IInv, TInv, Write, Holds
<1>1. owner[x] = job[t].desktop /\ digests[x] = "empty"
  BY <1>0 DEF WriteInv, Writing
<1>2. /\ digests' = [digests EXCEPT ![x] = job[t].desktop] /\ Become(t, j) /\ j.at = "provision"
      /\ UNCHANGED <<pairings, used, plains, owner, revoked>>
  BY <1>0 DEF Write, Go, Job
<1>3. Roles' = [Roles EXCEPT ![t] = <<>>] /\ job'[t] = j
  <2>1. Part(j) = <<>>
    BY <1>2, Parts
  <2>2. QED BY <1>0, <1>2, <2>1, RoleTaken, Became
<1>. HIDE DEF j
<1>4. Roles[t] = <<"store", x>>
  BY <1>0, Parts, RoleOf
<1>5. Standing[x] = "drawn" /\ Standing' = [Standing EXCEPT ![x] = "good"]
  <2>1. /\ \A y \in Token \ {x} : /\ owner'[y] = owner[y] /\ digests'[y] = digests[y]
                                  /\ plains'[y] = plains[y]
        /\ owner'[x] = owner[x] /\ digests'[x] = job[t].desktop
    BY <1>0, <1>2 DEF TypeOK
  <2>2. Standing[x] = "drawn" /\ Standing'[x] = "good"
    BY <1>0, <1>1, <2>1 DEF Standing
  <2>3. QED BY <1>0, <2>1, <2>2, StandingSet
<1>6. Promised!Store(t, x)
  BY <1>2, <1>3, <1>4, <1>5 DEF Promised!Store, Promised!Turns
<1>7. QED BY <1>0, <1>2, <1>3, <1>6 DEF Marked, Promised!Next

(* A record that names a desktop is of a good token, its owner's.          *)
LEMMA OnRecord ==
    ASSUME IInv, NEW x \in Token
    PROVE  /\ \A d \in Desktop : digests[x] = d \/ plains[x] = d
                 <=> Standing[x] = "good" /\ owner[x] = d
           /\ owner[x] # Nothing /\ Gone(x) => Standing[x] = "gone"
BY NamesAssumption DEF IInv, TInv, TypeOK, RecordInv, Gone, Standing

LEMMA Served ==
    ASSUME IInv, NEW t \in Thread, Admit(t, owner[job[t].token]), job[t].token \in Token,
           job[t].at \in {"readDigest", "migrate"}, Standing[job[t].token] = "good",
           Standing' = Standing, UNCHANGED <<pairings, used, owner, revoked>>
    PROVE  Marked(t)
<1>. DEFINE x == job[t].token
            j == [job[t] EXCEPT !.at = "admit", !.desktop = owner[x]]
<1>1. job[t] \in Job /\ TInv
  BY Works DEF IInv
<1>2. Become(t, j) /\ j.at = "admit" /\ j.token = x /\ j.desktop = owner[x]
  BY <1>1 DEF Admit, Job
<1>3. Roles' = [Roles EXCEPT ![t] = <<"serve", x, owner[x]>>] /\ job'[t] = j
  <2>1. Part(j) = <<"serve", x, owner[x]>>
    BY <1>2, Parts
  <2>2. QED BY <1>1, <1>2, <2>1, RoleTaken, Became
<1>. HIDE DEF j
<1>4. Roles[t] = <<>>
  BY Parts, RoleOf
<1>5. Promised!Serve(t, x)
  BY <1>3, <1>4 DEF Promised!Serve, Promised!Turns
<1>6. QED BY <1>2, <1>3, <1>5 DEF Marked, Promised!Next

LEMMA AdmitMaps ==
    ASSUME RInv, NEW t \in Thread,
           \/ ReadDigest(t) /\ digests[job[t].token] \in Desktop
           \/ Migrate(t) /\ plains[job[t].token] # Nothing
    PROVE  Marked(t)
<1>. USE NamesAssumption DEF At, history, devices, codes
<1>. DEFINE x == job[t].token
<1>0. IInv /\ TypeOK /\ RecordInv /\ LookupInv(t) /\ Holds(job[t])
  BY Works DEF RInv, IInv, TInv, JobInv
<1>1. CASE ReadDigest(t) /\ digests[x] \in Desktop
  <2>1. /\ x \in Token /\ job[t].at = "readDigest" /\ Admit(t, digests[x])
        /\ UNCHANGED <<pairings, used, digests, plains, owner, revoked>>
    BY <1>0, <1>1 DEF ReadDigest, Holds
  <2>2. owner[x] = digests[x] /\ Standing[x] = "good"
    BY <1>0, <1>1, <2>1, OnRecord
  <2>3. QED BY <1>0, <2>1, <2>2, Served, StandingKept
<1>2. CASE Migrate(t) /\ plains[x] # Nothing
  <2>1. /\ x \in Token /\ job[t].at = "migrate" /\ Admit(t, job[t].desktop)
        /\ digests' = [digests EXCEPT ![x] = plains[x]]
        /\ plains' = [plains EXCEPT ![x] = Nothing]
        /\ UNCHANGED <<pairings, used, owner, revoked>>
    BY <1>0, <1>2 DEF Migrate, Holds
  <2>2. job[t].desktop = owner[x] /\ plains[x] = owner[x] /\ digests[x] = Nothing
        /\ owner[x] \in Desktop
    BY <1>0, <1>2, <2>1 DEF LookupInv, RecordInv, TypeOK
  <2>3. Standing[x] = "good"
    BY <1>0, <2>1, <2>2, OnRecord
  <2>4. Standing' = Standing
    BY <1>0, <2>1, <2>2 DEF Standing, TypeOK
  <2>5. QED BY <1>0, <2>1, <2>2, <2>3, <2>4, Served
<1>3. QED BY <1>1, <1>2

(* A revocation begins with the desktop's good tokens, or with one of them.*)
LEMMA Begun ==
    ASSUME IInv, NEW t \in Thread, NEW d \in Desktop, NEW j, Become(t, j), job[t].at = "idle",
           j.at \in {"scan", "list"}, j.desktop = d,
           j.victims \in {Promised!Good(d), {}} \cup {{x} : x \in Promised!Good(d)},
           UNCHANGED <<pairings, used, digests, plains, owner, revoked>>
    PROVE  Marked(t)
<1>1. TInv /\ Part(j) = <<"revoke", d, j.victims>>
  BY Parts DEF IInv
<1>2. Roles' = [Roles EXCEPT ![t] = <<"revoke", d, j.victims>>] /\ job'[t] = j
  BY <1>1, RoleTaken, Became
<1>3. Roles[t] = <<>>
  BY Parts, RoleOf
<1>4. Promised!Revoke(t, d)
  BY <1>2, <1>3, StandingKept DEF Promised!Revoke, Promised!Turns
<1>5. QED BY <1>2, <1>4 DEF Marked, Promised!Next

LEMMA BeginMaps ==
    ASSUME RInv, NEW t \in Thread, NEW d \in Desktop,
           BeginRevoke(t, d) \/ \E x \in Token : BeginRevokeDevice(t, d, x)
    PROVE  Marked(t)
<1>. USE DEF At, Begin, history, devices, codes
<1>0. IInv
  BY DEF RInv
<1>1. CASE BeginRevoke(t, d)
  <2>1. PICK N : Become(t, [Idle EXCEPT !.at = "scan", !.desktop = d,
                               !.victims = {x \in Token : d \in {digests[x], plains[x]}},
                               !.todo = N])
    BY <1>1 DEF BeginRevoke
  <2>. DEFINE j == [Idle EXCEPT !.at = "scan", !.desktop = d,
                               !.victims = {x \in Token : d \in {digests[x], plains[x]}},
                               !.todo = N]
  <2>2. /\ j.at = "scan" /\ j.desktop = d
        /\ j.victims = {x \in Token : d \in {digests[x], plains[x]}}
    BY DEF Idle
  <2>3. j.victims = Promised!Good(d)
    BY <1>0, <2>2, OnRecord DEF Promised!Good
  <2>4. Become(t, j)
    BY <2>1
  <2>. HIDE DEF j
  <2>5. job[t].at = "idle" /\ UNCHANGED <<pairings, used, digests, plains, owner, revoked>>
    BY <1>1 DEF BeginRevoke
  <2>6. QED BY <1>0, <2>2, <2>3, <2>4, <2>5, Begun
<1>2. ASSUME NEW x \in Token, BeginRevokeDevice(t, d, x) PROVE Marked(t)
  <2>1. PICK N : Become(t, [Idle EXCEPT !.at = "list", !.desktop = d, !.token = x,
                                 !.victims = {y \in {x} : digests[y] = d}, !.todo = N])
    BY <1>2 DEF BeginRevokeDevice
  <2>. DEFINE j == [Idle EXCEPT !.at = "list", !.desktop = d, !.token = x,
                                 !.victims = {y \in {x} : digests[y] = d}, !.todo = N]
  <2>2. /\ j.at = "list" /\ j.desktop = d /\ j.victims = {y \in {x} : digests[y] = d}
    BY DEF Idle
  <2>3. j.victims \in {{}} \cup {{y} : y \in Promised!Good(d)}
    <3>1. digests[x] = d => x \in Promised!Good(d)
      BY <1>0, OnRecord DEF Promised!Good
    <3>2. CASE digests[x] = d
      BY <2>2, <3>1, <3>2
    <3>3. CASE digests[x] # d
      BY <2>2, <3>3
    <3>4. QED BY <3>2, <3>3
  <2>4. Become(t, j)
    BY <2>1
  <2>. HIDE DEF j
  <2>5. job[t].at = "idle" /\ UNCHANGED <<pairings, used, digests, plains, owner, revoked>>
    BY <1>2 DEF BeginRevokeDevice
  <2>6. QED BY <1>0, <2>2, <2>3, <2>4, <2>5, Begun
<1>3. QED BY <1>1, <1>2

(* Removing a record that is there and complete takes its token away;      *)
(* removing one that is not there changes nothing.                         *)
LEMMA Removed ==
    ASSUME IInv, NEW n \in Name, Remove(n), owner' = owner
    PROVE  /\ Contents(n) = Nothing => UNCHANGED devices
           /\ Contents(n) # Nothing /\ digests[n[2]] # "empty"
                 => /\ n[2] \in Promised!Good(owner[n[2]])
                    /\ Standing' = [Standing EXCEPT ![n[2]] = "gone"]
<1>. DEFINE x == n[2]
<1>. USE NamesAssumption
<1>0. x \in Token /\ TypeOK /\ RecordInv
  BY DEF Name, IInv, TInv
<1>1. ASSUME Contents(n) = Nothing PROVE UNCHANGED devices
  BY <1>0, <1>1 DEF Contents, Remove, devices, TypeOK
<1>2. ASSUME Contents(n) # Nothing, digests[x] # "empty"
      PROVE  x \in Promised!Good(owner[x]) /\ Standing' = [Standing EXCEPT ![x] = "gone"]
  <2>1. /\ owner[x] \in Desktop /\ Contents(n) = owner[x]
        /\ n = <<"digest", x>> \/ n = <<"plain", x>>
    BY <1>0, <1>2, RecordOf DEF TypeOK
  <2>2. digests[x] = owner[x] \/ plains[x] = owner[x]
    BY <2>1 DEF Contents
  <2>3. Standing[x] = "good"
    BY <1>0, <2>1, <2>2, OnRecord
  <2>4. Gone(x)' /\ \A y \in Token \ {x} : digests'[y] = digests[y] /\ plains'[y] = plains[y]
    BY <1>2, Removal
  <2>5. Standing' = [Standing EXCEPT ![x] = "gone"]
    <3>1. Standing'[x] = "gone"
      BY <1>0, <2>1, <2>4 DEF Standing, Gone
    <3>2. QED BY <1>0, <2>4, <3>1, StandingSet
  <2>6. QED BY <1>0, <2>3, <2>5 DEF Promised!Good
<1>3. QED BY <1>1, <1>2

LEMMA UnlinkMaps ==
    ASSUME RInv, NEW t \in Thread, Unlink(t)
    PROVE  Marked(t)
<1>. USE DEF At, history, codes
<1>. DEFINE n == job[t].name
            x == n[2]
<1>0. /\ IInv /\ TInv /\ job[t] \in Job /\ job[t].at = "unlink" /\ n \in Name
      /\ owner[x] = job[t].desktop /\ digests[x] # "empty"
      /\ UNCHANGED <<pairings, used, owner, revoked>> /\ Remove(n)
  BY Works DEF RInv, IInv, JobInv, ScanInv, Unlink, Holds
<1>1. CASE Contents(n) = Nothing
  <2>1. End(t) /\ UNCHANGED devices
    BY <1>0, <1>1, Removed DEF Unlink
  <2>2. QED BY <1>0, <2>1, Ended DEF Marked, Promised!Next
<1>2. CASE Contents(n) # Nothing
  <2>. DEFINE j == [job[t] EXCEPT !.at = "scan", !.name = Nothing]
  <2>1. /\ Become(t, j) /\ j.at = "scan" /\ j.desktop = job[t].desktop
        /\ j.victims = job[t].victims
    BY <1>0, <1>2 DEF Unlink, Job
  <2>. HIDE DEF j
  <2>2. Part(j) = Part(job[t]) /\ Roles[t] = <<"revoke", job[t].desktop, job[t].victims>>
    BY <1>0, <2>1, Parts, RoleOf
  <2>3. Roles' = Roles /\ job'[t] = j
    BY <1>0, <2>1, <2>2, RoleKept, Became
  <2>4. x \in Promised!Good(Roles[t][2]) /\ Standing' = [Standing EXCEPT ![x] = "gone"]
    BY <1>0, <1>2, <2>2, Removed
  <2>5. Promised!Doing(t, "revoke")
    BY <2>2 DEF Promised!Doing
  <2>6. Promised!Removes(Roles[t][2])
    BY Zenon, <2>4 DEF Promised!Removes
  <2>7. Promised!Remove(t)
    BY <1>0, <2>3, <2>5, <2>6 DEF Promised!Remove
  <2>8. QED BY <2>1, <2>3, <2>7 DEF Marked, Promised!Next
<1>3. QED BY <1>1, <1>2

(* A revocation is answered when all its victims are gone.                 *)
LEMMA Answered ==
    ASSUME TInv, NEW t \in Thread, End(t), UNCHANGED <<pairings, used, owner>>,
           job[t].at \in {"scan", "unlinkFound"}, Promised!Removes(job[t].desktop),
           \A x \in job[t].victims : Standing'[x] = "gone",
           revoked' = revoked \cup job[t].victims
    PROVE  Marked(t)
<1>1. Part(Idle) = <<>> /\ Become(t, Idle) /\ Idle.at = "idle"
  BY Parts DEF Idle, End
<1>2. Roles' = [Roles EXCEPT ![t] = <<>>] /\ job'[t] = Idle
  BY <1>1, RoleTaken, Became
<1>3. Roles[t] = <<"revoke", job[t].desktop, job[t].victims>>
  BY Parts, RoleOf
<1>4. Promised!Answer(t)
  BY <1>2, <1>3 DEF Promised!Answer, Promised!Doing, Promised!Turns
<1>5. QED BY <1>1, <1>2, <1>4 DEF Marked, Promised!Next

LEMMA AnswerMaps ==
    ASSUME RInv, NEW t \in Thread, FinishRevoke(t) \/ UnlinkFound(t)
    PROVE  Marked(t)
<1>. USE DEF At, history, codes, devices
<1>0. IInv /\ TInv /\ job[t] \in Job /\ UNCHANGED <<pairings, used, owner>> /\ End(t)
  BY Works DEF RInv, IInv, FinishRevoke, UnlinkFound
<1>1. CASE FinishRevoke(t)
  <2>1. ScanInv(t) /\ job[t].at = "scan" /\ Pending(t) = {} /\ job[t].victims \subseteq Token
    BY <1>0, <1>1 DEF IInv, JobInv, FinishRevoke, Pending, Job
  <2>2. \A x \in job[t].victims : owner[x] # Nothing /\ Gone(x)
    BY <2>1 DEF ScanInv
  <2>3. \A x \in job[t].victims : Standing[x] = "gone"
    BY <1>0, <2>1, <2>2, OnRecord
  <2>4. Standing' = Standing /\ revoked' = revoked \cup job[t].victims
    BY <1>1, StandingKept DEF FinishRevoke
  <2>5. QED BY <1>0, <2>1, <2>3, <2>4, Answered DEF Promised!Removes
<1>2. CASE UnlinkFound(t)
  <2>. DEFINE x == job[t].token
              n == <<"digest", x>>
  <2>1. /\ job[t].at = "unlinkFound" /\ job[t].name = n /\ n \in Name /\ n[2] = x
        /\ owner[x] = job[t].desktop /\ digests[x] # "empty"
        /\ job[t].victims \subseteq {x} /\ x \in Token /\ Remove(n)
    BY <1>0, <1>2, Works DEF IInv, JobInv, DeviceInv, UnlinkFound, Holds, Name
  <2>2. CASE Contents(n) = Nothing
    <3>1. UNCHANGED devices /\ revoked' = revoked
      BY <1>0, <1>2, <2>1, <2>2, Removed DEF UnlinkFound
    <3>2. QED BY <1>0, <3>1, Ended DEF Marked, Promised!Next
  <2>3. CASE Contents(n) # Nothing
    <3>1. x \in Promised!Good(job[t].desktop) /\ Standing' = [Standing EXCEPT ![x] = "gone"]
      BY <1>0, <2>1, <2>3, Removed
    <3>2. Standing'[x] = "gone" /\ Promised!Removes(job[t].desktop)
      BY <2>1, <3>1 DEF Promised!Removes, Standing
    <3>3. revoked' = revoked \cup job[t].victims
      BY <1>2, <2>1, <2>3 DEF UnlinkFound
    <3>4. QED BY <1>0, <2>1, <3>2, <3>3, Answered
  <2>4. QED BY <2>2, <2>3
<1>3. QED BY <1>1, <1>2

-----------------------------------------------------------------------------
(* Every step of a thread maps.                                            *)
LEMMA ThreadMaps ==
    ASSUME RInv, NEW t \in Thread, ThreadStep(t)
    PROVE  Unmarked(t) \/ Marked(t)
<1>0. TInv
  BY DEF RInv, IInv
<1>1. CASE ReadDigest(t)
  BY <1>0, <1>1, LookupMoves, AdmitMaps
<1>2. CASE Migrate(t)
  BY <1>0, <1>2, LookupMoves, AdmitMaps
<1>3. QED BY <1>0, <1>1, <1>2, RedeemMoves, LookupMoves, ScanMoves, ClaimMaps, MintMaps,
             WriteMaps, BeginMaps, UnlinkMaps, AnswerMaps DEF ThreadStep

(* What was read of a code stays true, or the code is used.                *)
LEMMA ReadKept ==
    ASSUME TInv, NEW u \in Thread, ReadInv(u), job'[u] = job[u], used \subseteq used',
           \A c \in Code \ used' : pairings[c] # Nothing => pairings'[c] = pairings[c]
    PROVE  ReadInv(u)'
BY NamesAssumption, Works DEF ReadInv, Holds

LEMMA ReadStep == RInv /\ [Next]_vars => \A u \in Thread : ReadInv(u)'
<1>. SUFFICES ASSUME RInv, [Next]_vars, NEW u \in Thread PROVE ReadInv(u)'
  OBVIOUS
<1>. USE DEF codes
<1>0. TInv /\ TypeOK /\ ReadInv(u)
  BY DEF RInv, IInv, TInv
<1>1. CASE Tick \/ UNCHANGED vars
  <2>1. UNCHANGED <<pairings, used, job>>
    BY <1>1 DEF Tick, vars
  <2>2. QED BY <1>0, <2>1, ReadKept
<1>2. CASE Crash
  BY <1>2 DEF Crash, ReadInv, Idle
<1>3. ASSUME NEW c \in Code, NEW d \in Desktop, Create(c, d) PROVE ReadInv(u)'
  <2>1. job' = job /\ used' = used /\ pairings[c] = Nothing
        /\ pairings' = [pairings EXCEPT ![c] = d]
    BY <1>3 DEF Create
  <2>2. \A e \in Code : pairings[e] # Nothing => pairings'[e] = pairings[e]
    BY <1>0, <2>1 DEF TypeOK
  <2>3. QED BY <1>0, <2>1, <2>2, ReadKept
<1>4. ASSUME NEW t \in Thread, ThreadStep(t) PROVE ReadInv(u)'
  <2>1. /\ used \subseteq used'
        /\ \A c \in Code \ used' : pairings[c] # Nothing => pairings'[c] = pairings[c]
    <3>1. CASE Claim(t)
      BY <1>0, <3>1 DEF Claim, TypeOK
    <3>2. CASE ~Claim(t)
      BY <1>0, <1>4, <3>2, QuietSteps DEF Quiet, CheckExpiry, Mint
    <3>3. QED BY <3>1, <3>2
  <2>2. CASE u # t
    BY <1>0, <1>4, <2>1, <2>2, OthersWork, ReadKept
  <2>3. CASE u = t /\ job'[t].at = "claim"
    <3>1. ReadCode(t)
      BY <1>4, <2>3, ThreadMaps DEF Unmarked, Marked
    <3>2. job'[t].at # "idle"
      BY <2>3
    <3>3. Idle.at = "idle" /\ job[t] \in Job /\ UNCHANGED codes
      BY <1>0, <3>1, Works DEF Idle, ReadCode
    <3>4. job'[t] = [job[t] EXCEPT !.at = "claim", !.desktop = pairings[job[t].code]]
      BY <1>0, <3>1, <3>2, <3>3, Became DEF ReadCode, End
    <3>5. job'[t].code = job[t].code /\ job'[t].desktop = pairings[job[t].code]
      BY <3>3, <3>4 DEF Job
    <3>6. QED BY <2>3, <3>3, <3>5 DEF ReadInv
  <2>4. QED BY <2>2, <2>3 DEF ReadInv
<1>5. QED BY <1>1, <1>2, <1>3, <1>4, NextSteps

LEMMA RInvStep == RInv /\ [Next]_vars => RInv'
BY IInvStep, ReadStep DEF RInv

LEMMA StepMaps == RInv /\ [Next]_vars => [Promised!Next]_Seen
<1>. SUFFICES ASSUME RInv, [Next]_vars PROVE Promised!Next \/ UNCHANGED Seen
  OBVIOUS
<1>. USE DEF codes, devices, history
<1>0. TInv /\ TypeOK
  BY DEF RInv, IInv, TInv
<1>1. CASE Tick \/ UNCHANGED vars
  <2>1. UNCHANGED <<pairings, used, digests, plains, owner, revoked, job>>
    BY <1>1 DEF Tick, vars
  <2>2. QED BY <2>1 DEF Seen, Standing, Roles
<1>2. CASE Crash
  <2>1. UNCHANGED <<pairings, used, digests, plains, owner, revoked>>
        /\ job' = [t \in Thread |-> Idle]
    BY <1>2 DEF Crash
  <2>2. Part(Idle) = <<>>
    BY Parts DEF Idle
  <2>3. Roles' = [t \in Thread |-> <<>>]
    BY <2>1, <2>2 DEF Roles
  <2>4. QED BY <2>1, <2>3, StandingKept DEF Promised!Next, Promised!Die
<1>3. ASSUME NEW c \in Code, NEW d \in Desktop, Create(c, d) PROVE Promised!Next
  <2>1. UNCHANGED <<used, digests, plains, owner, revoked, job>>
    BY <1>3 DEF Create
  <2>2. Roles' = Roles /\ Standing' = Standing
    BY <2>1 DEF Roles, Standing
  <2>3. Promised!Offer(c, d)
    BY <1>3, <2>1, <2>2 DEF Create, Promised!Offer
  <2>4. QED BY <2>3 DEF Promised!Next
<1>4. ASSUME NEW t \in Thread, ThreadStep(t) PROVE Promised!Next \/ UNCHANGED Seen
  <2>1. Promised!End(t) => Promised!Next
    BY DEF Promised!Next
  <2>2. QED BY <1>4, <2>1, ThreadMaps DEF Unmarked, Marked
<1>5. QED BY <1>1, <1>2, <1>3, <1>4, NextSteps

LEMMA InitMaps == Init => RInv /\ Promised!Init
<1>. SUFFICES ASSUME Init PROVE RInv /\ Promised!Init
  OBVIOUS
<1>1. RInv
  BY InitTyped, InitCodes, InitRecords DEF RInv, IInv, ReadInv, Init, Idle
<1>2. Part(Idle) = <<>>
  BY Parts DEF Idle
<1>3. Roles = [t \in Thread |-> <<>>]
  BY <1>2 DEF Roles, Init
<1>4. Standing = [x \in Token |-> IF x \in Legacy THEN "good" ELSE "free"]
  BY NamesAssumption DEF Standing, Init
<1>5. QED BY <1>1, <1>3, <1>4 DEF Init, Promised!Init

(* The store's threads, between whose reads, renames and removals anything *)
(* may happen, do what Credentials promises: a code is taken once, whoever *)
(* is admitted has a token that is good at that moment, and a revocation   *)
(* is answered with its tokens gone for good (pairing.rs 49-223,           *)
(* protocol.rs 73-111).                                                    *)
THEOREM CredentialsRefinement == Spec => ImplementsCredentials
BY InitMaps, RInvStep, StepMaps, PTL DEF Spec, ImplementsCredentials, Promised!Spec,
                                         Promised!vars, Seen
=============================================================================
