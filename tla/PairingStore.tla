----------------------------- MODULE PairingStore -----------------------------
(***************************************************************************)
(* Pairing codes and device credentials (src/pairing.rs, with the calls    *)
(* SessionManager makes): files in three directories, and the threads of   *)
(* the daemon that redeem codes, look up tokens, serve whoever has a good  *)
(* one and revoke devices, with no lock between them.  One step is one     *)
(* effect on the file system, so everything a thread has read may be       *)
(* stale when it acts on it.                                               *)
(*                                                                         *)
(* A token stands for its SHA-256 digest and for the sixteen digits of it  *)
(* that name a device; two names of a record differ in being the digest or *)
(* the plain token of older builds.  A directory is listed in one step.    *)
(***************************************************************************)
EXTENDS Naturals, FiniteSets

CONSTANTS
    Thread,     \* threads of the daemon
    Code,       \* pairing codes, each drawn once
    Token,      \* bearer tokens, each drawn once
    Desktop,
    Nothing,    \* no code, no token, no desktop, no record
    Legacy,     \* the tokens an older build stored
    LegacyDesktop,
    Lifetime,   \* PAIRING_LIFETIME_SECONDS, in clock ticks
    MaxTime,    \* bound: the clock stops here
    MaxCrashes  \* bound: crashes of the daemon

ASSUME NamesAssumption ==
    /\ Nothing \notin Code \cup Token \cup Desktop \cup {"empty"}
    /\ "empty" \notin Desktop /\ LegacyDesktop \in Desktop
    /\ Legacy \subseteq Token
ASSUME TimeAssumption == {Lifetime, MaxTime, MaxCrashes} \subseteq Nat

VARIABLES
    now,
    pairings, \* pairings/: what each code was created for
    expires,  \* and until when it may be redeemed
    used,     \* pairings-used/
    digests,  \* devices/sha256-<digest>: the desktop written in each record
    plains,   \* devices/<token>: records of older builds
    job,      \* what each thread is doing
    known,    \* tokens that were answered to a client
    owner,    \* history: the desktop each token was minted for
    source,   \* history: the code each token was minted for
    targeted, \* history: tokens whose revocation was begun
    revoked,  \* history: tokens on record when a revocation of them began
              \* that was answered OK
    late,     \* history: codes claimed when they had expired
    crashes

codes   == <<pairings, expires, used>>
devices == <<digests, plains>>
history == <<known, owner, source, targeted, revoked, late>>
vars == <<now, codes, devices, job, history, crashes>>

Step == {"idle", "readCode", "claim", "check", "mint", "write", "provision",
         "readDigest", "readPlain", "migrate", "admit", "serving",
         "list", "find", "scan", "unlink", "unlinkFound"}
Name == {"digest", "plain"} \X Token
Job == [at : Step, code : Code \cup {Nothing}, token : Token \cup {Nothing},
        desktop : Desktop \cup {Nothing}, todo : SUBSET Name, name : Name \cup {Nothing},
        found : BOOLEAN, victims : SUBSET Token,
        barred : BOOLEAN]   \* history: the token was revoked before its lookup began
Idle == [at |-> "idle", code |-> Nothing, token |-> Nothing, desktop |-> Nothing,
         todo |-> {}, name |-> Nothing, found |-> FALSE, victims |-> {}, barred |-> FALSE]

At(t, step) == job[t].at = step
Become(t, work) == job' = [job EXCEPT ![t] = work]
Begin(t, work) == At(t, "idle") /\ Become(t, work)
Go(t, step) == Become(t, [job[t] EXCEPT !.at = step])
End(t) == Become(t, Idle)

(* The contents of a device record, or Nothing when the file is not there. *)
Contents(name) == IF name[1] = "digest" THEN digests[name[2]] ELSE plains[name[2]]

(* Mutant of Remove: the record is emptied, not unlinked.                  *)
RemoveTruncates(name) ==
    /\ digests' = IF name[1] = "digest" THEN [digests EXCEPT ![name[2]] = "empty"] ELSE digests
    /\ plains' = IF name[1] = "plain" THEN [plains EXCEPT ![name[2]] = "empty"] ELSE plains

Remove(name) ==
    /\ digests' = IF name[1] = "digest" THEN [digests EXCEPT ![name[2]] = Nothing] ELSE digests
    /\ plains' = IF name[1] = "plain" THEN [plains EXCEPT ![name[2]] = Nothing] ELSE plains

-----------------------------------------------------------------------------
(* create: `multidesktopd pair', a process of its own.  Nobody knows the   *)
(* code before it is printed, so that its two writes are one step.         *)
Create(c, d) ==
    /\ pairings[c] = Nothing /\ c \notin used
    /\ pairings' = [pairings EXCEPT ![c] = d]
    /\ expires' = [expires EXCEPT ![c] = now + Lifetime]
    /\ UNCHANGED <<now, used, devices, job, history, crashes>>

(* redeem: read the code's record ...                                      *)
BeginRedeem(t, c) ==
    /\ Begin(t, [Idle EXCEPT !.at = "readCode", !.code = c])
    /\ UNCHANGED <<now, codes, devices, history, crashes>>

ReadCode(t) ==
    /\ At(t, "readCode")
    /\ \/ /\ pairings[job[t].code] # Nothing
          /\ Become(t, [job[t] EXCEPT !.at = "claim", !.desktop = pairings[job[t].code]])
       \/ pairings[job[t].code] = Nothing /\ End(t)
    /\ UNCHANGED <<now, codes, devices, history, crashes>>

Late(c) == IF now > expires[c] THEN {c} ELSE {}

(* Mutant of Claim: whoever read the code may use it.                      *)
ClaimRead(t) ==
    /\ At(t, "claim")
    /\ Go(t, "check")
    /\ pairings' = [pairings EXCEPT ![job[t].code] = Nothing]
    /\ used' = used \cup {job[t].code}
    /\ late' = late \cup Late(job[t].code)
    /\ UNCHANGED <<now, expires, devices, known, owner, source, targeted, revoked, crashes>>

(* ... rename it out of the way, which only one thread can do ...          *)
Claim(t) ==
    /\ At(t, "claim")
    /\ \/ /\ pairings[job[t].code] # Nothing
          /\ pairings' = [pairings EXCEPT ![job[t].code] = Nothing]
          /\ used' = used \cup {job[t].code}
          /\ late' = late \cup Late(job[t].code)
          /\ Go(t, "check")
       \/ /\ pairings[job[t].code] = Nothing
          /\ End(t)
          /\ UNCHANGED <<pairings, used, late>>
    /\ UNCHANGED <<now, expires, devices, known, owner, source, targeted, revoked, crashes>>

(* Mutant of CheckExpiry: a code that was claimed is good.                 *)
CheckNothing(t) ==
    /\ At(t, "check")
    /\ Go(t, "mint")
    /\ UNCHANGED <<now, codes, devices, history, crashes>>

(* ... see whether it has expired by now ...                               *)
CheckExpiry(t) ==
    /\ At(t, "check")
    /\ IF now > expires[job[t].code] THEN End(t) ELSE Go(t, "mint")
    /\ UNCHANGED <<now, codes, devices, history, crashes>>

(* ... draw a token and create its record ...                              *)
Mint(t) ==
    /\ At(t, "mint")
    /\ \E x \in Token :
          /\ owner[x] = Nothing
          /\ owner' = [owner EXCEPT ![x] = job[t].desktop]
          /\ source' = [source EXCEPT ![x] = job[t].code]
          /\ digests' = [digests EXCEPT ![x] = "empty"]
          /\ Become(t, [job[t] EXCEPT !.at = "write", !.token = x])
    /\ UNCHANGED <<now, codes, plains, known, targeted, revoked, late, crashes>>

(* ... write the desktop into it ...                                       *)
Write(t) ==
    /\ At(t, "write")
    /\ digests' = [digests EXCEPT ![job[t].token] = job[t].desktop]
    /\ Go(t, "provision")
    /\ UNCHANGED <<now, codes, plains, history, crashes>>

(* ... and answer the token, unless the desktop cannot be provisioned.     *)
Provision(t) ==
    /\ At(t, "provision")
    /\ End(t)
    /\ \E answered \in {{}, {job[t].token}} : known' = known \cup answered
    /\ UNCHANGED <<now, codes, devices, owner, source, targeted, revoked, late, crashes>>

-----------------------------------------------------------------------------
(* desktop_for_token: look the digest up, then the plain token, and rename *)
(* the record of an older build.                                           *)
BeginAuth(t, x) ==
    /\ x \in known
    /\ Begin(t, [Idle EXCEPT !.at = "readDigest", !.token = x, !.barred = x \in revoked])
    /\ UNCHANGED <<now, codes, devices, history, crashes>>

(* The lookup's answer: the connection is the desktop's from now on,       *)
(* whatever becomes of the record.                                         *)
Admit(t, d) == Become(t, [job[t] EXCEPT !.at = "admit", !.desktop = d])

ReadDigest(t) ==
    /\ At(t, "readDigest")
    /\ \/ digests[job[t].token] \in Desktop /\ Admit(t, digests[job[t].token])
       \/ digests[job[t].token] = "empty" /\ End(t)
       \/ digests[job[t].token] = Nothing /\ Go(t, "readPlain")
    /\ UNCHANGED <<now, codes, devices, history, crashes>>

ReadPlain(t) ==
    /\ At(t, "readPlain")
    /\ \/ /\ plains[job[t].token] # Nothing
          /\ Become(t, [job[t] EXCEPT !.at = "migrate", !.desktop = plains[job[t].token]])
       \/ plains[job[t].token] = Nothing /\ End(t)
    /\ UNCHANGED <<now, codes, devices, history, crashes>>

(* Mutant of Migrate: a new record is written and the old one removed.     *)
MigrateCopies(t) ==
    LET x == job[t].token
    IN  /\ At(t, "migrate")
        /\ digests' = [digests EXCEPT ![x] = job[t].desktop]
        /\ plains' = [plains EXCEPT ![x] = Nothing]
        /\ Admit(t, job[t].desktop)
        /\ UNCHANGED <<now, codes, history, crashes>>

Migrate(t) ==
    LET x == job[t].token
    IN  /\ At(t, "migrate")
        /\ \/ /\ plains[x] # Nothing
              /\ digests' = [digests EXCEPT ![x] = plains[x]]
              /\ plains' = [plains EXCEPT ![x] = Nothing]
              /\ Admit(t, job[t].desktop)
           \/ plains[x] = Nothing /\ UNCHANGED devices /\ End(t)
        /\ UNCHANGED <<now, codes, history, crashes>>

(* OK authenticated, with no second look at the record.                    *)
Welcome(t) ==
    /\ At(t, "admit")
    /\ Go(t, "serving")
    /\ UNCHANGED <<now, codes, devices, history, crashes>>

(* The connection ends, if need be before the OK can be written.           *)
HangUp(t) ==
    /\ At(t, "admit") \/ At(t, "serving")
    /\ End(t)
    /\ UNCHANGED <<now, codes, devices, history, crashes>>

(* With this step the thread refuses an AUTH, by "unauthorized" or by the  *)
(* error of the lookup.                                                    *)
Refuses(t) == \/ At(t, "readDigest") /\ digests[job[t].token] = "empty"
              \/ At(t, "readPlain") /\ plains[job[t].token] = Nothing
              \/ At(t, "migrate") /\ plains[job[t].token] = Nothing

-----------------------------------------------------------------------------
(* Mutant of RecordNames: only records of this build.                      *)
RecordNamesNew(kinds) == {<<"digest", x>> : x \in {y \in Token : digests[y] # Nothing}}

(* read_dir, filtered by the kinds of record name a caller accepts.        *)
RecordNames(kinds) == {name \in kinds \X Token : Contents(name) # Nothing}

(* revoke_desktop_tokens: for every record, read it and, if it is the      *)
(* desktop's, remove it.  A record that is gone by then is an error.       *)
BeginRevoke(t, d) ==
    LET paired == {x \in Token : owner[x] = d}
    IN  /\ Begin(t, [Idle EXCEPT !.at = "scan", !.desktop = d,
                                 !.victims = {x \in Token : d \in {digests[x], plains[x]}},
                                 !.todo = RecordNames({"digest", "plain"})])
        /\ targeted' = targeted \cup paired
        /\ UNCHANGED <<now, codes, devices, known, owner, source, revoked, late, crashes>>

(* Mutant of Mine: every desktop's records are taken.                      *)
MineAnyway(t, name) == Contents(name) # "empty"

Mine(t, name) == Contents(name) = job[t].desktop

(* The next record of a scan is gone, which fails the whole command, or it *)
(* is another desktop's.                                                   *)
Vanished(t) == \E name \in job[t].todo : Contents(name) = Nothing /\ End(t)
PassOver(t) == \E name \in job[t].todo :
                  /\ Contents(name) # Nothing /\ ~Mine(t, name)
                  /\ Become(t, [job[t] EXCEPT !.todo = @ \ {name}])

Scan(t) ==
    /\ At(t, "scan")
    /\ \/ Vanished(t) \/ PassOver(t)
       \/ \E name \in job[t].todo :
             /\ Contents(name) # Nothing /\ Mine(t, name)
             /\ Become(t, [job[t] EXCEPT !.at = "unlink", !.name = name,
                                         !.todo = @ \ {name}])
    /\ UNCHANGED <<now, codes, devices, history, crashes>>

Unlink(t) ==
    /\ At(t, "unlink")
    /\ Remove(job[t].name)
    /\ \/ Contents(job[t].name) # Nothing
          /\ Become(t, [job[t] EXCEPT !.at = "scan", !.name = Nothing])
       \/ Contents(job[t].name) = Nothing /\ End(t)
    /\ UNCHANGED <<now, codes, history, crashes>>

(* OK revoked-devices.                                                     *)
FinishRevoke(t) ==
    /\ At(t, "scan") /\ job[t].todo = {}
    /\ revoked' = revoked \cup job[t].victims
    /\ End(t)
    /\ UNCHANGED <<now, codes, devices, known, owner, source, targeted, late, crashes>>

(* revoke_device: list the desktop's devices, then look for the one device *)
(* again and remove its record.  Records of older builds are not seen.     *)
BeginRevokeDevice(t, d, x) ==
    LET paired == {y \in {x} : owner[y] = d}
    IN  /\ owner[x] # Nothing
        /\ Begin(t, [Idle EXCEPT !.at = "list", !.desktop = d, !.token = x,
                                 !.victims = {y \in {x} : digests[y] = d},
                                 !.todo = RecordNames({"digest"})])
        /\ targeted' = targeted \cup paired
        /\ UNCHANGED <<now, codes, devices, known, owner, source, revoked, late, crashes>>

List(t) ==
    /\ At(t, "list")
    /\ \/ Vanished(t) \/ PassOver(t)
       \/ \E name \in job[t].todo :
             /\ Contents(name) # Nothing /\ Mine(t, name)
             /\ Become(t, [job[t] EXCEPT !.todo = @ \ {name},
                                         !.found = @ \/ name[2] = job[t].token])
       \/ job[t].todo = {} /\ job[t].found /\ Go(t, "find")
       \/ job[t].todo = {} /\ ~job[t].found /\ End(t)
    /\ UNCHANGED <<now, codes, devices, history, crashes>>

(* The second pass reads only the device's record; then "device not found" *)
(* and a failed read or removal are answered alike.                        *)
Find(t) ==
    LET name == <<"digest", job[t].token>>
    IN  /\ At(t, "find")
        /\ \/ Mine(t, name) /\ Become(t, [job[t] EXCEPT !.at = "unlinkFound", !.name = name])
           \/ ~Mine(t, name) /\ End(t)
        /\ UNCHANGED <<now, codes, devices, history, crashes>>

UnlinkFound(t) ==
    /\ At(t, "unlinkFound")
    /\ Remove(job[t].name)
    /\ revoked' = IF Contents(job[t].name) = Nothing THEN revoked
                  ELSE revoked \cup job[t].victims
    /\ End(t)
    /\ UNCHANGED <<now, codes, known, owner, source, targeted, late, crashes>>

-----------------------------------------------------------------------------
(* The daemon dies between any two steps of its threads; files stay.       *)
Crash ==
    /\ crashes < MaxCrashes
    /\ crashes' = crashes + 1
    /\ job' = [t \in Thread |-> Idle]
    /\ UNCHANGED <<now, codes, devices, history>>

Tick ==
    /\ now < MaxTime
    /\ now' = now + 1
    /\ UNCHANGED <<codes, devices, job, history, crashes>>

Init ==
    /\ now = 0 /\ crashes = 0
    /\ pairings = [c \in Code |-> Nothing] /\ expires = [c \in Code |-> 0] /\ used = {}
    /\ digests = [x \in Token |-> Nothing]
    /\ plains = [x \in Token |-> IF x \in Legacy THEN LegacyDesktop ELSE Nothing]
    /\ job = [t \in Thread |-> Idle]
    /\ known = Legacy
    /\ owner = plains /\ source = [x \in Token |-> Nothing]
    /\ targeted = {} /\ revoked = {} /\ late = {}

Request(t) == \/ \E c \in Code : BeginRedeem(t, c)
              \/ \E x \in Token : BeginAuth(t, x)
              \/ \E d \in Desktop : BeginRevoke(t, d)
                                     \/ \E x \in Token : BeginRevokeDevice(t, d, x)

Redeem(t) == ReadCode(t) \/ Claim(t) \/ CheckExpiry(t) \/ Mint(t) \/ Write(t) \/ Provision(t)
DesktopForToken(t) == ReadDigest(t) \/ ReadPlain(t) \/ Migrate(t) \/ Welcome(t) \/ HangUp(t)
RevokeDesktopTokens(t) == Scan(t) \/ Unlink(t) \/ FinishRevoke(t)
RevokeDevice(t) == List(t) \/ Find(t) \/ UnlinkFound(t)

Next == \/ Crash \/ Tick
        \/ \E c \in Code, d \in Desktop : Create(c, d)
        \/ \E t \in Thread : \/ Request(t) \/ Redeem(t) \/ DesktopForToken(t)
                             \/ RevokeDesktopTokens(t) \/ RevokeDevice(t)

Spec == Init /\ [][Next]_vars

-----------------------------------------------------------------------------
TypeOK ==
    /\ now \in Nat /\ crashes \in Nat
    /\ pairings \in [Code -> Desktop \cup {Nothing}] /\ expires \in [Code -> Nat]
    /\ used \subseteq Code
    /\ digests \in [Token -> Desktop \cup {Nothing, "empty"}]
    /\ plains \in [Token -> Desktop \cup {Nothing}]
    /\ job \in [Thread -> Job]
    /\ known \subseteq Token /\ targeted \subseteq Token /\ revoked \subseteq Token
    /\ late \subseteq Code
    /\ owner \in [Token -> Desktop \cup {Nothing}]
    /\ source \in [Token -> Code \cup {Nothing}]

(* A pairing code yields one credential, however many threads redeem it    *)
(* and wherever the daemon dies (pairing.rs 69-106).                       *)
SingleUse ==
    \A x, y \in Token : (source[x] = source[y] /\ source[x] # Nothing) => x = y

(* No credential comes of a code that was claimed after its five minutes,  *)
(* even when the thread had read it in time (pairing.rs 78-97).            *)
MintedInTime == \A x \in Token : source[x] \notin late

(* The threads' chains of reads, renames and removals implement the store  *)
(* that Credentials promises, in which taking a code, admitting a          *)
(* connection and answering a revocation are one step each (pairing.rs     *)
(* 49-223, protocol.rs 73-111).                                            *)
Standing == [x \in Token |-> IF owner[x] = Nothing THEN "free"
                             ELSE IF digests[x] = "empty" THEN "drawn"
                             ELSE IF digests[x] # Nothing \/ plains[x] # Nothing THEN "good"
                             ELSE "gone"]
Part(j) == CASE j.at \in {"check", "mint"} -> <<"claim", j.desktop>>
             [] j.at = "write" -> <<"store", j.token>>
             [] j.at \in {"admit", "serving"} -> <<"serve", j.token, j.desktop>>
             [] j.at \in {"list", "find", "scan", "unlink", "unlinkFound"}
                  -> <<"revoke", j.desktop, j.victims>>
             [] OTHER -> <<>>
Roles == [t \in Thread |-> Part(job[t])]
Promised == INSTANCE Credentials
                WITH offer <- pairings, spent <- used, token <- Standing, doing <- Roles
ImplementsCredentials == Promised!Spec

(* Once a revocation is answered OK, no record that it had to remove is    *)
(* there or comes back, whatever lookups and migrations were under way     *)
(* when it began, and though nobody ever knew the token of a desktop that  *)
(* could not be provisioned (pairing.rs 108-141, 169-223, session.rs 52).  *)
RevokedIsGone ==
    \A x \in revoked : digests[x] = Nothing /\ plains[x] = Nothing

(* A lookup yields the desktop that the token was minted for, and nothing  *)
(* for a token whose revocation was answered before it ended; so that OK   *)
(* is said for that desktop, and to no token that was revoked before its   *)
(* AUTH.  A revocation answered between the lookup and the OK comes too    *)
(* late for this connection (pairing.rs 108-141, protocol.rs 73-111).      *)
AdmittedRightly ==
    [][\A t \in Thread :
        /\ At(t, "admit")' /\ ~At(t, "admit")
              => job'[t].desktop = owner[job[t].token] /\ job[t].token \notin revoked
        /\ At(t, "serving")' /\ ~At(t, "serving")
              => job'[t].desktop = owner[job[t].token] /\ ~job[t].barred]_vars

(* A token that this build issued is refused only when a revocation of it  *)
(* has begun: neither another device's revocation nor a concurrent lookup  *)
(* gets in its way (pairing.rs 108-141, 169-223).                          *)
IssuedIsAccepted ==
    [][\A t \in Thread : (Refuses(t) /\ job'[t] = Idle /\ crashes' = crashes)
            => job[t].token \in targeted \cup Legacy]_vars

(* "Migrate it atomically on the first valid use": a token of an older     *)
(* build is accepted as long as nothing revokes it.                        *)
LegacyIsAccepted ==
    [][\A t \in Thread : (Refuses(t) /\ job'[t] = Idle /\ crashes' = crashes)
            => job[t].token \in targeted]_vars
=============================================================================
