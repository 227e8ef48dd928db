--------------------------- MODULE ControlProtocol ---------------------------
(***************************************************************************)
(* The daemon's control protocol (src/protocol.rs): one thread per         *)
(* connection (src/main.rs), which greets, asks the rate limiter, reads    *)
(* one AUTH or PAIR line, judges it, records a failure or clears the       *)
(* peer's failures, and then answers commands until one of them upgrades   *)
(* the connection to a stream.  All threads share one AuthRateLimiter.     *)
(*                                                                         *)
(* A thread reads the clock before it takes the limiter's lock, so the two *)
(* are separate steps.  What a command does is left to the other modules:  *)
(* here it is answered with OK or ERR.                                     *)
(***************************************************************************)
EXTENDS Naturals, FiniteSets, SequencesExt

CONSTANTS
    Thread,      \* connection threads that may run at once, used again and again
    Peer,        \* the IP addresses connections come from
    From,        \* the address of each thread's connections
    MaxFailures, \* MAX_AUTH_FAILURES
    Window,      \* AUTH_FAILURE_WINDOW, in clock ticks
    MaxTime      \* bound: the clock stops here

ASSUME ThreadAssumption == IsFiniteSet(Thread) /\ From \in [Thread -> Peer]
ASSUME LimitAssumption == {MaxFailures, Window} \subseteq Nat \ {0} /\ MaxTime \in Nat

Place == {"closed", "stamp", "limit", "line", "mistaken", "fail", "clearAuth", "clearPair",
          "serving", "streaming"}

VARIABLES
    now,      \* the monotonic clock
    attempts, \* AuthRateLimiter.attempts: failures per peer
    failed,   \* history: every failure recorded since the peer's last success
    pc,       \* where each thread is in handle_client
    stamp,    \* the clock as the thread last read it, 0 when it is no longer needed
    here,     \* the clients that have not hung up
    inbox,    \* what the client wrote and the thread has not read: a line or a frame
    channel,  \* what the client was told its connection is
    reply     \* what the thread wrote last

limiter == <<attempts, failed>>
client  == <<here, inbox>>
vars == <<now, limiter, pc, stamp, client, channel, reply>>

ThreadsOf(p) == {t \in Thread : From[t] = p}

-----------------------------------------------------------------------------
(* The rate limiter.                                                       *)

Expired(at, moment) == moment >= at + Window

(* Mutants of Prune: an entry too many goes; nothing ever goes.            *)
PruneOneMore(s, moment) ==
    LET kept == {i \in DOMAIN s : ~Expired(s[i], moment)}
    IN  IF kept = {} THEN <<>> ELSE SubSeq(s, Min(kept) + 1, Len(s))
PruneNothing(s, moment) == s

(* prune: drop expired failures from the front, up to the first that is    *)
(* not.  Stamps need not be in order.                                      *)
Prune(s, moment) ==
    LET kept == {i \in DOMAIN s : ~Expired(s[i], moment)}
    IN  IF kept = {} THEN <<>> ELSE SubSeq(s, Min(kept), Len(s))

(* Mutant of Limited: off by one.                                          *)
LimitedLate(entries) == Len(entries) > MaxFailures

Limited(entries) == Len(entries) >= MaxFailures

-----------------------------------------------------------------------------
(* handle_client, up to the answer to the first line.                      *)

(* A client connects and reads the banner.                                 *)
Accept(t) ==
    /\ pc[t] = "closed"
    /\ pc' = [pc EXCEPT ![t] = "stamp"]
    /\ here' = here \cup {t} /\ inbox' = [inbox EXCEPT ![t] = "none"]
    /\ channel' = [channel EXCEPT ![t] = "lines"]
    /\ reply' = [reply EXCEPT ![t] = "text"]
    /\ UNCHANGED <<now, limiter, stamp>>

(* Instant::now(), for limited or for record_failure.                      *)
ReadClock(t) ==
    /\ \/ pc[t] = "stamp"    /\ pc' = [pc EXCEPT ![t] = "limit"]
       \/ pc[t] = "mistaken" /\ pc' = [pc EXCEPT ![t] = "fail"]
    /\ stamp' = [stamp EXCEPT ![t] = now]
    /\ UNCHANGED <<now, limiter, client, channel, reply>>

(* limited: prune, then refuse the connection or wait for its line.        *)
CheckLimit(t) ==
    LET entries == Prune(attempts[From[t]], stamp[t])
    IN  /\ pc[t] = "limit"
        /\ attempts' = [attempts EXCEPT ![From[t]] = entries]
        /\ \/ /\ Limited(entries)
              /\ pc' = [pc EXCEPT ![t] = "closed"]
           \/ /\ ~Limited(entries)
              /\ pc' = [pc EXCEPT ![t] = "line"]
        /\ stamp' = [stamp EXCEPT ![t] = 0]
        /\ UNCHANGED <<now, failed, client, channel, reply>>

(* The first line, or the end of the stream, which reads as an empty line. *)
(* The token or code is right or wrong, or the stored record of a token    *)
(* cannot be read, which ends the connection without a failure.            *)
Judge(t) ==
    /\ pc[t] = "line" /\ (inbox[t] = "line" \/ t \notin here)
    /\ inbox' = [inbox EXCEPT ![t] = "none"]
    /\ \/ inbox[t] = "line" /\ \E p \in {"clearAuth", "clearPair", "closed"} :
                                    pc' = [pc EXCEPT ![t] = p]
       \/ pc' = [pc EXCEPT ![t] = "mistaken"]
    /\ UNCHANGED <<now, limiter, stamp, here, channel, reply>>

(* record_failure, ERR and the end of the connection.                      *)
RecordFailure(t) ==
    /\ pc[t] = "fail"
    /\ pc' = [pc EXCEPT ![t] = "closed"]
    /\ attempts' = [attempts EXCEPT ![From[t]] = Append(Prune(@, stamp[t]), stamp[t])]
    /\ failed' = [failed EXCEPT ![From[t]] = Append(@, stamp[t])]
    /\ stamp' = [stamp EXCEPT ![t] = 0]
    /\ UNCHANGED <<now, client, channel, reply>>

(* Mutant of Clear: the peer's entry is removed and never made again.      *)
ClearForGood(t) ==
    /\ pc[t] \in {"clearAuth", "clearPair"}
    /\ attempts' = [p \in Peer \ {From[t]} |-> attempts[p]]
    /\ failed' = [failed EXCEPT ![From[t]] = <<>>]
    /\ pc' = [pc EXCEPT ![t] = IF pc[t] = "clearAuth" THEN "serving" ELSE "closed"]
    /\ UNCHANGED <<now, stamp, client, channel, reply>>

(* clear, and OK: a paired client is done, an authenticated one is served. *)
Clear(t) ==
    /\ pc[t] \in {"clearAuth", "clearPair"}
    /\ attempts' = [attempts EXCEPT ![From[t]] = <<>>]
    /\ failed' = [failed EXCEPT ![From[t]] = <<>>]
    /\ pc' = [pc EXCEPT ![t] = IF pc[t] = "clearAuth" THEN "serving" ELSE "closed"]
    /\ UNCHANGED <<now, stamp, client, channel, reply>>

-----------------------------------------------------------------------------
(* The command loop.                                                       *)

Serving(t, item) ==
    /\ pc[t] = "serving" /\ inbox[t] = item
    /\ inbox' = [inbox EXCEPT ![t] = "none"]
    /\ UNCHANGED <<now, limiter, stamp, here>>

(* Any command but QUIT and an upgrade that opens: OK or ERR.              *)
Answer(t) ==
    /\ Serving(t, "line")
    /\ reply' = [reply EXCEPT ![t] = "text"]
    /\ UNCHANGED <<pc, channel>>

Quit(t) ==
    /\ Serving(t, "line")
    /\ pc' = [pc EXCEPT ![t] = "closed"]
    /\ UNCHANGED <<channel, reply>>

(* VIDEO, AUDIO or INPUT-STREAM on an own desktop whose relay opens.       *)
Upgrade(t) ==
    /\ Serving(t, "line")
    /\ pc' = [pc EXCEPT ![t] = "streaming"]
    /\ \E kind \in {"media", "input"} : channel' = [channel EXCEPT ![t] = kind]
    /\ reply' = [reply EXCEPT ![t] = "upgraded"]

(* A frame where a command is expected: an unknown command, or no line.    *)
Misread(t) ==
    /\ Serving(t, "frame")
    /\ \/ reply' = [reply EXCEPT ![t] = "text"] /\ UNCHANGED pc
       \/ pc' = [pc EXCEPT ![t] = "closed"] /\ UNCHANGED reply
    /\ UNCHANGED channel

(* One turn of stream_video and stream_audio, or of forward_input_frames.  *)
Stream(t) ==
    /\ pc[t] = "streaming"
    /\ \/ channel[t] = "media" /\ reply' = [reply EXCEPT ![t] = "frame"] /\ UNCHANGED inbox
       \/ inbox[t] = "frame" /\ inbox' = [inbox EXCEPT ![t] = "none"] /\ UNCHANGED reply
    /\ UNCHANGED <<now, limiter, pc, stamp, here, channel>>

(* The relay, or the client of an input stream, ends the stream.           *)
StreamEnds(t) ==
    /\ pc[t] = "streaming" /\ (channel[t] = "media" \/ t \notin here)
    /\ pc' = [pc EXCEPT ![t] = "closed"]
    /\ UNCHANGED <<now, limiter, stamp, client, channel, reply>>

(* The relay fails, or a frame does, or a timeout passes: the error is     *)
(* answered and the command loop goes on, unless the client is gone.       *)
StreamFails(t) ==
    /\ pc[t] = "streaming"
    /\ \/ /\ t \in here
          /\ reply' = [reply EXCEPT ![t] = "text"]
          /\ pc' = [pc EXCEPT ![t] = "serving"]
       \/ t \notin here /\ pc' = [pc EXCEPT ![t] = "closed"] /\ UNCHANGED reply
    /\ UNCHANGED <<now, limiter, stamp, client, channel>>

(* Mutant of GiveUp: only the first line has a time limit.                 *)
GiveUpOnLine(t) ==
    /\ pc[t] = "line" /\ inbox[t] = "none" /\ t \in here
    /\ pc' = [pc EXCEPT ![t] = "closed"]
    /\ UNCHANGED <<now, limiter, stamp, client, channel, reply>>

(* A read that waits for a line meets the end of the stream or the         *)
(* fifteen-second timeout that main sets on the socket.                    *)
GiveUp(t) ==
    /\ \/ pc[t] = "line" /\ t \in here
       \/ pc[t] = "serving"
    /\ inbox[t] = "none"
    /\ pc' = [pc EXCEPT ![t] = "closed"]
    /\ UNCHANGED <<now, limiter, stamp, client, channel, reply>>

-----------------------------------------------------------------------------
(* The clients and the clock.                                              *)

Write(t) ==
    /\ t \in here /\ inbox[t] = "none" /\ channel[t] # "media"
    /\ inbox' = [inbox EXCEPT ![t] = IF channel[t] = "input" THEN "frame" ELSE "line"]
    /\ UNCHANGED <<now, limiter, pc, stamp, here, channel, reply>>

HangUp(t) ==
    /\ t \in here
    /\ here' = here \ {t}
    /\ UNCHANGED <<now, limiter, pc, stamp, inbox, channel, reply>>

Tick ==
    /\ now < MaxTime
    /\ now' = now + 1
    /\ UNCHANGED <<limiter, pc, stamp, client, channel, reply>>

-----------------------------------------------------------------------------
Init ==
    /\ now = 0
    /\ attempts = [p \in Peer |-> <<>>] /\ failed = [p \in Peer |-> <<>>]
    /\ pc = [t \in Thread |-> "closed"] /\ stamp = [t \in Thread |-> 0]
    /\ here = {} /\ inbox = [t \in Thread |-> "none"]
    /\ channel = [t \in Thread |-> "lines"] /\ reply = [t \in Thread |-> "text"]

HandleClient(t) == \/ ReadClock(t) \/ CheckLimit(t) \/ Judge(t) \/ RecordFailure(t) \/ Clear(t)
                   \/ Answer(t) \/ Quit(t) \/ Upgrade(t) \/ Misread(t)
                   \/ StreamEnds(t) \/ StreamFails(t) \/ GiveUp(t)

Client(t) == Accept(t) \/ Write(t) \/ HangUp(t)

Next == Tick \/ \E t \in Thread : HandleClient(t) \/ Stream(t) \/ Client(t)

(* A thread is always scheduled; a stream cannot go on for ever once its   *)
(* client is gone, for then its next write fails.                          *)
Fairness == \A t \in Thread : /\ WF_vars(HandleClient(t))
                              /\ WF_vars(t \notin here /\ (StreamEnds(t) \/ StreamFails(t)))

Spec == Init /\ [][Next]_vars /\ Fairness

-----------------------------------------------------------------------------
TypeOK ==
    /\ now \in Nat
    /\ attempts \in [Peer -> Seq(Nat)] /\ failed \in [Peer -> Seq(Nat)]
    /\ pc \in [Thread -> Place] /\ stamp \in [Thread -> Nat]
    /\ here \subseteq Thread /\ inbox \in [Thread -> {"none", "line", "frame"}]
    /\ channel \in [Thread -> {"lines", "media", "input"}]
    /\ reply \in [Thread -> {"text", "upgraded", "frame"}]

(* The connections of p that passed the limiter and may still fail.        *)
InFlight(p) == {t \in ThreadsOf(p) : pc[t] \in {"line", "mistaken", "fail"}}

(* The limiter checks a connection and records its failure in two separate *)
(* steps, so connections that passed it together can all fail: a peer has  *)
(* at most one failure per connection it has open beyond the four that do  *)
(* not limit it (protocol.rs 27-39, 68-108).                               *)
FailuresBounded ==
    \A p \in Peer : Len(attempts[p]) + Cardinality(InFlight(p))
                        <= (MaxFailures - 1) + Cardinality(ThreadsOf(p))

Recent(s, moment) == {i \in DOMAIN s : ~Expired(s[i], moment)}

(* A connection that passes the limiter comes from a peer with fewer       *)
(* failures in the last window than the limit: no interleaving of prunes   *)
(* and late stamps makes the limiter forget one (protocol.rs 27-56).       *)
AdmittedUnderLimit ==
    [][\A t \in Thread : (pc[t] = "limit" /\ pc'[t] = "line")
                => Cardinality(Recent(failed[From[t]], now)) < MaxFailures]_vars

(* A connection is refused only to a peer with that many failures since    *)
(* its last success, one of them in the last window: a block ends by       *)
(* itself, and success ends it at once (protocol.rs 27-56, 109).           *)
RefusedForAReason ==
    [][\A t \in Thread : (pc[t] = "limit" /\ pc'[t] = "closed")
                => /\ Len(failed[From[t]]) >= MaxFailures
                   /\ Recent(failed[From[t]], stamp[t]) # {}]_vars

(* A thread whose client hung up ends: no read, stream or answer keeps it  *)
(* for ever (main.rs 149-150, protocol.rs 113-115, 139-145).               *)
HungUpIsReleased == \A t \in Thread : t \notin here ~> (pc[t] = "closed" \/ t \in here)

(* README 117 and 131: an upgrade turns the connection into a stream of    *)
(* binary frames, so the client of an upgraded connection is written       *)
(* nothing but frames.                                                     *)
UpgradedIsFramed == \A t \in Thread : channel[t] # "lines" => reply[t] \in {"upgraded", "frame"}
=============================================================================
