------------------------------ MODULE MediaRelay ------------------------------
(***************************************************************************)
(* A desktop's video or audio from its source to the clients: the agent    *)
(* (src/bin/media_agent.rs, src/bin/audio_agent.rs) that serves one relay  *)
(* after the other from an encoder of its own, the capture agent           *)
(* (src/bin/capture_agent.rs) that tells the media agent the node to       *)
(* encode, and the daemon's threads (src/session.rs, src/protocol.rs) that *)
(* connect to the agent's socket and forward what they read as frames.     *)
(* External are PipeWire with its sources, and the encoder process.        *)
(*                                                                         *)
(* The two agents differ in how they find their source; a run is of one.   *)
(***************************************************************************)
EXTENDS Naturals, SequencesExt

CONSTANTS
    Viewer, NoViewer,  \* the daemon's threads that stream, each once
    Kinds,             \* the agents to look at
    PipeLimit,         \* chunks that fit into the encoder's pipe
    SocketLimit,       \* and into the relay's socket
    MaxChunks,         \* bound: chunks an encoder writes
    MaxTurns           \* bound: sources there have been and unexpected exits of the
                       \* agent, over the run and together

ASSUME ViewerAssumption == NoViewer \notin Viewer
ASSUME KindAssumption == Kinds \subseteq {"video", "audio"}
ASSUME LimitAssumption ==
    /\ {PipeLimit, SocketLimit} \subseteq Nat \ {0}
    /\ {MaxChunks, MaxTurns} \subseteq Nat

VARIABLES
    kind,
    source,    \* Gamescope's node, or the virtual sink; 0 when there is none
    sources,   \* how many there have been; each is new
    captured,  \* the node in the capture-node file, 0 for none
    pc,        \* where the agent is in its loop
    node,      \* the node it looked up
    path,      \* the socket file: of the agent's listener, of none, or not there
    status,    \* the status file
    announced, \* this process of the agent has written it
    backlog,   \* connections the listener holds
    relay,     \* the connection accepted
    encoder,
    pipe,      \* the encoder's standard output
    failed,    \* io::copy returned an error
    viewer,    \* how far each daemon thread is; "eof" is an end without an error
    accepted,  \* the connections that were accepted
    wire,      \* written to a relay and not read
    got,       \* history: what each client was sent
    made,      \* history: how much was encoded for each viewer
    cut,       \* history: viewers whose agent died
    wasted,    \* history: nodes a viewer was given though the file no longer named them
    crashes

graph   == <<source, sources, captured, wasted>>
place   == <<node, path, announced>>
channel == <<backlog, relay, accepted>>
coding  == <<encoder, pipe, failed, made>>
daemon  == <<viewer, got>>
faults  == <<cut, crashes>>
vars == <<kind, graph, pc, place, status, channel, coding, daemon, wire, faults>>

Turns == sources + crashes

-----------------------------------------------------------------------------
(* The source (external) and the capture agent.                            *)

SourceAppears ==
    /\ kind = "video" /\ source = 0 /\ Turns < MaxTurns
    /\ source' = sources + 1 /\ sources' = sources + 1
    /\ UNCHANGED <<kind, captured, wasted, pc, place, status, channel, coding, daemon, wire, faults>>

SourceGoes ==
    /\ source # 0
    /\ source' = 0
    /\ UNCHANGED <<kind, sources, captured, wasted, pc, place, status, channel, coding, daemon, wire, faults>>

(* Every second: what pw-dump shows, or that it failed.                    *)
PublishNode ==
    /\ kind = "video"
    /\ captured' \in {source, 0}
    /\ wasted' = wasted \ {captured'}
    /\ UNCHANGED <<kind, source, sources, pc, place, status, channel, coding, daemon, wire, faults>>

-----------------------------------------------------------------------------
(* The agent.                                                              *)

Start ==
    /\ pc = "down"
    /\ pc' = "look" /\ announced' = FALSE
    /\ UNCHANGED <<kind, graph, node, path, status, channel, coding, daemon, wire, faults>>

Wait == pc' = pc /\ status' = "waiting" /\ announced' = TRUE

(* ready_node: the media agent reads the capture agent's file.             *)
LookForNode ==
    /\ node' = captured
    /\ \/ node' = 0 /\ Wait
       \/ node' # 0 /\ pc' = "unlink" /\ UNCHANGED <<status, announced>>
    /\ UNCHANGED <<source, sources>>

(* ensure_virtual_sink: the audio agent creates its source if it is not    *)
(* there, unless the sound server is not either.                           *)
EnsureVirtualSink ==
    /\ \/ source # 0 /\ pc' = "unlink" /\ UNCHANGED <<source, sources, status, announced>>
       \/ /\ source = 0 /\ Turns < MaxTurns
          /\ source' = sources + 1 /\ sources' = sources + 1
          /\ pc' = "unlink" /\ UNCHANGED <<status, announced>>
       \/ source = 0 /\ Wait /\ UNCHANGED <<source, sources>>
    /\ UNCHANGED node

Look ==
    /\ pc = "look"
    /\ \/ kind = "video" /\ LookForNode
       \/ kind = "audio" /\ EnsureVirtualSink
    /\ UNCHANGED <<kind, captured, wasted, path, channel, coding, daemon, wire, faults>>

RemoveStaleSocket ==
    /\ pc = "unlink"
    /\ pc' = "bind" /\ path' = "none"
    /\ UNCHANGED <<kind, graph, node, announced, status, channel, coding, daemon, wire, faults>>

Bind ==
    /\ pc = "bind"
    /\ pc' = "announce" /\ path' = "live"
    /\ UNCHANGED <<kind, graph, node, announced, status, channel, coding, daemon, wire, faults>>

Announce ==
    /\ pc = "announce"
    /\ pc' = "accept" /\ status' = "encoding" /\ announced' = TRUE
    /\ UNCHANGED <<kind, graph, node, path, channel, coding, daemon, wire, faults>>

Accept ==
    /\ pc = "accept" /\ backlog # <<>>
    /\ pc' = "spawn"
    /\ relay' = Head(backlog) /\ backlog' = Tail(backlog)
    /\ accepted' = accepted \cup {Head(backlog)}
    /\ UNCHANGED <<kind, graph, place, status, coding, daemon, wire, faults>>

Spawn ==
    /\ pc = "spawn"
    /\ pc' = "spawned" /\ encoder' = "running"
    /\ wasted' = IF kind = "video" /\ node # captured THEN wasted \cup {node} ELSE wasted
    /\ UNCHANGED <<kind, source, sources, captured, place, status, channel, pipe, failed, made, daemon, wire, faults>>

AnnounceStream ==
    /\ pc = "spawned"
    /\ pc' = "copy" /\ status' = "streaming"
    /\ UNCHANGED <<kind, graph, place, channel, coding, daemon, wire, faults>>

Gone(v) == viewer[v] # "open"

(* Mutants of Copy: an error that is not looked at; a relay without flow   *)
(* control.                                                                *)
CopyOn ==
    /\ pc = "copy" /\ pipe # <<>>
    /\ pipe' = Tail(pipe)
    /\ \/ Gone(relay) /\ UNCHANGED wire
       \/ /\ ~Gone(relay) /\ Len(wire[relay]) < SocketLimit
          /\ wire' = [wire EXCEPT ![relay] = Append(@, Head(pipe))]
    /\ UNCHANGED <<kind, graph, pc, failed, place, status, channel, encoder, made, daemon, faults>>

CopyAtOnce ==
    /\ pc = "copy" /\ pipe # <<>>
    /\ pipe' = Tail(pipe)
    /\ \/ Gone(relay) /\ pc' = "reap" /\ failed' = TRUE /\ UNCHANGED wire
       \/ /\ ~Gone(relay)
          /\ wire' = [wire EXCEPT ![relay] = Append(@, Head(pipe))]
          /\ UNCHANGED <<pc, failed>>
    /\ UNCHANGED <<kind, graph, place, status, channel, encoder, made, daemon, faults>>

(* io::copy: what the encoder wrote goes to the relay as it has room, and  *)
(* an error ends it when the daemon has closed its end.                    *)
Copy ==
    /\ pc = "copy" /\ pipe # <<>>
    /\ pipe' = Tail(pipe)
    /\ \/ Gone(relay) /\ pc' = "reap" /\ failed' = TRUE /\ UNCHANGED wire
       \/ /\ ~Gone(relay) /\ Len(wire[relay]) < SocketLimit
          /\ wire' = [wire EXCEPT ![relay] = Append(@, Head(pipe))]
          /\ UNCHANGED <<pc, failed>>
    /\ UNCHANGED <<kind, graph, place, status, channel, encoder, made, daemon, faults>>

(* Mutant of Exhausted: the encoder's exit ends the copy.                  *)
ExhaustedOnExit == encoder = "exited"

Exhausted == encoder = "exited" /\ pipe = <<>>

CopyEnds ==
    /\ pc = "copy" /\ Exhausted
    /\ pc' = "reap" /\ failed' = FALSE
    /\ UNCHANGED <<kind, graph, place, status, channel, encoder, pipe, made, daemon, wire, faults>>

(* Mutants of Reap: the status stays as it is; the next encoder writes to  *)
(* the same pipe.                                                          *)
ReapOnly ==
    /\ pc = "reap"
    /\ encoder' = "none" /\ pipe' = <<>>
    /\ pc' = IF failed THEN "report" ELSE "sleep"
    /\ UNCHANGED <<kind, graph, place, status, channel, failed, made, daemon, wire, faults>>

ReapInPlace ==
    /\ pc = "reap"
    /\ encoder' = "none" /\ UNCHANGED pipe
    /\ status' = "exited"
    /\ pc' = IF failed THEN "report" ELSE "sleep"
    /\ UNCHANGED <<kind, graph, place, channel, failed, made, daemon, wire, faults>>

(* kill, wait, and the status encoder-exited ...                           *)
Reap ==
    /\ pc = "reap"
    /\ encoder' = "none" /\ pipe' = <<>>
    /\ status' = "exited"
    /\ pc' = IF failed THEN "report" ELSE "sleep"
    /\ UNCHANGED <<kind, graph, place, channel, failed, made, daemon, wire, faults>>

(* ... which relay-ended replaces after an error.                          *)
Report ==
    /\ pc = "report"
    /\ pc' = "sleep" /\ status' = "ended" /\ failed' = FALSE
    /\ UNCHANGED <<kind, graph, place, channel, encoder, pipe, made, daemon, wire, faults>>

(* The agent lets the relay and the listener go, and whoever waits there.  *)
LetGo ==
    /\ relay' = NoViewer /\ backlog' = <<>>
    /\ path' = IF path = "live" THEN "dead" ELSE path

(* Mutant of NextRound: only the listener is made anew.                    *)
NextListener ==
    /\ pc = "sleep"
    /\ pc' = "unlink" /\ LetGo /\ UNCHANGED node
    /\ UNCHANGED <<kind, graph, announced, status, accepted, coding, daemon, wire, faults>>

NextRound ==
    /\ pc = "sleep"
    /\ pc' = "look" /\ LetGo /\ node' = 0
    /\ UNCHANGED <<kind, graph, announced, status, accepted, coding, daemon, wire, faults>>

(* A fatal signal, or an error that `?' carries out of main.  An encoder   *)
(* that is left behind has nobody to write to.                             *)
Crash ==
    /\ pc # "down" /\ Turns < MaxTurns
    /\ crashes' = crashes + 1
    /\ pc' = "down" /\ LetGo /\ node' = 0
    /\ encoder' = "none" /\ pipe' = <<>>
    /\ failed' = FALSE /\ cut' = cut \cup ({relay} \cap Viewer)
    /\ UNCHANGED <<kind, graph, announced, status, accepted, made, daemon, wire>>

-----------------------------------------------------------------------------
(* The encoder (external) writes while its source is there, and may exit.  *)
Fed == source # 0 /\ (kind = "video" => source = node)

Encode ==
    /\ encoder = "running" /\ Fed
    /\ made[relay] < MaxChunks /\ Len(pipe) < PipeLimit
    /\ pipe' = Append(pipe, made[relay] + 1)
    /\ made' = [made EXCEPT ![relay] = @ + 1]
    /\ UNCHANGED <<kind, graph, pc, place, status, channel, encoder, failed, daemon, wire, faults>>

EncoderExits ==
    /\ encoder = "running"
    /\ encoder' = "exited"
    /\ UNCHANGED <<kind, graph, pc, place, status, channel, pipe, failed, made, daemon, wire, faults>>

-----------------------------------------------------------------------------
(* A thread of the daemon that carries out VIDEO or AUDIO.                 *)

Becomes(v, state) == viewer' = [viewer EXCEPT ![v] = state]
Ends(v, how) == Becomes(v, how) /\ wire' = [wire EXCEPT ![v] = <<>>]

CheckStatus(v) ==
    /\ viewer[v] = "idle"
    /\ Becomes(v, IF status \in {"encoding", "streaming"} THEN "checked" ELSE "ended")
    /\ UNCHANGED <<kind, graph, pc, place, status, channel, coding, got, wire, faults>>

(* Connect, and tell the client OK.                                        *)
Connect(v) ==
    /\ viewer[v] = "checked"
    /\ \/ path = "live" /\ Becomes(v, "open") /\ backlog' = Append(backlog, v)
       \/ path # "live" /\ Becomes(v, "ended") /\ UNCHANGED backlog
    /\ UNCHANGED <<kind, graph, pc, place, status, relay, accepted, coding, got, wire, faults>>

Attached(v) == v = relay \/ v \in ToSet(backlog)

(* relay.read and a frame to the client, who may have hung up.             *)
Forward(v) ==
    /\ viewer[v] = "open" /\ wire[v] # <<>>
    /\ \/ got' = [got EXCEPT ![v] = Append(@, Head(wire[v]))]
          /\ wire' = [wire EXCEPT ![v] = Tail(@)]
          /\ UNCHANGED viewer
       \/ Ends(v, "ended") /\ UNCHANGED got
    /\ UNCHANGED <<kind, graph, pc, place, status, channel, coding, faults>>

(* The agent closed the relay, or its listener over an unaccepted one.     *)
ReadEnd(v) ==
    /\ viewer[v] = "open" /\ wire[v] = <<>> /\ ~Attached(v)
    /\ Ends(v, IF v \in accepted THEN "eof" ELSE "ended")
    /\ UNCHANGED <<kind, graph, pc, place, status, channel, coding, got, faults>>

(* Mutant of TimeOut: the relay has no read timeout.                       *)
TimeOutNever(v) == FALSE /\ UNCHANGED vars

(* Thirty seconds without a byte.                                          *)
TimeOut(v) ==
    /\ viewer[v] = "open" /\ wire[v] = <<>> /\ Attached(v)
    /\ Ends(v, "ended")
    /\ UNCHANGED <<kind, graph, pc, place, status, channel, coding, got, faults>>

-----------------------------------------------------------------------------
Init ==
    /\ kind \in Kinds
    /\ source = 0 /\ sources = 0 /\ captured = 0 /\ wasted = {}
    /\ pc = "down" /\ node = 0 /\ path = "none" /\ announced = FALSE /\ status = "absent"
    /\ backlog = <<>> /\ relay = NoViewer /\ accepted = {}
    /\ encoder = "none" /\ pipe = <<>> /\ failed = FALSE
    /\ made = [v \in Viewer |-> 0]
    /\ viewer = [v \in Viewer |-> "idle"]
    /\ wire = [v \in Viewer |-> <<>>] /\ got = [v \in Viewer |-> <<>>]
    /\ cut = {} /\ crashes = 0

Loop == \/ Look \/ RemoveStaleSocket \/ Bind \/ Announce \/ Accept \/ Spawn
        \/ AnnounceStream \/ Copy \/ CopyEnds \/ Reap \/ Report \/ NextRound

OpenRelay(v) == CheckStatus(v) \/ Connect(v)
Stream(v) == Forward(v) \/ ReadEnd(v) \/ TimeOut(v)

Next == \/ SourceAppears \/ SourceGoes \/ PublishNode
        \/ Start \/ Loop \/ Crash
        \/ Encode \/ EncoderExits
        \/ \E v \in Viewer : OpenRelay(v) \/ Stream(v)

(* A running agent goes on, and a thread that streams reads or gives up.   *)
(* Nothing is assumed of the sources, the encoder or a restart: a desktop  *)
(* on which nothing moves may have nothing to encode.                      *)
Fairness == WF_vars(Loop) /\ \A v \in Viewer : WF_vars(Stream(v))

Spec == Init /\ [][Next]_vars /\ Fairness

-----------------------------------------------------------------------------
TypeOK ==
    /\ kind \in {"video", "audio"}
    /\ source \in Nat /\ sources \in Nat /\ captured \in Nat /\ wasted \subseteq Nat
    /\ pc \in {"down", "look", "unlink", "bind", "announce", "accept", "spawn", "spawned",
               "copy", "reap", "report", "sleep"}
    /\ node \in Nat /\ path \in {"none", "live", "dead"} /\ announced \in BOOLEAN
    /\ status \in {"absent", "waiting", "encoding", "streaming", "exited", "ended"}
    /\ backlog \in Seq(Viewer) /\ relay \in Viewer \cup {NoViewer} /\ accepted \subseteq Viewer
    /\ encoder \in {"none", "running", "exited"}
    /\ pipe \in Seq(Nat) /\ Len(pipe) <= PipeLimit /\ failed \in BOOLEAN
    /\ made \in [Viewer -> Nat]
    /\ viewer \in [Viewer -> {"idle", "checked", "open", "eof", "ended"}]
    /\ wire \in [Viewer -> Seq(Nat)] /\ \A v \in Viewer : Len(wire[v]) <= SocketLimit
    /\ got \in [Viewer -> Seq(Nat)]
    /\ cut \subseteq Viewer /\ crashes \in Nat

(* Once an agent has spoken, a status that says ready is of a socket that  *)
(* accepts connections: the socket's replacement between two rounds is not *)
(* visible to the daemon (media_agent.rs 27-33, 75-94).                    *)
ReadyIsListening ==
    pc # "down" /\ announced /\ status \in {"encoding", "streaming"} => path = "live"

Count(n) == [i \in 1..n |-> i]

(* What a client is sent is the output of one encoder from its first byte  *)
(* on, whoever was served before, left early or waits behind               *)
(* (media_agent.rs 34-94): a stream without its headers cannot be decoded. *)
StreamIsWhole ==
    \A v \in Viewer :
        LET rest == IF viewer[v] # "open" THEN <<>>
                    ELSE wire[v] \o (IF relay = v THEN pipe ELSE <<>>)
            stream == got[v] \o rest
        IN  stream = Count(Len(stream)) /\ Len(stream) <= made[v]

(* A stream that ends in order was sent to its end, though the encoder     *)
(* exited with output under way (media_agent.rs 68-83), unless the agent   *)
(* died over it.                                                           *)
EofIsWhole ==
    \A v \in Viewer : viewer[v] = "eof" /\ v \notin cut => got[v] = Count(made[v])

(* A node that is withdrawn while the agent waits with it for a viewer is  *)
(* started for that viewer all the same, who gets nothing of it; the loss  *)
(* is one viewer's, and no later one is given the node unless the capture  *)
(* agent has named it anew, over rounds and deaths of the agent            *)
(* (media_agent.rs 21-34, 93-94; capture_agent.rs 12-30).                  *)
WithdrawnOnce ==
    [][pc = "spawn" /\ pc' = "spawned" /\ kind = "video" /\ node # captured
           => node \notin wasted]_vars

(* Pipes, sockets, rounds and status files apart, the agent and the daemon *)
(* are the service of MediaService: one client at a time on the air, first *)
(* come first served, each sent its own encoder's chunks in order and to   *)
(* the end, or told of no good end (media_agent.rs 14-94, session.rs       *)
(* 305-354, protocol.rs 229-272).                                          *)
Told == [v \in Viewer |-> IF viewer[v] \in {"idle", "checked"} THEN "new" ELSE viewer[v]]
Service == INSTANCE MediaService
               WITH client <- Told, queue <- backlog, onAir <- relay, had <- accepted
ImplementsService == Service!Spec

(* Whoever was told OK is sent something or told the end, though another   *)
(* holds the agent for as long as it likes (session.rs 327, 352).          *)
OpenIsAnswered ==
    \A v \in Viewer : viewer[v] = "open" ~> got[v] # <<>> \/ viewer[v] # "open"

(* A viewer that left does not hold the agent beyond the next output of    *)
(* its encoder (media_agent.rs 68-94).                                     *)
GoneIsLetGo ==
    \A v \in Viewer : (relay = v /\ Gone(v) /\ pipe # <<>>) ~> relay # v
=============================================================================
