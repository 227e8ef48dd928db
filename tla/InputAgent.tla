------------------------------ MODULE InputAgent ------------------------------
(***************************************************************************)
(* The session-local input agent (src/bin/input_agent.rs): one process in  *)
(* a five-millisecond loop that drains the events of Gamescope's EIS       *)
(* socket, admits one client from its private Unix socket, reads the       *)
(* client's input events, replays them on virtual devices and publishes a  *)
(* status file.  Around it: the compositor (external), which may add,      *)
(* pause, resume and remove devices at any moment, and the daemon's relay  *)
(* connections, one per INPUT-STREAM, which write events and close.        *)
(*                                                                         *)
(* One event on the wire is one element of a sequence: an incomplete       *)
(* suffix, which the code keeps in `pending', is an event not yet written. *)
(***************************************************************************)
EXTENDS Naturals, FiniteSets, SequencesExt

CONSTANTS
    Device,         \* virtual devices the compositor may offer
    Caps,           \* the capabilities of each device
    Code,           \* evdev codes of keys and pointer buttons
    CodeCap,        \* the capability that plays a code
    Conn,           \* relay connections, each used once
    NoConn, NoCode,
    BufferLimit,    \* the 4096-byte limit of `pending', in events
    Sendable,       \* bound: the events connections write
    MaxSends,       \* bound: events and closing resets written, over the run
    MaxSeatChanges, \* bound: changes the compositor makes, over the run
    MaxCrashes      \* bound: unexpected exits of the agent, over the run

Capability == {"keyboard", "pointer", "button", "scroll"}

ASSUME DeviceAssumption ==
    /\ Caps \in [Device -> SUBSET Capability]
    /\ "none" \notin Device
ASSUME CodeAssumption ==
    /\ CodeCap \in [Code -> {"keyboard", "button"}]
    /\ NoCode \notin Code
ASSUME ConnAssumption == NoConn \notin Conn
ASSUME BoundAssumption ==
    {BufferLimit, MaxSends, MaxSeatChanges, MaxCrashes} \subseteq Nat

(* InputEvent of transport.rs; "malformed" stands for bytes that decode    *)
(* rejects.                                                                *)
Transition == [op : {"press", "release"}, code : Code]
InputEvent == Transition
              \cup [op : {"move", "scroll", "reset", "malformed"}, code : {NoCode}]
ASSUME SendableAssumption == Sendable \subseteq InputEvent

(* What the compositor tells the agent.                                    *)
DeviceEvent == [kind : {"added", "removed", "paused", "resumed"}, dev : Device]
EiEvent == DeviceEvent \cup [kind : {"seat", "disconnect"}, dev : {"none"}]

VARIABLES
    pc,         \* where the agent is in its loop
    eiq,        \* events on the EIS socket, oldest first
    todo,       \* how many of them this iteration dispatched and has yet to handle
    devices,    \* the agent's table of devices, in order of arrival
    resumed,    \* the devices whose entry says resumed
    emulating,  \* the devices whose entry says emulating
    pressed,    \* the keys and buttons the entry of each device holds
    client,     \* the connection admitted, or NoConn
    batch,      \* decoded events still to be applied
    ready,      \* the local `ready' of this iteration
    published,  \* published_state: <<ready, client is some>>
    status,     \* contents of the input-status file
    backlog,    \* connections the listener holds, oldest first
    conn,       \* the daemon's end of each connection
    wire,       \* events written and not yet read, per connection
    sent,       \* how many events the connections wrote
    seat,       \* the seat the compositor offers
    eisDev,     \* each device as the compositor sees it
    held,       \* codes logically down in the compositor, and who pressed them
    changes,    \* compositor changes so far
    crashes     \* unexpected exits so far

table   == <<devices, resumed, emulating, pressed>>
events  == <<eiq, todo>>
channel == <<client, batch, backlog, wire>>
report  == <<ready, published, status>>
daemon  == <<conn, sent>>
eis     == <<seat, eisDev, held>>
bounds  == <<changes, crashes>>
vars == <<pc, table, events, channel, report, daemon, eis, bounds>>

-----------------------------------------------------------------------------
(* The compositor's view of a request.  libei requests carry the serial of *)
(* the last event their sender saw: one that was sent before the agent     *)
(* handled the newest event about the device is discarded.                 *)
Stale(d, q) == \E i \in 1..Len(q) : q[i].dev = d \/ q[i].kind = "disconnect"

Listed == ToSet(devices)

HeldCodes(d) == {h.code : h \in held[d]}

(* required_capabilities_ready.                                            *)
RequiredCapabilitiesReady ==
    \A cap \in Capability : \E d \in Listed \cap resumed : cap \in Caps[d]

(* The capability that apply_event asks for.                               *)
Needs(event) == CASE event.op = "move"   -> "pointer"
                  [] event.op = "scroll" -> "scroll"
                  [] OTHER               -> CodeCap[event.code]

(* Mutant of Chosen: the capability alone decides.                         *)
ChosenByCapability(d, cap) ==
    \E i \in 1..Len(devices) :
        /\ devices[i] = d /\ cap \in Caps[d]
        /\ \A j \in 1..(i - 1) : cap \notin Caps[devices[j]]

(* `find': d is the first resumed device of the table with the capability. *)
Chosen(d, cap) ==
    \E i \in 1..Len(devices) :
        /\ devices[i] = d
        /\ d \in resumed /\ cap \in Caps[d]
        /\ \A j \in 1..(i - 1) : ~(devices[j] \in resumed /\ cap \in Caps[devices[j]])

(* start_emulating, called for every device of S after the device events   *)
(* of q were left unhandled.                                               *)
StartEmulating(S, nowResumed, q) ==
    LET starting == {d \in S : d \in nowResumed /\ d \notin emulating}
    IN  /\ emulating' = emulating \cup starting
        /\ eisDev' = [d \in Device |->
                        IF d \in starting /\ ~Stale(d, q) /\ eisDev[d] = "resumed"
                        THEN "emulating" ELSE eisDev[d]]

(* Mutant of ReleasedBy: the keys are forgotten.                           *)
ReleasedButtons(d) == {k \in pressed[d] : CodeCap[k] = "button"}

(* The codes reset_devices sends releases for.                             *)
ReleasedBy(d) == pressed[d]

(* reset_devices: release what the table holds, stop emulating, forget.    *)
ResetDevices ==
    LET stopping == Listed \cap resumed \cap emulating
        heard(d) == d \in stopping /\ ~Stale(d, eiq) /\ eisDev[d] = "emulating"
    IN  /\ emulating' = emulating \ stopping
        /\ pressed' = [d \in Device |-> {}]
        /\ held' = [d \in Device |->
                      IF heard(d) THEN {h \in held[d] : h.code \notin ReleasedBy(d)}
                      ELSE held[d]]
        /\ eisDev' = [d \in Device |-> IF heard(d) THEN "resumed" ELSE eisDev[d]]
        /\ UNCHANGED <<devices, resumed, seat>>

-----------------------------------------------------------------------------
(* The agent's start and end.                                              *)

(* main before the loop: no socket, or Gamescope refuses the connection.   *)
(* "offline" stands for the states unavailable, waiting and error.         *)
FailToStart ==
    /\ pc = "down"
    /\ status' = "offline"
    /\ UNCHANGED <<pc, table, events, channel, daemon, eis, bounds, ready, published>>

(* connect_libei succeeds and run_libei binds a fresh listener.            *)
BindSocket ==
    /\ pc = "down"
    /\ pc' = "bound"
    /\ UNCHANGED <<table, events, channel, report, daemon, eis, bounds>>

(* The first status, written once the socket accepts connections.          *)
Announce ==
    /\ pc = "bound"
    /\ pc' = "dispatch"
    /\ status' = "connected"
    /\ published' = <<FALSE, FALSE>>
    /\ UNCHANGED <<table, events, channel, daemon, eis, bounds, ready>>

(* The process ends: its table, its listener and its EIS connection go,    *)
(* and the compositor releases what that connection held.                  *)
ProcessEnds ==
    /\ pc' = "down"
    /\ eiq' = <<>> /\ todo' = 0
    /\ devices' = <<>> /\ resumed' = {} /\ emulating' = {}
    /\ pressed' = [d \in Device |-> {}]
    /\ client' = NoConn /\ batch' = <<>> /\ backlog' = <<>>
    /\ wire' = [c \in Conn |-> <<>>]
    /\ seat' = "none"
    /\ eisDev' = [d \in Device |-> "absent"]
    /\ held' = [d \in Device |-> {}]

(* A fatal signal, or an error that `?' carries out of run_libei.          *)
Crash ==
    /\ pc # "down" /\ crashes < MaxCrashes
    /\ crashes' = crashes + 1
    /\ ProcessEnds
    /\ UNCHANGED <<report, daemon, changes>>

-----------------------------------------------------------------------------
(* One iteration of the loop.                                              *)

(* Mutant of Dispatched: one event too many.                               *)
DispatchedAndOne == Len(eiq) + 1

(* ei_dispatch: the events that this iteration will drain.                 *)
Dispatched == Len(eiq)

Dispatch ==
    /\ pc = "dispatch"
    /\ pc' = "handle"
    /\ todo' = Dispatched
    /\ UNCHANGED <<table, channel, report, daemon, eis, bounds, eiq>>

(* The next dispatched event is about device d and of kind k.              *)
Handling(k, d) ==
    /\ pc = "handle" /\ todo > 0
    /\ Head(eiq).kind = k /\ Head(eiq).dev = d
    /\ eiq' = Tail(eiq) /\ todo' = todo - 1
    /\ UNCHANGED <<channel, report, daemon, bounds>>

HandleSeatAdded ==
    /\ Handling("seat", "none")
    /\ seat' = IF seat = "offered" THEN "bound" ELSE seat
    /\ UNCHANGED <<pc, table, eisDev, held>>

(* A device without any of the four capabilities is not kept.              *)
HandleDeviceAdded(d) ==
    /\ Handling("added", d)
    /\ devices' = IF Caps[d] = {} THEN devices ELSE Append(devices, d)
    /\ UNCHANGED <<pc, eis, resumed, emulating, pressed>>

Position(d) == CHOOSE i \in 1..Len(devices) : devices[i] = d

HandleDeviceRemoved(d) ==
    /\ Handling("removed", d)
    /\ devices' = IF d \in Listed THEN RemoveAt(devices, Position(d)) ELSE devices
    /\ resumed' = resumed \ {d}
    /\ emulating' = emulating \ {d}
    /\ pressed' = [pressed EXCEPT ![d] = {}]
    /\ UNCHANGED <<pc, eis>>

HandleDevicePaused(d) ==
    /\ Handling("paused", d)
    /\ resumed' = resumed \ {d}
    /\ emulating' = emulating \ {d}
    /\ pressed' = [pressed EXCEPT ![d] = {}]
    /\ UNCHANGED <<pc, eis, devices>>

(* Mutant of WakesDevices: emulation starts with or without a client.      *)
WakesAlways == TRUE

WakesDevices == client # NoConn

HandleDeviceResumed(d) ==
    /\ Handling("resumed", d)
    /\ resumed' = resumed \cup ({d} \cap Listed)
    /\ IF WakesDevices
       THEN StartEmulating({d} \cap Listed, resumed', eiq')
       ELSE UNCHANGED <<emulating, eisDev>>
    /\ UNCHANGED <<pc, devices, pressed, seat, held>>

HandleDisconnect ==
    /\ pc = "handle" /\ todo > 0 /\ Head(eiq).kind = "disconnect"
    /\ ProcessEnds
    /\ status' = "disconnected"
    /\ UNCHANGED <<daemon, bounds, ready, published>>

(* Mutants of MayAdmit: a newcomer takes the seat over; the listener is    *)
(* only looked at when the devices become ready.                           *)
MayAdmitOver == backlog # <<>>
MayAdmitOnce == client = NoConn /\ backlog # <<>> /\ ~published[1]

MayAdmit == client = NoConn /\ backlog # <<>>

(* The accept phase: a free agent takes the oldest waiting connection and  *)
(* wakes its devices; a busy one drops every waiting connection; an agent  *)
(* that is not ready leaves them waiting.                                  *)
Admit ==
    /\ pc = "handle" /\ todo = 0
    /\ pc' = "receive"
    /\ ready' = RequiredCapabilitiesReady
    /\ \/ /\ ready' /\ MayAdmit
          /\ client' = Head(backlog) /\ backlog' = Tail(backlog)
          /\ StartEmulating(Listed, resumed, eiq)
          /\ UNCHANGED wire
       \/ /\ ready' /\ client # NoConn
          /\ backlog' = <<>>
          /\ wire' = [c \in Conn |-> IF c \in ToSet(backlog) THEN <<>> ELSE wire[c]]
          /\ UNCHANGED <<client, emulating, eisDev>>
       \/ /\ ~ready' \/ (client = NoConn /\ ~MayAdmit)
          /\ UNCHANGED <<client, backlog, wire, emulating, eisDev>>
    /\ UNCHANGED <<events, daemon, bounds, devices, resumed, pressed, batch, published, status, seat, held>>

(* Mutant of ReceiveFails: an end of file is no error.                     *)
ReceiveFailsOnData ==
    /\ client # NoConn
    /\ \/ Len(wire[client]) > BufferLimit
       \/ \E i \in 1..Len(wire[client]) : wire[client][i].op = "malformed"

(* InputClient::receive returns an error: end of file, a buffer beyond its *)
(* limit, or bytes that do not decode.  Whatever it had read is lost.      *)
ReceiveFails ==
    /\ client # NoConn
    /\ \/ conn[client] = "closed"
       \/ Len(wire[client]) > BufferLimit
       \/ \E i \in 1..Len(wire[client]) : wire[client][i].op = "malformed"

Receive ==
    /\ pc = "receive"
    /\ pc' = "apply"
    /\ \/ /\ client = NoConn
          /\ UNCHANGED <<table, eis, client, batch, wire>>
       \/ /\ ReceiveFails
          /\ ResetDevices
          /\ client' = NoConn
          /\ wire' = [wire EXCEPT ![client] = <<>>]
          /\ UNCHANGED batch
       \/ /\ client # NoConn /\ ~ReceiveFails
          /\ batch' = wire[client]
          /\ wire' = [wire EXCEPT ![client] = <<>>]
          /\ UNCHANGED <<table, eis, client>>
    /\ UNCHANGED <<events, report, daemon, bounds, backlog>>

(* Mutant of Duplicate: any transition of a code that is held.             *)
DuplicateOfHeld(d, event) == event.code \in pressed[d]

(* A press of what the device holds, a release of what it does not.        *)
Duplicate(d, event) == (event.op = "press") = (event.code \in pressed[d])

(* apply_event on the chosen device d: begin emulating if need be, filter  *)
(* a transition the table already holds, else send it and record it.       *)
Play(d, event) ==
    LET eisNow == IF d \notin emulating /\ ~Stale(d, eiq) /\ eisDev[d] = "resumed"
                  THEN "emulating" ELSE eisDev[d]
        heard == ~Stale(d, eiq) /\ eisNow = "emulating"
        mine  == [code |-> event.code, by |-> client]
    IN  /\ emulating' = emulating \cup {d}
        /\ eisDev' = [eisDev EXCEPT ![d] = eisNow]
        /\ \/ /\ event.op \in {"move", "scroll"} \/ Duplicate(d, event)
              /\ UNCHANGED <<pressed, held>>
           \/ /\ event.op = "press" /\ ~Duplicate(d, event)
              /\ pressed' = [pressed EXCEPT ![d] = @ \cup {event.code}]
              /\ held' = IF heard THEN [held EXCEPT ![d] = @ \cup {mine}] ELSE held
           \/ /\ event.op = "release" /\ ~Duplicate(d, event)
              /\ pressed' = [pressed EXCEPT ![d] = @ \ {event.code}]
              /\ held' = IF heard
                         THEN [held EXCEPT ![d] = {h \in @ : h.code # event.code}]
                         ELSE held
        /\ UNCHANGED <<devices, resumed, seat>>

(* The next event of the batch: a reset, an event some device plays, or an *)
(* event nothing can play, which ends the channel and the batch.           *)
Apply ==
    /\ pc = "apply" /\ batch # <<>>
    /\ LET event == Head(batch)
       IN  \/ /\ event.op = "reset"
              /\ ResetDevices
              /\ batch' = Tail(batch)
              /\ UNCHANGED client
           \/ /\ event.op # "reset"
              /\ \E d \in Device : Chosen(d, Needs(event)) /\ Play(d, event)
              /\ batch' = Tail(batch)
              /\ UNCHANGED client
           \/ /\ event.op # "reset"
              /\ \A d \in Device : ~Chosen(d, Needs(event))
              /\ ResetDevices
              /\ batch' = <<>>
              /\ client' = NoConn
    /\ UNCHANGED <<pc, events, report, daemon, bounds, backlog, wire>>

(* The state that publish_ready_status names for <<ready, client is some>>. *)
StatusOf(state) == CASE state = <<TRUE, TRUE>>  -> "active"
                     [] state = <<TRUE, FALSE>> -> "ready"
                     [] OTHER                   -> "connected"


Unreported(current) == current # published

(* publish_ready_status and the end of the iteration.                      *)
Publish ==
    /\ pc = "apply" /\ batch = <<>>
    /\ pc' = "dispatch"
    /\ LET current == <<ready, client # NoConn>>
       IN  /\ published' = current
           /\ status' = IF Unreported(current) THEN StatusOf(current) ELSE status
    /\ UNCHANGED <<table, events, channel, daemon, eis, bounds, ready>>

-----------------------------------------------------------------------------
(* The compositor (external).  A seat is offered once; devices of a bound  *)
(* seat come, pause, resume and go; a paused or removed device lets go of  *)
(* its keys and buttons.                                                   *)

Connected == pc # "down" /\ seat # "gone" /\ changes < MaxSeatChanges

Tell(kind, d) ==
    /\ eiq' = Append(eiq, [kind |-> kind, dev |-> d])
    /\ changes' = changes + 1
    /\ UNCHANGED <<pc, table, channel, report, daemon, todo, crashes>>

OfferSeat ==
    /\ Connected /\ seat = "none"
    /\ seat' = "offered"
    /\ Tell("seat", "none")
    /\ UNCHANGED <<eisDev, held>>

ChangeDevice(d, from, to, kind) ==
    /\ Connected /\ seat = "bound" /\ eisDev[d] \in from
    /\ eisDev' = [eisDev EXCEPT ![d] = to]
    /\ held' = [held EXCEPT ![d] = {}]
    /\ Tell(kind, d)
    /\ UNCHANGED seat

AddDevice(d)    == ChangeDevice(d, {"absent"}, "paused", "added")
ResumeDevice(d) == ChangeDevice(d, {"paused"}, "resumed", "resumed")
PauseDevice(d)  == ChangeDevice(d, {"resumed", "emulating"}, "paused", "paused")
RemoveDevice(d) == ChangeDevice(d, {"paused", "resumed", "emulating"}, "absent", "removed")

Disconnect ==
    /\ Connected
    /\ seat' = "gone"
    /\ eisDev' = [d \in Device |-> "absent"]
    /\ held' = [d \in Device |-> {}]
    /\ Tell("disconnect", "none")

-----------------------------------------------------------------------------
(* The daemon's end of a relay connection (session.rs, protocol.rs): look  *)
(* at the status file, connect, forward events, close.                     *)

CheckStatus(c) ==
    /\ conn[c] = "idle" /\ status \in {"ready", "active"}
    /\ conn' = [conn EXCEPT ![c] = "checked"]
    /\ UNCHANGED <<pc, table, events, channel, report, eis, bounds, sent>>

Connect(c) ==
    /\ conn[c] = "checked"
    /\ \/ /\ pc # "down"
          /\ conn' = [conn EXCEPT ![c] = "open"]
          /\ backlog' = Append(backlog, c)
       \/ /\ pc = "down"
          /\ conn' = [conn EXCEPT ![c] = "closed"]
          /\ UNCHANGED backlog
    /\ UNCHANGED <<pc, table, events, report, eis, bounds, client, batch, sent, wire>>

Attached(c) == c = client \/ c \in ToSet(backlog)

(* relay.write_all; once the agent dropped its end nothing can be written, *)
(* not even the reset, and nobody sees the relay drop.                     *)
Send(c) ==
    /\ conn[c] = "open" /\ sent < MaxSends
    /\ \/ /\ Attached(c)
          /\ \E event \in Sendable : wire' = [wire EXCEPT ![c] = Append(@, event)]
          /\ sent' = sent + 1
          /\ UNCHANGED conn
       \/ /\ ~Attached(c)
          /\ conn' = [conn EXCEPT ![c] = "closed"]
          /\ UNCHANGED <<wire, sent>>
    /\ UNCHANGED <<pc, table, events, report, eis, bounds, client, batch, backlog>>

(* The client left or its frames were invalid: a last Reset event is       *)
(* written, and played by an agent that reads it before the drop.          *)
Close(c) ==
    /\ conn[c] = "open" /\ Attached(c) /\ sent < MaxSends
    /\ sent' = sent + 1
    /\ conn' = [conn EXCEPT ![c] = "closing"]
    /\ wire' = [wire EXCEPT ![c] = Append(@, [op |-> "reset", code |-> NoCode])]
    /\ UNCHANGED <<pc, table, events, report, eis, bounds, client, batch, backlog>>

(* stream_input returns and its relay is dropped; where the reset could    *)
(* not be written, or the daemon ends, without one.                        *)
Drop(c) ==
    /\ conn[c] \in {"open", "closing"}
    /\ conn' = [conn EXCEPT ![c] = "closed"]
    /\ UNCHANGED <<pc, table, events, channel, report, eis, bounds, sent>>

-----------------------------------------------------------------------------
Init ==
    /\ pc = "down" /\ eiq = <<>> /\ todo = 0
    /\ devices = <<>> /\ resumed = {} /\ emulating = {}
    /\ pressed = [d \in Device |-> {}]
    /\ client = NoConn /\ batch = <<>> /\ backlog = <<>>
    /\ ready = FALSE /\ published = <<FALSE, FALSE>> /\ status = "absent"
    /\ conn = [c \in Conn |-> "idle"] /\ sent = 0
    /\ wire = [c \in Conn |-> <<>>]
    /\ seat = "none"
    /\ eisDev = [d \in Device |-> "absent"] /\ held = [d \in Device |-> {}]
    /\ changes = 0 /\ crashes = 0

HandleDeviceEvent(d) == HandleDeviceAdded(d) \/ HandleDeviceRemoved(d)
                        \/ HandleDevicePaused(d) \/ HandleDeviceResumed(d)

Loop == \/ Announce \/ Dispatch
        \/ HandleSeatAdded \/ (\E d \in Device : HandleDeviceEvent(d)) \/ HandleDisconnect
        \/ Admit \/ Receive \/ Apply \/ Publish

Agent == FailToStart \/ BindSocket \/ Loop \/ Crash

Compositor == \/ OfferSeat \/ Disconnect
              \/ \E d \in Device : AddDevice(d) \/ ResumeDevice(d)
                                   \/ PauseDevice(d) \/ RemoveDevice(d)

Relay == \E c \in Conn : CheckStatus(c) \/ Connect(c) \/ Send(c) \/ Close(c) \/ Drop(c)

Next == Agent \/ Compositor \/ Relay

(* A running agent keeps running: its loop only ever waits for its timer.  *)
(* Nothing is assumed of the compositor, of the relays, or of a restart.   *)
Fairness == WF_vars(Loop)

Spec == Init /\ [][Next]_vars /\ Fairness

-----------------------------------------------------------------------------
TypeOK ==
    /\ pc \in {"down", "bound", "dispatch", "handle", "receive", "apply"}
    /\ eiq \in Seq(EiEvent) /\ todo \in 0..Len(eiq)
    /\ devices \in Seq(Device)
    /\ resumed \subseteq Device /\ emulating \subseteq Device
    /\ pressed \in [Device -> SUBSET Code]
    /\ client \in Conn \cup {NoConn}
    /\ batch \in Seq(InputEvent) /\ backlog \in Seq(Conn)
    /\ ready \in BOOLEAN /\ published \in BOOLEAN \X BOOLEAN
    /\ status \in {"absent", "offline", "connected",
                   "ready", "active", "disconnected"}
    /\ conn \in [Conn -> {"idle", "checked", "open", "closing", "closed"}]
    /\ sent \in Nat /\ wire \in [Conn -> Seq(InputEvent)]
    /\ seat \in {"none", "offered", "bound", "gone"}
    /\ eisDev \in [Device -> {"absent", "paused", "resumed", "emulating"}]
    /\ held \in [Device -> SUBSET [code : Code, by : Conn \cup {NoConn}]]
    /\ changes \in Nat /\ crashes \in Nat

(* Whatever is logically down inside the desktop was pressed by the client *)
(* that holds the channel now: neither a disconnect, a reset, a pause, a   *)
(* removal nor a crash leaves a key down for the next client or for nobody *)
(* (input_agent.rs 269-286, 392-419).                                      *)
HeldByCurrentClient ==
    \A d \in Device : \A h \in held[d] : h.by = client /\ client # NoConn

(* For a device with no unhandled event, the agent's table says exactly    *)
(* what the compositor holds: a lost release or a filtered transition      *)
(* cannot make them drift apart (input_agent.rs 332-419).                  *)
TableAgrees ==
    \A d \in Device :
        ~Stale(d, eiq) => /\ HeldCodes(d) = pressed[d]
                          /\ (d \in emulating) <=> (eisDev[d] = "emulating")

(* No device emulates for a channel that is gone: the end of a client ends *)
(* every emulation transaction it started (input_agent.rs 269-286).        *)
NoEmulationWithoutClient == client = NoConn => emulating = {}

(* Releasing a code lifts it, whichever device it was played on.           *)
ReleaseLifts ==
    [][(/\ pc = "apply" /\ batch # <<>> /\ Head(batch).op = "release"
        /\ batch' = Tail(batch) /\ client' = client)
       => \A d \in Device : Head(batch).code \notin {h.code : h \in held'[d]}]_vars

(* Seen from the desktop, the agent and the compositor together are the    *)
(* seat of InputSeat: one occupant at a time, nothing down for anybody     *)
(* else, everything lifted when the occupant goes (the whole loop).        *)
Down == UNION {HeldCodes(d) : d \in Device}
Seat == INSTANCE InputSeat WITH owner <- client, down <- Down
ImplementsSeat == Seat!Spec

(* A connection whose writer closed is let go, and with it all it held.    *)
ClosedIsReleased ==
    \A c \in Conn : (client = c /\ conn[c] = "closed")
                    ~> (\A d \in Device : \A h \in held[d] : h.by # c) /\ client # c

(* A waiting connection is admitted or refused as long as the agent stays  *)
(* ready; it waits only for capabilities.                                  *)
WaitingIsAnswered ==
    \A c \in Conn : c \in ToSet(backlog)
                    ~> (c \notin ToSet(backlog) \/ ~RequiredCapabilitiesReady)

(* The file that INPUT and the daemon's next relay go by catches up with   *)
(* the devices and the client, through every admission, departure, pause   *)
(* and restart over an old file, unless they change again or the agent     *)
(* ends (input_agent.rs 172-178, 287-291, 421-436).  StatusOf is what the  *)
(* code says of them, not what README 117 does: while a device is paused   *)
(* INPUT answers channel=waiting, whoever holds the channel.               *)
Served == <<RequiredCapabilitiesReady, client # NoConn>>

(* README 122-126: each of the reference commands plays its events, which  *)
(* the command writes before it closes.  The agent may not let go of a     *)
(* connection that only ended while events of it are unread.               *)
WrittenIsPlayed ==
    [][(/\ pc = "receive" /\ client # NoConn /\ client' = NoConn
        /\ Len(wire[client]) <= BufferLimit
        /\ \A i \in 1..Len(wire[client]) : wire[client][i].op # "malformed")
       => \A i \in 1..Len(wire[client]) : wire[client][i].op = "reset"]_vars
=============================================================================
