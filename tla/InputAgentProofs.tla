--------------------------- MODULE InputAgentProofs ---------------------------
(***************************************************************************)
(* Theorems about InputAgent, for any devices, codes, connections and      *)
(* bounds.                                                                 *)
(***************************************************************************)
EXTENDS InputAgent, SequenceTheorems, TLAPS

(* The agent's table is well formed: it emulates only on devices that it   *)
(* lists as resumed, and only for a client.                                *)
TableInv ==
    /\ resumed \subseteq Listed
    /\ emulating \subseteq resumed
    /\ emulating # {} => client # NoConn
    /\ batch # <<>> => client # NoConn /\ pc = "apply"

(* What the compositor holds is known to the agent: a device emulates      *)
(* there only while the agent emulates on it and no event about it is      *)
(* unhandled, and what is down on it is in the table and was pressed by    *)
(* the present client.                                                     *)
CompositorInv ==
    \A d \in Device :
        /\ eisDev[d] = "emulating" => d \in emulating /\ ~Stale(d, eiq)
        /\ \A h \in held[d] : /\ eisDev[d] = "emulating"
                              /\ h.code \in pressed[d]
                              /\ h.by = client

IInv == TypeOK /\ TableInv /\ CompositorInv

-----------------------------------------------------------------------------
(* Handling the oldest event makes no device stale.                        *)
LEMMA StaleTail ==
    ASSUME NEW q \in Seq(EiEvent), q # <<>>, NEW d
    PROVE  Stale(d, Tail(q)) => Stale(d, q)
BY HeadTailProperties DEF Stale

(* The device that the oldest event is about is stale.                     *)
LEMMA HeadIsStale ==
    ASSUME NEW q \in Seq(EiEvent), q # <<>>
    PROVE  Stale(Head(q).dev, q)
BY DEF Stale

(* Vec::remove drops one entry and keeps the others.                       *)
LEMMA RemovalKeepsOthers ==
    ASSUME IInv, NEW d \in Device, HandleDeviceRemoved(d)
    PROVE  devices' \in Seq(Device) /\ Listed \ {d} \subseteq Listed'
<1>1. devices \in Seq(Device)
  BY DEF IInv, TypeOK
<1>2. CASE d \notin Listed
  BY <1>1, <1>2 DEF HandleDeviceRemoved, Listed
<1>3. CASE d \in Listed
  <2> DEFINE n == Position(d)
             front == SubSeq(devices, 1, n - 1)
             back == SubSeq(devices, n + 1, Len(devices))
  <2>1. n \in 1..Len(devices) /\ devices[n] = d
    BY <1>1, <1>3 DEF Listed, ToSet, Position
  <2>2. devices' = front \o back
    BY <1>3 DEF HandleDeviceRemoved, RemoveAt
  <2>3. /\ front \in Seq(Device) /\ Len(front) = n - 1
        /\ \A i \in 1..(n - 1) : front[i] = devices[i]
    BY <1>1, <2>1, SubSeqProperties
  <2>4. /\ back \in Seq(Device) /\ Len(back) = Len(devices) - n
        /\ \A i \in 1..(Len(devices) - n) : back[i] = devices[n + i]
    BY <1>1, <2>1, SubSeqProperties
  <2> HIDE DEF n, front, back
  <2>5. /\ DOMAIN (front \o back) = 1..Len(front \o back)
        /\ DOMAIN devices' = 1..Len(front \o back)
    BY <2>2, <2>3, <2>4
  <2>6. ASSUME NEW e \in Listed \ {d} PROVE e \in Listed'
    <3>1. PICK i \in 1..Len(devices) : devices[i] = e
      BY <1>1 DEF Listed, ToSet
    <3>2. i # n
      BY <2>1, <3>1
    <3>3. CASE i < n
      <4>1. (front \o back)[i] = front[i] /\ i \in 1..Len(front \o back)
        BY <2>1, <2>3, <2>4, <3>1, <3>3
      <4>2. front[i] = e
        BY <2>1, <2>3, <3>1, <3>3
      <4>3. i \in DOMAIN devices' /\ devices'[i] = e
        BY <2>2, <2>5, <4>1, <4>2
      <4>4. QED BY <4>3 DEF Listed, ToSet
    <3>4. CASE i > n
      <4>1. back[i - n] = e /\ i - n \in 1..Len(back)
        <5>1. i - n \in 1..(Len(devices) - n) /\ n + (i - n) = i
          BY <2>1, <3>1, <3>4
        <5>2. back[i - n] = devices[n + (i - n)]
          BY <2>4, <5>1
        <5>3. QED BY <2>4, <3>1, <5>1, <5>2
      <4>2. (front \o back)[i - 1] = back[i - n] /\ i - 1 \in 1..Len(front \o back)
        BY <2>1, <2>3, <2>4, <3>1, <3>4
      <4>3. i - 1 \in DOMAIN devices' /\ devices'[i - 1] = e
        BY <2>2, <2>4, <2>5, <3>1, <4>1, <4>2
      <4>4. QED BY <4>3 DEF Listed, ToSet
    <3>5. QED BY <2>1, <3>1, <3>2, <3>3, <3>4
  <2>7. QED BY <2>2, <2>3, <2>4, <2>6
<1>4. QED BY <1>2, <1>3

(* A new event makes stale the device it is about, and a disconnect all.   *)
LEMMA StaleAppend ==
    ASSUME NEW q \in Seq(EiEvent), NEW e \in EiEvent, NEW d
    PROVE  Stale(d, Append(q, e)) => Stale(d, q) \/ e.dev = d \/ e.kind = "disconnect"
BY AppendProperties DEF Stale

(* reset_devices leaves nothing held, nothing emulating.                   *)
LEMMA ResetClears ==
    ASSUME IInv, ResetDevices
    PROVE  /\ emulating' = {} /\ pressed' = [d \in Device |-> {}]
           /\ held' = [d \in Device |-> {}]
           /\ eisDev' \in [Device -> {"absent", "paused", "resumed"}]
<1>1. emulating \subseteq Listed \cap resumed \cap emulating
  BY DEF IInv, TableInv
<1>2. emulating' = {}
  BY <1>1 DEF ResetDevices
<1>3. ASSUME NEW d \in Device
      PROVE  held'[d] = {} /\ eisDev'[d] \in {"absent", "paused", "resumed"}
  <2>1. CASE eisDev[d] = "emulating"
    <3>1. d \in emulating /\ ~Stale(d, eiq)
      BY <2>1 DEF IInv, CompositorInv
    <3>2. /\ held'[d] = {h \in held[d] : h.code \notin pressed[d]}
          /\ eisDev'[d] = "resumed"
      BY <1>1, <2>1, <3>1 DEF ResetDevices, ReleasedBy
    <3>3. QED BY <3>2 DEF IInv, CompositorInv
  <2>2. CASE eisDev[d] # "emulating"
    <3>1. held[d] = {} /\ held'[d] = held[d] /\ eisDev'[d] = eisDev[d]
      BY <2>2 DEF IInv, CompositorInv, ResetDevices
    <3>2. QED BY <2>2, <3>1 DEF IInv, TypeOK
  <2>3. QED BY <2>1, <2>2
<1>4. QED BY <1>2, <1>3 DEF ResetDevices

-----------------------------------------------------------------------------
(* Steps that leave the devices, the compositor and the client alone.      *)
LEMMA QuietSteps ==
    ASSUME IInv,
           \/ FailToStart \/ BindSocket \/ Announce \/ Dispatch \/ Publish
           \/ \E c \in Conn : CheckStatus(c) \/ Connect(c) \/ Send(c) \/ Close(c) \/ Drop(c)
           \/ UNCHANGED vars
    PROVE  IInv'
<1> USE DEF table, events, channel, report, daemon, eis, bounds
<1>1. TypeOK'
  <2>1. CASE FailToStart BY <2>1 DEF FailToStart, IInv, TypeOK
  <2>2. CASE BindSocket BY <2>2 DEF BindSocket, IInv, TypeOK
  <2>3. CASE Announce BY <2>3 DEF Announce, IInv, TypeOK
  <2>4. CASE Dispatch BY <2>4 DEF Dispatch, Dispatched, IInv, TypeOK
  <2>5. CASE Publish BY <2>5 DEF Publish, StatusOf, IInv, TypeOK
  <2>6. ASSUME NEW c \in Conn, CheckStatus(c) PROVE TypeOK'
    BY <2>6 DEF CheckStatus, IInv, TypeOK
  <2>7. ASSUME NEW c \in Conn, Connect(c) PROVE TypeOK'
    <3>1. backlog' \in Seq(Conn)
      <4>1. Append(backlog, c) \in Seq(Conn)
        BY AppendProperties DEF IInv, TypeOK
      <4>2. QED BY <2>7, <4>1 DEF Connect, IInv, TypeOK
    <3>2. conn' \in [Conn -> {"idle", "checked", "open", "closing", "closed"}]
      BY <2>7 DEF Connect, IInv, TypeOK
    <3>3. QED BY <2>7, <3>1, <3>2 DEF Connect, IInv, TypeOK
  <2>8. ASSUME NEW c \in Conn, Send(c) PROVE TypeOK'
    <3>1. wire' \in [Conn -> Seq(InputEvent)]
      <4>1. \A event \in Sendable : Append(wire[c], event) \in Seq(InputEvent)
        BY SendableAssumption, AppendProperties DEF IInv, TypeOK
      <4>2. QED BY <2>8, <4>1 DEF Send, IInv, TypeOK
    <3>2. conn' \in [Conn -> {"idle", "checked", "open", "closing", "closed"}]
      BY <2>8 DEF Send, IInv, TypeOK
    <3>3. sent' \in Nat
      BY <2>8 DEF Send, IInv, TypeOK
    <3>4. QED BY <2>8, <3>1, <3>2, <3>3 DEF Send, IInv, TypeOK
  <2>9. ASSUME NEW c \in Conn, Close(c) PROVE TypeOK'
    <3>1. wire' \in [Conn -> Seq(InputEvent)]
      <4>1. [op |-> "reset", code |-> NoCode] \in InputEvent
        BY DEF InputEvent
      <4>2. Append(wire[c], [op |-> "reset", code |-> NoCode]) \in Seq(InputEvent)
        BY <4>1, AppendProperties DEF IInv, TypeOK
      <4>3. QED BY <2>9, <4>2 DEF Close, IInv, TypeOK
    <3>2. conn' \in [Conn -> {"idle", "checked", "open", "closing", "closed"}]
      BY <2>9 DEF Close, IInv, TypeOK
    <3>3. sent' \in Nat
      BY <2>9 DEF Close, IInv, TypeOK
    <3>4. QED BY <2>9, <3>1, <3>2, <3>3 DEF Close, IInv, TypeOK
  <2>10. ASSUME NEW c \in Conn, Drop(c) PROVE TypeOK'
    BY <2>10 DEF Drop, IInv, TypeOK
  <2>11. CASE UNCHANGED vars BY <2>11 DEF IInv, TypeOK, vars
  <2>12. QED BY <2>1, <2>2, <2>3, <2>4, <2>5, <2>6, <2>7, <2>8, <2>9, <2>10, <2>11
<1>2. /\ UNCHANGED <<devices, resumed, emulating, pressed, eiq, client, batch, eisDev, held>>
      /\ batch = <<>> \/ pc' = pc
  BY DEF FailToStart, BindSocket, Announce, Dispatch, Publish, CheckStatus, Connect,
         Send, Close, Drop, vars, table, events, channel, report, daemon, eis, bounds,
         IInv, TableInv
<1>3. TableInv'
  BY <1>2 DEF IInv, TableInv, Listed
<1>4. CompositorInv'
  BY <1>2 DEF IInv, CompositorInv, Stale
<1>5. QED BY <1>1, <1>3, <1>4 DEF IInv
-----------------------------------------------------------------------------
(* The agent handles the oldest event about one device.                    *)
LEMMA HandlingTypes ==
    ASSUME IInv, NEW k, NEW d, Handling(k, d)
    PROVE  /\ eiq \in Seq(EiEvent) /\ eiq # <<>> /\ eiq' = Tail(eiq)
           /\ eiq' \in Seq(EiEvent) /\ todo' \in 0..Len(eiq') /\ batch = <<>>
           /\ Head(eiq).dev = d
           /\ UNCHANGED <<channel, report, daemon, bounds>>
<1>1. todo \in 0..Len(eiq) /\ todo > 0 /\ eiq \in Seq(EiEvent)
  BY DEF Handling, IInv, TypeOK
<1>2. eiq # <<>>
  BY <1>1
<1>3. Tail(eiq) \in Seq(EiEvent) /\ Len(Tail(eiq)) = Len(eiq) - 1
  BY <1>1, <1>2, HeadTailProperties
<1>4. batch = <<>> /\ UNCHANGED <<channel, report, daemon, bounds>>
  BY DEF Handling, IInv, TableInv, channel, report, daemon, bounds
<1>5. QED BY <1>1, <1>2, <1>3, <1>4 DEF Handling

LEMMA SeatStep ==
    ASSUME IInv, HandleSeatAdded
    PROVE  IInv'
<1> USE DEF table, channel, report, daemon, eis, bounds
<1>1. Handling("seat", "none")
  BY DEF HandleSeatAdded
<1>2. TypeOK'
  BY <1>1, HandlingTypes DEF HandleSeatAdded, IInv, TypeOK
<1>3. TableInv'
  BY <1>1, HandlingTypes DEF HandleSeatAdded, IInv, TableInv, Listed
<1>4. CompositorInv'
  BY <1>1, HandlingTypes, StaleTail DEF HandleSeatAdded, IInv, CompositorInv
<1>5. QED BY <1>2, <1>3, <1>4 DEF IInv

LEMMA HandledSteps ==
    ASSUME IInv, NEW d \in Device,
           HandleDeviceAdded(d) \/ HandleDeviceRemoved(d)
               \/ HandleDevicePaused(d) \/ HandleDeviceResumed(d)
    PROVE  IInv'
<1> USE DEF table, channel, report, daemon, eis, bounds
<1>1. CASE HandleDeviceAdded(d)
  <2>1. Handling("added", d)
    BY <1>1 DEF HandleDeviceAdded
  <2>2. devices' \in Seq(Device) /\ Listed \subseteq Listed'
    <3>1. devices \in Seq(Device)
      BY DEF IInv, TypeOK
    <3>2. Append(devices, d) \in Seq(Device) /\ ToSet(devices) \subseteq ToSet(Append(devices, d))
      BY <3>1, AppendProperties DEF ToSet
    <3>3. QED BY <1>1, <3>1, <3>2 DEF HandleDeviceAdded, Listed
  <2>3. TypeOK'
    BY ZenonT(60), <1>1, <2>1, <2>2, HandlingTypes DEF HandleDeviceAdded, IInv, TypeOK
  <2>4. TableInv'
    BY <1>1, <2>1, <2>2, HandlingTypes DEF HandleDeviceAdded, IInv, TableInv
  <2>5. CompositorInv'
    BY <1>1, <2>1, HandlingTypes, StaleTail DEF HandleDeviceAdded, IInv, CompositorInv
  <2>6. QED BY <2>3, <2>4, <2>5 DEF IInv
<1>2. CASE HandleDevicePaused(d)
  <2>1. Handling("paused", d)
    BY <1>2 DEF HandleDevicePaused
  <2>2. TypeOK'
    BY SMTT(30), <1>2, <2>1, HandlingTypes DEF HandleDevicePaused, IInv, TypeOK
  <2>3. TableInv'
    BY <1>2, <2>1, HandlingTypes DEF HandleDevicePaused, IInv, TableInv, Listed
  <2>4. Stale(d, eiq)
    BY <2>1, HandlingTypes, HeadIsStale
  <2>5. CompositorInv'
    BY ZenonT(60), <1>2, <2>1, <2>4, HandlingTypes, StaleTail
       DEF HandleDevicePaused, IInv, CompositorInv, TypeOK
  <2>6. QED BY <2>2, <2>3, <2>5 DEF IInv
<1>3. CASE HandleDeviceRemoved(d)
  <2>1. Handling("removed", d)
    BY <1>3 DEF HandleDeviceRemoved
  <2>2. devices' \in Seq(Device) /\ Listed \ {d} \subseteq Listed'
    BY <1>3, RemovalKeepsOthers DEF HandleDeviceRemoved
  <2>3. TypeOK'
    BY SMTT(30), <1>3, <2>1, <2>2, HandlingTypes DEF HandleDeviceRemoved, IInv, TypeOK
  <2>4. TableInv'
    BY <1>3, <2>1, <2>2, HandlingTypes DEF HandleDeviceRemoved, IInv, TableInv
  <2>5. Stale(d, eiq)
    BY <2>1, HandlingTypes, HeadIsStale
  <2>6. CompositorInv'
    BY ZenonT(60), <1>3, <2>1, <2>5, HandlingTypes, StaleTail
       DEF HandleDeviceRemoved, IInv, CompositorInv, TypeOK
  <2>7. QED BY <2>3, <2>4, <2>6 DEF IInv
<1>4. CASE HandleDeviceResumed(d)
  <2>1. Handling("resumed", d)
    BY <1>4 DEF HandleDeviceResumed
  <2>2. /\ eisDev' \in [Device -> {"absent", "paused", "resumed", "emulating"}]
        /\ emulating \subseteq emulating' /\ emulating' \subseteq resumed'
        /\ emulating' # {} => emulating # {} \/ client # NoConn
        /\ \A e \in Device : eisDev'[e] # eisDev[e] =>
              eisDev[e] = "resumed" /\ e \in emulating' /\ ~Stale(e, eiq')
    <3> DEFINE starting == {e \in {d} \cap Listed : e \in resumed' /\ e \notin emulating}
    <3>1. CASE WakesDevices
      <4>1. /\ emulating' = emulating \cup starting
            /\ eisDev' = [e \in Device |->
                            IF e \in starting /\ ~Stale(e, eiq') /\ eisDev[e] = "resumed"
                            THEN "emulating" ELSE eisDev[e]]
            /\ resumed' = resumed \cup ({d} \cap Listed)
            /\ client # NoConn
        BY <1>4, <3>1 DEF HandleDeviceResumed, StartEmulating, WakesDevices
      <4>2. eisDev \in [Device -> {"absent", "paused", "resumed", "emulating"}]
            /\ emulating \subseteq resumed
        BY DEF IInv, TypeOK, TableInv
      <4> HIDE DEF starting
      <4>3. starting \subseteq resumed'
        BY <4>1 DEF starting
      <4>4. QED BY <4>1, <4>2, <4>3
    <3>2. CASE ~WakesDevices
      BY <1>4, <3>2 DEF HandleDeviceResumed, IInv, TypeOK, TableInv
    <3>3. QED BY <3>1, <3>2
  <2>3. TypeOK'
    <3>1. resumed' \subseteq Device /\ UNCHANGED <<pc, devices, pressed, seat, held>>
      BY <1>4 DEF HandleDeviceResumed, IInv, TypeOK
    <3>2. emulating' \subseteq Device
      BY <2>2, <3>1
    <3>3. eisDev' \in [Device -> {"absent", "paused", "resumed", "emulating"}]
      BY <2>2
    <3>4. QED BY ZenonT(60), <2>1, <3>1, <3>2, <3>3, HandlingTypes DEF IInv, TypeOK
  <2>4. TableInv'
    BY <1>4, <2>1, <2>2, HandlingTypes DEF HandleDeviceResumed, IInv, TableInv, Listed
  <2>5. CompositorInv'
    BY <1>4, <2>1, <2>2, HandlingTypes, StaleTail DEF HandleDeviceResumed, IInv, CompositorInv
  <2>6. QED BY <2>3, <2>4, <2>5 DEF IInv
<1>5. QED BY <1>1, <1>2, <1>3, <1>4
-----------------------------------------------------------------------------
(* The end of the process.                                                 *)
LEMMA EndingSteps ==
    ASSUME IInv, HandleDisconnect \/ Crash
    PROVE  IInv'
<1> USE DEF table, report, daemon, bounds
<1>1. /\ ProcessEnds /\ UNCHANGED <<ready, published, conn, sent, changes>>
      /\ status' \in {status, "disconnected"} /\ crashes' \in {crashes, crashes + 1}
  BY DEF HandleDisconnect, Crash
<1>2. TypeOK'
  BY <1>1 DEF ProcessEnds, IInv, TypeOK
<1>3. TableInv'
  BY <1>1 DEF ProcessEnds, TableInv
<1>4. CompositorInv'
  BY <1>1 DEF ProcessEnds, CompositorInv
<1>5. QED BY <1>2, <1>3, <1>4 DEF IInv

-----------------------------------------------------------------------------
(* The accept phase.                                                       *)
LEMMA AdmitStep ==
    ASSUME IInv, Admit
    PROVE  IInv'
<1> USE DEF events, daemon, bounds
<1>1. /\ pc' = "receive" /\ ready' \in BOOLEAN
      /\ UNCHANGED <<eiq, todo, devices, resumed, pressed, batch, published, status,
                     conn, sent, seat, held, changes, crashes>>
      /\ batch = <<>>
  BY DEF Admit, RequiredCapabilitiesReady, IInv, TableInv
<1>2. CASE /\ MayAdmit /\ client' = Head(backlog) /\ backlog' = Tail(backlog)
           /\ StartEmulating(Listed, resumed, eiq) /\ UNCHANGED wire
  <2>1. client' \in Conn /\ client' # NoConn /\ backlog' \in Seq(Conn)
    BY <1>2, HeadTailProperties, ConnAssumption DEF MayAdmit, IInv, TypeOK
  <2>2. emulating = {} /\ \A d \in Device : eisDev[d] # "emulating" /\ held[d] = {}
    BY <1>2 DEF MayAdmit, IInv, TableInv, CompositorInv
  <2>3. /\ emulating' \subseteq Listed \cap resumed
        /\ eisDev' \in [Device -> {"absent", "paused", "resumed", "emulating"}]
        /\ \A d \in Device : eisDev'[d] = "emulating" => d \in emulating' /\ ~Stale(d, eiq)
    BY <1>2, <2>2 DEF StartEmulating, IInv, TypeOK
  <2>4. TypeOK'
    BY <1>1, <1>2, <2>1, <2>3 DEF IInv, TypeOK
  <2>5. TableInv'
    BY <1>1, <2>1, <2>3 DEF IInv, TableInv, Listed
  <2>6. CompositorInv'
    BY <1>1, <2>2, <2>3 DEF CompositorInv
  <2>7. QED BY <2>4, <2>5, <2>6 DEF IInv
<1>3. CASE /\ UNCHANGED <<client, emulating, eisDev>>
           /\ \/ backlog' = <<>> /\ wire' = [c \in Conn |-> IF c \in ToSet(backlog)
                                                          THEN <<>> ELSE wire[c]]
              \/ UNCHANGED <<backlog, wire>>
  <2>1. /\ backlog \in Seq(Conn) /\ wire \in [Conn -> Seq(InputEvent)]
        /\ <<>> \in Seq(Conn) /\ <<>> \in Seq(InputEvent)
    BY DEF IInv, TypeOK
  <2>1a. backlog' \in Seq(Conn) /\ wire' \in [Conn -> Seq(InputEvent)]
    BY <1>3, <2>1
  <2>2. TypeOK'
    BY <1>1, <1>3, <2>1a DEF IInv, TypeOK
  <2>3. TableInv'
    BY <1>1, <1>3 DEF IInv, TableInv, Listed
  <2>4. CompositorInv'
    BY <1>1, <1>3 DEF IInv, CompositorInv
  <2>5. QED BY <2>2, <2>3, <2>4 DEF IInv
<1>4. QED BY <1>2, <1>3 DEF Admit

-----------------------------------------------------------------------------
(* A reset, whether the channel goes on (batch' = Tail(batch)) or ends.    *)
LEMMA ResetStep ==
    ASSUME IInv, ResetDevices,
           client' \in {client, NoConn}, batch' \in Seq(InputEvent),
           batch' # <<>> => client' # NoConn /\ pc' = "apply",
           pc' \in {"receive", "apply"}, wire' \in [Conn -> Seq(InputEvent)],
           UNCHANGED <<events, report, backlog, daemon, bounds>>
    PROVE  IInv'
<1> USE DEF events, report, daemon, bounds
<1>1. /\ UNCHANGED <<devices, resumed, seat>>
      /\ emulating' = {} /\ pressed' = [d \in Device |-> {}]
      /\ held' = [d \in Device |-> {}]
      /\ eisDev' \in [Device -> {"absent", "paused", "resumed"}]
  BY ResetClears DEF ResetDevices
<1>2. TypeOK'
  BY <1>1 DEF IInv, TypeOK
<1>3. TableInv'
  BY <1>1 DEF IInv, TableInv, Listed
<1>4. CompositorInv'
  BY <1>1 DEF CompositorInv
<1>5. QED BY <1>2, <1>3, <1>4 DEF IInv

LEMMA ReceiveStep ==
    ASSUME IInv, Receive
    PROVE  IInv'
<1> USE DEF table, events, report, daemon, eis, bounds
<1>1. pc' = "apply" /\ batch = <<>> /\ UNCHANGED <<events, report, backlog, daemon, bounds>>
  BY DEF Receive, IInv, TableInv
<1>2. \A c \in Conn : [wire EXCEPT ![c] = <<>>] \in [Conn -> Seq(InputEvent)]
  BY DEF IInv, TypeOK
<1>3. CASE /\ ReceiveFails /\ ResetDevices /\ client' = NoConn
           /\ wire' = [wire EXCEPT ![client] = <<>>] /\ UNCHANGED batch
  <2>1. client \in Conn
    BY <1>3 DEF ReceiveFails, IInv, TypeOK
  <2>2. QED BY <1>1, <1>2, <1>3, <2>1, ResetStep
<1>4. CASE /\ client # NoConn /\ batch' = wire[client]
           /\ wire' = [wire EXCEPT ![client] = <<>>] /\ UNCHANGED <<client, table, eis>>
  <2>1. client \in Conn
    BY <1>4 DEF IInv, TypeOK
  <2>2. TypeOK'
    BY <1>1, <1>2, <1>4, <2>1 DEF IInv, TypeOK
  <2>3. TableInv'
    BY <1>1, <1>4 DEF IInv, TableInv, Listed
  <2>4. CompositorInv'
    BY <1>1, <1>4 DEF IInv, CompositorInv
  <2>5. QED BY <2>2, <2>3, <2>4 DEF IInv
<1>5. CASE UNCHANGED <<client, batch, wire, table, eis>>
  <2>1. TypeOK'
    BY <1>1, <1>5 DEF IInv, TypeOK
  <2>2. TableInv'
    BY <1>1, <1>5 DEF IInv, TableInv, Listed
  <2>3. CompositorInv'
    BY <1>1, <1>5 DEF IInv, CompositorInv
  <2>4. QED BY <2>1, <2>2, <2>3 DEF IInv
<1>6. QED BY <1>3, <1>4, <1>5 DEF Receive
-----------------------------------------------------------------------------
(* One event played on a device.                                           *)
LEMMA PlayStep ==
    ASSUME IInv, NEW event \in InputEvent, NEW d \in Device, Play(d, event),
           d \in resumed, client # NoConn, pc = "apply",
           batch' \in Seq(InputEvent),
           UNCHANGED <<pc, client, wire, events, report, backlog, daemon, bounds>>
    PROVE  IInv'
<1> USE DEF events, report, daemon, bounds
<1> DEFINE eisNow == IF d \notin emulating /\ ~Stale(d, eiq) /\ eisDev[d] = "resumed"
                     THEN "emulating" ELSE eisDev[d]
           heard == ~Stale(d, eiq) /\ eisNow = "emulating"
           mine == [code |-> event.code, by |-> client]
<1>1. /\ emulating' = emulating \cup {d}
      /\ eisDev' = [eisDev EXCEPT ![d] = eisNow]
      /\ UNCHANGED <<devices, resumed, seat>>
  BY DEF Play
<1>2. \/ UNCHANGED <<pressed, held>>
      \/ /\ event.op = "press"
         /\ pressed' = [pressed EXCEPT ![d] = @ \cup {event.code}]
         /\ held' = IF heard THEN [held EXCEPT ![d] = @ \cup {mine}] ELSE held
      \/ /\ event.op = "release"
         /\ pressed' = [pressed EXCEPT ![d] = @ \ {event.code}]
         /\ held' = IF heard THEN [held EXCEPT ![d] = {h \in @ : h.code # event.code}] ELSE held
  BY DEF Play
<1>3. eisNow \in {"absent", "paused", "resumed", "emulating"}
  BY DEF IInv, TypeOK
<1>4. /\ eisNow = "emulating" => ~Stale(d, eiq)
      /\ held[d] # {} => heard
      /\ heard <=> eisNow = "emulating"
  BY DEF IInv, CompositorInv
<1>5. event.op = "press" => event.code \in Code
  BY DEF InputEvent, Transition
<1> HIDE DEF eisNow, heard
<1>6. TypeOK'
  <2>1. eisDev' \in [Device -> {"absent", "paused", "resumed", "emulating"}]
    BY <1>1, <1>3 DEF IInv, TypeOK
  <2>2. pressed' \in [Device -> SUBSET Code]
    <3>1. pressed \in [Device -> SUBSET Code]
      BY DEF IInv, TypeOK
    <3>2. \/ pressed' = pressed
          \/ event.code \in Code /\ pressed' = [pressed EXCEPT ![d] = @ \cup {event.code}]
          \/ pressed' = [pressed EXCEPT ![d] = @ \ {event.code}]
      BY <1>2, <1>5
    <3>3. QED BY <3>1, <3>2
  <2>3. held' \in [Device -> SUBSET [code : Code, by : Conn \cup {NoConn}]]
    <3>1. event.op = "press" => mine \in [code : Code, by : Conn \cup {NoConn}]
      BY <1>5 DEF IInv, TypeOK
    <3> HIDE DEF mine
    <3>2. held \in [Device -> SUBSET [code : Code, by : Conn \cup {NoConn}]]
      BY DEF IInv, TypeOK
    <3>3. \/ held' = held
          \/ /\ mine \in [code : Code, by : Conn \cup {NoConn}]
             /\ held' = [held EXCEPT ![d] = @ \cup {mine}]
          \/ held' = [held EXCEPT ![d] = {h \in @ : h.code # event.code}]
      BY <1>2, <3>1, Zenon
    <3>4. CASE held' = [held EXCEPT ![d] = {h \in @ : h.code # event.code}]
      BY <3>2, <3>4
    <3>5. QED BY <3>2, <3>3, <3>4
  <2>4. QED BY <1>1, <2>1, <2>2, <2>3 DEF IInv, TypeOK
<1>7. TableInv'
  BY <1>1 DEF IInv, TableInv, Listed
<1>8. ASSUME NEW e \in Device
      PROVE  /\ eisDev'[e] = "emulating" => e \in emulating' /\ ~Stale(e, eiq)
             /\ \A h \in held'[e] : eisDev'[e] = "emulating" /\ h.code \in pressed'[e]
                                    /\ h.by = client
  <2>1. CASE e # d
    <3>1. eisDev'[e] = eisDev[e] /\ held'[e] = held[e] /\ pressed'[e] = pressed[e]
      BY <1>1, <1>2, <2>1 DEF IInv, TypeOK
    <3>2. QED BY <1>1, <3>1 DEF IInv, CompositorInv
  <2>2. CASE e = d
    <3>1. eisDev'[d] = eisNow
      BY <1>1 DEF IInv, TypeOK
    <3>2. \A h \in held[d] : h.code \in pressed[d] /\ h.by = client
      BY DEF IInv, CompositorInv
    <3>3. \A h \in held'[d] : heard /\ h.code \in pressed'[d] /\ h.by = client
      <4>1. CASE UNCHANGED <<pressed, held>>
        BY <1>4, <3>2, <4>1
      <4>2. CASE /\ pressed' = [pressed EXCEPT ![d] = @ \cup {event.code}]
                 /\ held' = IF heard THEN [held EXCEPT ![d] = @ \cup {mine}] ELSE held
        <5>1. pressed'[d] = pressed[d] \cup {event.code}
          BY <4>2 DEF IInv, TypeOK
        <5>2. \A h \in held'[d] : heard /\ (h \in held[d] \/ h = mine)
          BY <1>4, <4>2 DEF IInv, TypeOK
        <5>3. QED BY <3>2, <5>1, <5>2
      <4>3. CASE /\ pressed' = [pressed EXCEPT ![d] = @ \ {event.code}]
                 /\ held' = IF heard THEN [held EXCEPT ![d] = {h \in @ : h.code # event.code}]
                            ELSE held
        <5>1. pressed'[d] = pressed[d] \ {event.code}
          BY <4>3 DEF IInv, TypeOK
        <5>2. \A h \in held'[d] : heard /\ h \in held[d] /\ h.code # event.code
          BY <1>4, <4>3 DEF IInv, TypeOK
        <5>3. QED BY <3>2, <5>1, <5>2
      <4>4. QED BY <1>2, <4>1, <4>2, <4>3
    <3>4. QED BY <1>1, <1>4, <2>2, <3>1, <3>3
  <2>3. QED BY <2>1, <2>2
<1>9. CompositorInv'
  BY <1>8 DEF CompositorInv
<1>10. QED BY <1>6, <1>7, <1>9 DEF IInv

LEMMA ApplyStep ==
    ASSUME IInv, Apply
    PROVE  IInv'
<1> DEFINE event == Head(batch)
<1>1. /\ pc = "apply" /\ batch # <<>> /\ client # NoConn
      /\ UNCHANGED <<pc, wire, events, report, backlog, daemon, bounds>>
  BY DEF Apply, IInv, TableInv, events, report, daemon, bounds
<1>2. event \in InputEvent /\ Tail(batch) \in Seq(InputEvent)
  BY <1>1, HeadTailProperties DEF IInv, TypeOK
<1>3. wire \in [Conn -> Seq(InputEvent)] /\ <<>> \in Seq(InputEvent)
  BY DEF IInv, TypeOK
<1>4. CASE ResetDevices /\ batch' = Tail(batch) /\ UNCHANGED client
  BY <1>1, <1>2, <1>3, <1>4, ResetStep
<1>5. CASE ResetDevices /\ batch' = <<>> /\ client' = NoConn
  BY <1>1, <1>3, <1>5, ResetStep
<1>6. ASSUME NEW d \in Device, Chosen(d, Needs(event)), Play(d, event),
             batch' = Tail(batch), UNCHANGED client
      PROVE  IInv'
  <2>1. d \in resumed
    BY <1>6 DEF Chosen
  <2>2. QED BY <1>1, <1>2, <1>6, <2>1, PlayStep
<1>7. QED BY <1>4, <1>5, <1>6 DEF Apply

-----------------------------------------------------------------------------
(* The compositor's own steps.                                             *)
LEMMA CompositorSteps ==
    ASSUME IInv, Compositor
    PROVE  IInv'
<1> USE DEF table, channel, report, daemon
<1>1. ASSUME NEW k, NEW d, Tell(k, d), [kind |-> k, dev |-> d] \in EiEvent
      PROVE  /\ eiq \in Seq(EiEvent) /\ eiq' \in Seq(EiEvent)
             /\ eiq' = Append(eiq, [kind |-> k, dev |-> d]) /\ todo' \in 0..Len(eiq')
             /\ changes' \in Nat
             /\ UNCHANGED <<pc, table, channel, report, daemon, crashes>>
  <2>1. eiq \in Seq(EiEvent) /\ todo \in 0..Len(eiq) /\ changes \in Nat
    BY DEF IInv, TypeOK
  <2>2. /\ Append(eiq, [kind |-> k, dev |-> d]) \in Seq(EiEvent)
        /\ Len(Append(eiq, [kind |-> k, dev |-> d])) = Len(eiq) + 1
    BY <1>1, <2>1, AppendProperties
  <2>3. QED BY <1>1, <2>1, <2>2 DEF Tell
<1>2. CASE OfferSeat
  <2>1. [kind |-> "seat", dev |-> "none"] \in EiEvent
    BY DEF EiEvent
  <2>2. Tell("seat", "none") /\ seat' = "offered" /\ UNCHANGED <<eisDev, held>>
    BY <1>2 DEF OfferSeat
  <2>3. TypeOK'
    BY <1>1, <2>1, <2>2 DEF IInv, TypeOK
  <2>4. TableInv'
    BY <1>1, <2>1, <2>2 DEF IInv, TableInv, Listed
  <2>5. \A e \in Device : Stale(e, eiq') => Stale(e, eiq)
    BY <1>1, <2>1, <2>2, StaleAppend, DeviceAssumption
  <2>6. CompositorInv'
    BY <1>1, <2>1, <2>2, <2>5 DEF IInv, CompositorInv
  <2>7. QED BY <2>3, <2>4, <2>6 DEF IInv
<1>3. ASSUME NEW d \in Device, NEW from, NEW to \in {"absent", "paused", "resumed"},
             NEW k \in {"added", "removed", "paused", "resumed"},
             ChangeDevice(d, from, to, k)
      PROVE  IInv'
  <2>1. [kind |-> k, dev |-> d] \in EiEvent
    BY DEF EiEvent, DeviceEvent
  <2>2. /\ Tell(k, d) /\ UNCHANGED seat
        /\ eisDev' = [eisDev EXCEPT ![d] = to] /\ held' = [held EXCEPT ![d] = {}]
    BY <1>3 DEF ChangeDevice
  <2>3. TypeOK'
    BY SMTT(30), <1>1, <2>1, <2>2 DEF IInv, TypeOK
  <2>4. TableInv'
    BY <1>1, <2>1, <2>2 DEF IInv, TableInv, Listed
  <2>5. \A e \in Device : e # d /\ Stale(e, eiq') => Stale(e, eiq)
    BY <1>1, <2>1, <2>2, StaleAppend
  <2>6. CompositorInv'
    BY <1>1, <2>1, <2>2, <2>5 DEF IInv, TypeOK, CompositorInv
  <2>7. QED BY <2>3, <2>4, <2>6 DEF IInv
<1>4. CASE Disconnect
  <2>1. [kind |-> "disconnect", dev |-> "none"] \in EiEvent
    BY DEF EiEvent
  <2>2. /\ Tell("disconnect", "none") /\ seat' = "gone"
        /\ eisDev' = [e \in Device |-> "absent"] /\ held' = [e \in Device |-> {}]
    BY <1>4 DEF Disconnect
  <2>3. TypeOK'
    BY <1>1, <2>1, <2>2 DEF IInv, TypeOK
  <2>4. TableInv'
    BY <1>1, <2>1, <2>2 DEF IInv, TableInv, Listed
  <2>5. CompositorInv'
    BY <2>2 DEF CompositorInv
  <2>6. QED BY <2>3, <2>4, <2>5 DEF IInv
<1>5. QED BY <1>2, <1>3, <1>4
          DEF Compositor, AddDevice, ResumeDevice, PauseDevice, RemoveDevice
-----------------------------------------------------------------------------
(* Type correctness, the table invariant and the compositor invariant      *)
(* together are inductive.                                                 *)
THEOREM Inductive == IInv /\ [Next]_vars => IInv'
<1> SUFFICES ASSUME IInv, [Next]_vars PROVE IInv'
  OBVIOUS
<1>1. CASE FailToStart \/ BindSocket \/ Announce \/ Dispatch \/ Publish
  BY <1>1, QuietSteps
<1>2. CASE Relay
  BY <1>2, QuietSteps DEF Relay
<1>3. CASE UNCHANGED vars
  BY <1>3, QuietSteps
<1>4. CASE \E d \in Device : HandleDeviceEvent(d)
  BY <1>4, HandledSteps DEF HandleDeviceEvent
<1>5. CASE HandleSeatAdded
  BY <1>5, SeatStep
<1>6. CASE HandleDisconnect \/ Crash
  BY <1>6, EndingSteps
<1>7. CASE Admit
  BY <1>7, AdmitStep
<1>8. CASE Receive
  BY <1>8, ReceiveStep
<1>9. CASE Apply
  BY <1>9, ApplyStep
<1>10. CASE Compositor
  BY <1>10, CompositorSteps
<1>11. QED
  BY <1>1, <1>2, <1>3, <1>4, <1>5, <1>6, <1>7, <1>8, <1>9, <1>10 DEF Next, Agent, Loop

LEMMA InitIInv == Init => IInv
<1> SUFFICES ASSUME Init PROVE IInv
  OBVIOUS
<1>1. TypeOK
  <2>1. eiq \in Seq(EiEvent) /\ todo \in 0..Len(eiq)
    BY DEF Init
  <2>2. /\ devices \in Seq(Device) /\ batch \in Seq(InputEvent) /\ backlog \in Seq(Conn)
        /\ wire \in [Conn -> Seq(InputEvent)]
    BY DEF Init
  <2>3. QED BY <2>1, <2>2 DEF Init, TypeOK
<1>2. TableInv
  BY DEF Init, TableInv
<1>3. CompositorInv
  BY DEF Init, CompositorInv
<1>4. QED BY <1>1, <1>2, <1>3 DEF IInv

(* Every variable of the agent, its compositor and its relays keeps its    *)
(* type, for any number of devices, connections and events.                *)
THEOREM TypeCorrect == Spec => []TypeOK
<1>1. IInv => TypeOK
  BY DEF IInv
<1>2. QED BY <1>1, InitIInv, Inductive, PTL DEF Spec

(* No key or button is ever down in the desktop except for the client that *)
(* pressed it and still holds the channel.                                 *)
THEOREM HeldSafety == Spec => []HeldByCurrentClient
<1>1. IInv => HeldByCurrentClient
  BY DEF IInv, TypeOK, TableInv, CompositorInv, HeldByCurrentClient
<1>2. QED BY <1>1, InitIInv, Inductive, PTL DEF Spec

(* No virtual device emulates while nobody holds the channel.              *)
THEOREM EmulationSafety == Spec => []NoEmulationWithoutClient
<1>1. IInv => NoEmulationWithoutClient
  BY DEF IInv, TableInv, NoEmulationWithoutClient
<1>2. QED BY <1>1, InitIInv, Inductive, PTL DEF Spec
-----------------------------------------------------------------------------
(* How a step of the whole system looks from the seat: nothing, the        *)
(* channel ends, something is lifted, somebody sits down, a code goes down.*)
NothingSeen == UNCHANGED <<client, held>>
ChannelEnds == client' = NoConn /\ held' = [d \in Device |-> {}]
Lifted == UNCHANGED client /\ \A d \in Device : held'[d] \subseteq held[d]
SeatTaken == client = NoConn /\ client' \in Conn /\ UNCHANGED held
CodeDown == /\ client # NoConn /\ UNCHANGED client
            /\ \E d \in Device, k \in Code :
                 held' = [held EXCEPT ![d] = @ \cup {[code |-> k, by |-> client]}]

LEMMA SeatView ==
    ASSUME IInv, [Next]_vars
    PROVE  NothingSeen \/ ChannelEnds \/ Lifted \/ SeatTaken \/ CodeDown
<1> USE DEF table, events, channel, report, daemon, eis, bounds
<1>1. CASE FailToStart \/ BindSocket \/ Announce \/ Dispatch \/ Publish
  BY <1>1 DEF FailToStart, BindSocket, Announce, Dispatch, Publish, NothingSeen
<1>2. CASE Relay
  BY <1>2 DEF Relay, CheckStatus, Connect, Send, Close, Drop, NothingSeen
<1>3. CASE UNCHANGED vars
  BY <1>3 DEF vars, NothingSeen
<1>4. CASE HandleSeatAdded \/ \E d \in Device : HandleDeviceEvent(d)
  BY <1>4 DEF HandleSeatAdded, HandleDeviceEvent, HandleDeviceAdded, HandleDeviceRemoved,
              HandleDevicePaused, HandleDeviceResumed, Handling, NothingSeen
<1>5. CASE HandleDisconnect \/ Crash
  BY <1>5 DEF HandleDisconnect, Crash, ProcessEnds, ChannelEnds
<1>6. CASE Admit
  <2>1. MayAdmit => Head(backlog) \in Conn
    BY HeadTailProperties DEF MayAdmit, IInv, TypeOK
  <2>2. QED BY <1>6, <2>1 DEF Admit, MayAdmit, SeatTaken, NothingSeen
<1>7. CASE Receive
  BY <1>7, ResetClears DEF Receive, ChannelEnds, NothingSeen
<1>8. CASE Apply
  <2> DEFINE event == Head(batch)
  <2>1. client # NoConn /\ event \in InputEvent
    BY <1>8, HeadTailProperties DEF Apply, IInv, TypeOK, TableInv
  <2>2. CASE ResetDevices /\ client' = NoConn
    BY <2>2, ResetClears DEF ChannelEnds
  <2>3. CASE ResetDevices /\ UNCHANGED client
    BY <2>3, ResetClears DEF Lifted
  <2>4. ASSUME NEW d \in Device, Play(d, event), UNCHANGED client
        PROVE  NothingSeen \/ Lifted \/ CodeDown
    <3>1. CASE event.op = "press" /\ held' # held
      <4>1. held' = [held EXCEPT ![d] = @ \cup {[code |-> event.code, by |-> client]}]
        BY <2>4, <3>1 DEF Play
      <4>2. event.code \in Code
        BY <2>1, <3>1 DEF InputEvent, Transition
      <4>3. QED BY <2>1, <2>4, <4>1, <4>2 DEF CodeDown
    <3>2. CASE event.op # "press" /\ held' # held
      <4>1. held' = [held EXCEPT ![d] = {h \in @ : h.code # event.code}]
        BY <2>4, <3>2 DEF Play
      <4>2. QED BY <2>4, <4>1 DEF Lifted, IInv, TypeOK
    <3>3. CASE held' = held
      BY <2>4, <3>3 DEF NothingSeen
    <3>4. QED BY <3>1, <3>2, <3>3
  <2>5. QED BY <1>8, <2>2, <2>3, <2>4 DEF Apply
<1>9. CASE Compositor
  <2>1. CASE OfferSeat
    BY <2>1 DEF OfferSeat, Tell, NothingSeen
  <2>2. ASSUME NEW d \in Device, NEW from, NEW to, NEW k, ChangeDevice(d, from, to, k)
        PROVE  Lifted
    <3>1. UNCHANGED client /\ held' = [held EXCEPT ![d] = {}]
      BY <2>2 DEF ChangeDevice, Tell
    <3>2. QED BY <3>1 DEF Lifted, IInv, TypeOK
  <2>3. CASE Disconnect
    BY <2>3 DEF Disconnect, Tell, Lifted
  <2>4. QED BY <1>9, <2>1, <2>2, <2>3
            DEF Compositor, AddDevice, ResumeDevice, PauseDevice, RemoveDevice
<1>10. QED
  BY <1>1, <1>2, <1>3, <1>4, <1>5, <1>6, <1>7, <1>8, <1>9 DEF Next, Agent, Loop

(* Without a client nothing is down.                                       *)
LEMMA NobodyHolds ==
    ASSUME IInv, client = NoConn
    PROVE  Down = {} /\ \A d \in Device : held[d] = {}
BY DEF IInv, TypeOK, TableInv, CompositorInv, Down, HeldCodes

LEMMA SeatStepMaps ==
    ASSUME IInv, IInv', NothingSeen \/ ChannelEnds \/ Lifted \/ SeatTaken \/ CodeDown
    PROVE  [Seat!Next]_<<client, Down>>
<1>1. CASE NothingSeen
  BY <1>1 DEF NothingSeen, Down, HeldCodes
<1>2. CASE ChannelEnds
  <2>1. Down' = {} /\ client' = NoConn
    BY <1>2 DEF ChannelEnds, Down, HeldCodes
  <2>2. QED BY <2>1, NobodyHolds DEF Seat!Next, Seat!Leave
<1>3. CASE Lifted
  <2>1. Down' \subseteq Down /\ UNCHANGED client
    BY <1>3 DEF Lifted, Down, HeldCodes
  <2>2. QED BY <2>1, NobodyHolds DEF Seat!Next, Seat!Lift
<1>4. CASE SeatTaken
  <2>1. UNCHANGED Down
    BY <1>4 DEF SeatTaken, Down, HeldCodes
  <2>2. QED BY <1>4, <2>1 DEF SeatTaken, Seat!Next, Seat!Take
<1>5. CASE CodeDown
  <2>1. PICK d \in Device, k \in Code :
            held' = [held EXCEPT ![d] = @ \cup {[code |-> k, by |-> client]}]
    BY <1>5 DEF CodeDown
  <2>2. \A e \in Device : HeldCodes(e)' = IF e = d THEN HeldCodes(e) \cup {k} ELSE HeldCodes(e)
    <3>1. held \in [Device -> SUBSET [code : Code, by : Conn \cup {NoConn}]]
      BY DEF IInv, TypeOK
    <3>2. held'[d] = held[d] \cup {[code |-> k, by |-> client]}
          /\ \A e \in Device : e # d => held'[e] = held[e]
      BY <2>1, <3>1
    <3>3. HeldCodes(d)' = HeldCodes(d) \cup {k}
      <4> DEFINE m == [code |-> k, by |-> client]
      <4>1. m.code = k
        OBVIOUS
      <4> HIDE DEF m
      <4>2. held'[d] = held[d] \cup {m}
        BY <3>2 DEF m
      <4>3. QED BY <4>1, <4>2 DEF HeldCodes
    <3>4. \A e \in Device : e # d => HeldCodes(e)' = HeldCodes(e)
      BY <3>2 DEF HeldCodes
    <3>5. QED BY <3>3, <3>4
  <2>3. Down' = Down \cup {k}
    BY <2>2 DEF Down
  <2>4. QED BY <1>5, <2>3 DEF CodeDown, Seat!Next, Seat!Press
<1>6. QED BY <1>1, <1>2, <1>3, <1>4, <1>5

(* Seen from the desktop the agent is a seat: one occupant at a time, and  *)
(* everything the occupant pressed is lifted when it goes.                 *)
THEOREM SeatRefinement == Spec => ImplementsSeat
<1>1. Init => Seat!Init
  BY DEF Init, Seat!Init, Down, HeldCodes
<1>2. IInv /\ IInv' /\ [Next]_vars => [Seat!Next]_<<client, Down>>
  BY SeatView, SeatStepMaps
<1>3. QED
  BY <1>1, <1>2, InitIInv, Inductive, PTL DEF Spec, ImplementsSeat, Seat!Spec

-----------------------------------------------------------------------------
(* The relay of a connection is dropped only when the agent has read its   *)
(* events, but for resets, and the agent does not crash.                   *)
OnlyResets(c) == \A i \in 1..Len(wire[c]) : wire[c][i].op = "reset"
Dropped(c) == conn[c] \in {"open", "closing"} /\ conn'[c] = "closed"
ClosesWhenRead ==
    [][/\ \A c \in Conn : Dropped(c) => OnlyResets(c)
       /\ UNCHANGED crashes]_vars

(* Then nothing but resets is unread of a connection that is closed.       *)
ClosedInv ==
    \A c \in Conn : /\ conn[c] = "closed" => OnlyResets(c)
                    /\ conn[c] \in {"idle", "checked"} => wire[c] = <<>>

LEMMA ResetsEmpty == ASSUME NEW c, wire[c] = <<>> PROVE OnlyResets(c)
BY DEF OnlyResets

LEMMA ClosedStep ==
    IInv /\ ClosedInv /\ [Next]_vars
        /\ [/\ \A c \in Conn : Dropped(c) => OnlyResets(c)
            /\ UNCHANGED crashes]_vars => ClosedInv'
<1> SUFFICES ASSUME IInv, ClosedInv, [Next]_vars,
                    [/\ \A c \in Conn : Dropped(c) => OnlyResets(c)
                     /\ UNCHANGED crashes]_vars
             PROVE  ClosedInv'
  OBVIOUS
<1> USE DEF table, events, channel, report, daemon, eis, bounds
<1>0. TypeOK
  BY DEF IInv
<1>1. CASE UNCHANGED <<conn, wire>>
  BY <1>1 DEF ClosedInv, OnlyResets
<1>2. ASSUME UNCHANGED conn, \A c \in Conn : wire'[c] \in {<<>>, wire[c]} PROVE ClosedInv'
  BY <1>2 DEF ClosedInv, OnlyResets
<1>3. CASE UNCHANGED vars \/ FailToStart \/ BindSocket \/ Announce \/ Dispatch \/ Apply \/ Publish
           \/ HandleSeatAdded \/ \E d \in Device : HandleDeviceEvent(d)
  BY <1>1, <1>3 DEF vars, FailToStart, BindSocket, Announce, Dispatch, Apply, Publish,
     HandleSeatAdded, HandleDeviceEvent, HandleDeviceAdded, HandleDeviceRemoved,
     HandleDevicePaused, HandleDeviceResumed, Handling
<1>4. CASE Compositor
  BY <1>1, <1>4 DEF Compositor, OfferSeat, AddDevice, ResumeDevice, PauseDevice, RemoveDevice,
     ChangeDevice, Disconnect, Tell
<1>5. CASE HandleDisconnect \/ Crash
  BY <1>2, <1>5 DEF HandleDisconnect, Crash, ProcessEnds
<1>6. CASE Admit \/ Receive
  BY <1>0, <1>2, <1>6 DEF Admit, Receive, TypeOK
<1>7. ASSUME NEW c \in Conn, CheckStatus(c) \/ Connect(c) PROVE ClosedInv'
  BY SMTT(30), <1>0, <1>7, ResetsEmpty
     DEF CheckStatus, Connect, ClosedInv, OnlyResets, TypeOK
<1>8. ASSUME NEW c \in Conn, Send(c) \/ Close(c) \/ Drop(c), ~UNCHANGED vars PROVE ClosedInv'
  <2>1. \A b \in Conn \ {c} : conn'[b] = conn[b] /\ wire'[b] = wire[b]
    BY <1>0, <1>8 DEF Send, Close, Drop, TypeOK
  <2>2. conn[c] \in {"open", "closing"} /\ conn'[c] \in {"open", "closing", "closed"}
    BY <1>0, <1>8 DEF Send, Close, Drop, TypeOK
  <2>3. ASSUME conn'[c] = "closed" PROVE OnlyResets(c)'
    <3>1. OnlyResets(c)
      BY <1>8, <2>2, <2>3 DEF Dropped
    <3>2. wire'[c] = wire[c]
      BY <1>0, <1>8, <2>2, <2>3 DEF Send, Close, Drop, TypeOK
    <3>3. QED BY <3>1, <3>2 DEF OnlyResets
  <2>4. QED BY <2>1, <2>2, <2>3 DEF ClosedInv, OnlyResets
<1>9. QED BY <1>3, <1>4, <1>5, <1>6, <1>7, <1>8 DEF Next, Agent, Loop, Relay

(* Where connections are closed only when the agent has read what they     *)
(* wrote, and the agent does not crash, whatever is written is played: the *)
(* end of the connection overtaking its events is the only way to lose     *)
(* them (input_agent.rs 133-163).                                          *)
THEOREM WrittenPlayed == Spec /\ ClosesWhenRead => WrittenIsPlayed
<1>1. Init => ClosedInv
  BY DEF Init, ClosedInv
<1>2. ASSUME IInv, ClosedInv, [Next]_vars, crashes' = crashes,
             pc = "receive", client # NoConn, client' = NoConn, Len(wire[client]) <= BufferLimit,
             \A i \in 1..Len(wire[client]) : wire[client][i].op # "malformed"
      PROVE  \A i \in 1..Len(wire[client]) : wire[client][i].op = "reset"
  <2> USE DEF table, events, channel, report, daemon, eis, bounds
  <2>1. TypeOK
    BY <1>2 DEF IInv
  <2>2. ~UNCHANGED vars /\ ~Relay /\ ~Compositor
    BY <1>2 DEF vars, Relay, CheckStatus, Connect, Send, Close, Drop, Compositor, OfferSeat, AddDevice,
       ResumeDevice, PauseDevice, RemoveDevice, ChangeDevice, Disconnect, Tell
  <2>3. ~Crash
    BY <1>2, <2>1 DEF Crash, TypeOK
  <2>4. Receive
    BY <1>2, <2>2, <2>3 DEF Next, Agent, FailToStart, BindSocket, Loop, Announce, Dispatch,
       HandleSeatAdded, HandleDeviceEvent, HandleDeviceAdded, HandleDeviceRemoved,
       HandleDevicePaused, HandleDeviceResumed, Handling, HandleDisconnect, Admit, Apply, Publish
  <2>5. client \in Conn /\ conn[client] = "closed"
    <3>1. client \in Conn /\ ReceiveFails
      BY <1>2, <2>1, <2>4 DEF Receive, TypeOK
    <3>2. ~(Len(wire[client]) > BufferLimit)
      <4>1. Len(wire[client]) \in Nat /\ BufferLimit \in Nat
        BY <2>1, <3>1, BoundAssumption, LenProperties DEF TypeOK
      <4>2. QED BY <1>2, <4>1
    <3>3. QED BY <1>2, <3>1, <3>2, Zenon DEF ReceiveFails
  <2>6. QED BY <1>2, <2>5 DEF ClosedInv, OnlyResets
<1>3. IInv /\ ClosedInv /\ [Next]_vars
        /\ [/\ \A c \in Conn : Dropped(c) => OnlyResets(c)
            /\ UNCHANGED crashes]_vars
      => [(/\ pc = "receive" /\ client # NoConn /\ client' = NoConn
           /\ Len(wire[client]) <= BufferLimit
           /\ \A i \in 1..Len(wire[client]) : wire[client][i].op # "malformed")
         => \A i \in 1..Len(wire[client]) : wire[client][i].op = "reset"]_vars
  <2>1. vars' = vars => crashes' = crashes
    BY DEF vars, bounds
  <2>2. QED BY <1>2, <2>1
<1>4. QED BY <1>1, <1>3, ClosedStep, InitIInv, Inductive, PTL
         DEF Spec, WrittenIsPlayed, ClosesWhenRead
=============================================================================
