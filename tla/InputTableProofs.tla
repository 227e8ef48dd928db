--------------------------- MODULE InputTableProofs ---------------------------
(***************************************************************************)
(* The input agent's table: that it agrees with the compositor it          *)
(* describes, for any devices, codes, connections and bounds.  The agent   *)
(* learns of the compositor only through the queue of its events, so the   *)
(* invariant says what that queue still has to tell about each device.     *)
(***************************************************************************)
EXTENDS InputAgentProofs

(* The state of a device in the table, and in the compositor, where        *)
(* emulation is the agent's doing and no news.                             *)
TableState(d) == IF d \notin Listed THEN "absent"
                 ELSE IF d \in resumed THEN "resumed" ELSE "paused"
EisState(d) == IF eisDev[d] = "emulating" THEN "resumed" ELSE eisDev[d]

(* What an event makes of a device, and when the compositor sends it.      *)
Outcome(kind) == CASE kind = "resumed" -> "resumed"
                   [] kind = "removed" -> "absent"
                   [] OTHER            -> "paused"
Legal(s, kind) == CASE kind = "added"   -> s = "absent"
                    [] kind = "resumed" -> s = "paused"
                    [] kind = "paused"  -> s = "resumed"
                    [] OTHER            -> s # "absent"

(* The events of q about d lead, each legally, from state s to state t.    *)
Story(q, d, s, t) ==
    /\ \A i \in 1..Len(q) :
          (q[i].dev = d /\ \A k \in 1..(i - 1) : q[k].dev # d) => Legal(s, q[i].kind)
    /\ \A i, j \in 1..Len(q) :
          (i < j /\ q[i].dev = d /\ q[j].dev = d /\ \A k \in (i + 1)..(j - 1) : q[k].dev # d)
              => Legal(Outcome(q[i].kind), q[j].kind)
    /\ \A i \in 1..Len(q) :
          (q[i].dev = d /\ \A k \in (i + 1)..Len(q) : q[k].dev # d) => t = Outcome(q[i].kind)
    /\ (\A i \in 1..Len(q) : q[i].dev # d) => t = s

Ended(q) == \E i \in 1..Len(q) : q[i].kind = "disconnect"

Told(d) == \E t \in {"absent", "paused", "resumed"} :
              Story(eiq, d, TableState(d), t) /\ (~Ended(eiq) => t = EisState(d))

QueueInv == /\ \A d \in Device : Caps[d] # {} => Told(d)
            /\ Ended(eiq) => seat = "gone"

DevicesInv ==
    /\ \A i, j \in 1..Len(devices) : devices[i] = devices[j] => i = j
    /\ \A d \in Listed : Caps[d] # {}
    /\ \A d \in Device : pressed[d] # {} => d \in emulating
    /\ \A d \in Device : \A k \in pressed[d] : CodeCap[k] \in Caps[d]

AgreeInv == DevicesInv /\ QueueInv /\ TableAgrees

-----------------------------------------------------------------------------
(* Stories: what a queue of events tells about one device.                 *)

(* Nothing to tell.                                                        *)
LEMMA StoryEmpty ==
    ASSUME NEW d, NEW s
    PROVE  Story(<<>>, d, s, s) /\ ~Ended(<<>>)
BY DEF Story, Ended

(* A device that no event is about is where it was.                        *)
LEMMA StorySettled ==
    ASSUME NEW q \in Seq(EiEvent), NEW d, NEW s, NEW t, Story(q, d, s, t), ~Stale(d, q)
    PROVE  s = t /\ ~Ended(q)
BY DEF Story, Stale, Ended

(* Handling the oldest event tells the story's first step.                 *)
LEMMA StoryTail ==
    ASSUME NEW q \in Seq(EiEvent), q # <<>>, NEW d, NEW s, NEW t, Story(q, d, s, t)
    PROVE  /\ Head(q).dev # d => Story(Tail(q), d, s, t)
           /\ Head(q).dev = d => /\ Legal(s, Head(q).kind)
                                 /\ Story(Tail(q), d, Outcome(Head(q).kind), t)
<1> DEFINE r == Tail(q)
<1>1. /\ r \in Seq(EiEvent) /\ Len(r) = Len(q) - 1 /\ Len(q) \in Nat \ {0}
      /\ \A i \in 1..Len(r) : r[i] = q[i + 1]
      /\ Head(q) = q[1]
  BY HeadTailProperties, LenProperties
<1> HIDE DEF r
<1>2. \A i, j \in 1..Len(r) :
         (i < j /\ r[i].dev = d /\ r[j].dev = d /\ \A k \in (i + 1)..(j - 1) : r[k].dev # d)
             => Legal(Outcome(r[i].kind), r[j].kind)
  <2> SUFFICES ASSUME NEW i \in 1..Len(r), NEW j \in 1..Len(r), i < j, r[i].dev = d, r[j].dev = d,
                      \A k \in (i + 1)..(j - 1) : r[k].dev # d
               PROVE  Legal(Outcome(r[i].kind), r[j].kind)
    OBVIOUS
  <2>1. \A k \in (i + 2)..j : q[k].dev # d
    <3> TAKE k \in (i + 2)..j
    <3>1. k - 1 \in (i + 1)..(j - 1) /\ k - 1 \in 1..Len(r) /\ (k - 1) + 1 = k
      OBVIOUS
    <3>2. QED BY <1>1, <3>1
  <2>2. i + 1 \in 1..Len(q) /\ j + 1 \in 1..Len(q) /\ i + 1 < j + 1
        /\ q[i + 1] = r[i] /\ q[j + 1] = r[j]
    BY <1>1
  <2>3. \A k \in ((i + 1) + 1)..((j + 1) - 1) : q[k].dev # d
    BY <2>1
  <2>4. QED BY <2>2, <2>3 DEF Story
<1>3. \A i \in 1..Len(r) :
         (r[i].dev = d /\ \A k \in (i + 1)..Len(r) : r[k].dev # d) => t = Outcome(r[i].kind)
  <2> SUFFICES ASSUME NEW i \in 1..Len(r), r[i].dev = d, \A k \in (i + 1)..Len(r) : r[k].dev # d
               PROVE  t = Outcome(r[i].kind)
    OBVIOUS
  <2>1. \A k \in ((i + 1) + 1)..Len(q) : q[k].dev # d
    <3> TAKE k \in ((i + 1) + 1)..Len(q)
    <3>1. k - 1 \in (i + 1)..Len(r) /\ k - 1 \in 1..Len(r) /\ (k - 1) + 1 = k
      BY <1>1
    <3>2. QED BY <1>1, <3>1
  <2>2. i + 1 \in 1..Len(q) /\ q[i + 1] = r[i]
    BY <1>1
  <2>3. QED BY <2>1, <2>2 DEF Story
<1>4. CASE q[1].dev # d
  <2>1. \A i \in 1..Len(r) :
           (r[i].dev = d /\ \A k \in 1..(i - 1) : r[k].dev # d) => Legal(s, r[i].kind)
    <3> SUFFICES ASSUME NEW i \in 1..Len(r), r[i].dev = d, \A k \in 1..(i - 1) : r[k].dev # d
                 PROVE  Legal(s, r[i].kind)
      OBVIOUS
    <3>1. \A k \in 1..((i + 1) - 1) : q[k].dev # d
      <4> TAKE k \in 1..((i + 1) - 1)
      <4>1. CASE k = 1 BY <1>4, <4>1
      <4>2. CASE k > 1
        <5>1. k - 1 \in 1..(i - 1) /\ k - 1 \in 1..Len(r) /\ (k - 1) + 1 = k
          BY <4>2
        <5>2. QED BY <1>1, <5>1
      <4>3. QED BY <4>1, <4>2
    <3>2. i + 1 \in 1..Len(q) /\ q[i + 1] = r[i]
      BY <1>1
    <3>3. QED BY <3>1, <3>2 DEF Story
  <2>2. (\A i \in 1..Len(r) : r[i].dev # d) => t = s
    <3> HAVE \A i \in 1..Len(r) : r[i].dev # d
    <3>1. \A i \in 1..Len(q) : q[i].dev # d
      <4> TAKE i \in 1..Len(q)
      <4>1. CASE i = 1 BY <1>4, <4>1
      <4>2. CASE i > 1
        <5>1. i - 1 \in 1..Len(r) /\ (i - 1) + 1 = i
          BY <1>1, <4>2
        <5>2. QED BY <1>1, <5>1
      <4>3. QED BY <4>1, <4>2
    <3>2. QED BY <3>1 DEF Story
  <2>3. QED BY <1>1, <1>2, <1>3, <1>4, <2>1, <2>2 DEF Story, r
<1>5. CASE q[1].dev = d
  <2>1. Legal(s, q[1].kind)
    BY <1>1, <1>5 DEF Story
  <2>2. \A i \in 1..Len(r) :
           (r[i].dev = d /\ \A k \in 1..(i - 1) : r[k].dev # d)
               => Legal(Outcome(q[1].kind), r[i].kind)
    <3> SUFFICES ASSUME NEW i \in 1..Len(r), r[i].dev = d, \A k \in 1..(i - 1) : r[k].dev # d
                 PROVE  Legal(Outcome(q[1].kind), r[i].kind)
      OBVIOUS
    <3>1. \A k \in (1 + 1)..((i + 1) - 1) : q[k].dev # d
      <4> TAKE k \in (1 + 1)..((i + 1) - 1)
      <4>1. k - 1 \in 1..(i - 1) /\ k - 1 \in 1..Len(r) /\ (k - 1) + 1 = k
        OBVIOUS
      <4>2. QED BY <1>1, <4>1
    <3>2. i + 1 \in 1..Len(q) /\ q[i + 1] = r[i] /\ 1 \in 1..Len(q) /\ 1 < i + 1
      BY <1>1
    <3>3. QED BY <1>5, <3>1, <3>2 DEF Story
  <2>3. (\A i \in 1..Len(r) : r[i].dev # d) => t = Outcome(q[1].kind)
    <3> HAVE \A i \in 1..Len(r) : r[i].dev # d
    <3>1. \A k \in (1 + 1)..Len(q) : q[k].dev # d
      <4> TAKE k \in (1 + 1)..Len(q)
      <4>1. k - 1 \in 1..Len(r) /\ (k - 1) + 1 = k
        BY <1>1
      <4>2. QED BY <1>1, <4>1
    <3>2. QED BY <1>1, <1>5, <3>1 DEF Story
  <2>4. QED BY <1>1, <1>2, <1>3, <1>5, <2>1, <2>2, <2>3 DEF Story, r
<1>6. QED BY <1>1, <1>4, <1>5 DEF r

(* A new event goes on from where the story ended.                         *)
LEMMA StoryAppend ==
    ASSUME NEW q \in Seq(EiEvent), NEW e \in EiEvent, NEW d, NEW s, NEW t, Story(q, d, s, t),
           e.dev = d => Legal(t, e.kind)
    PROVE  Story(Append(q, e), d, s, IF e.dev = d THEN Outcome(e.kind) ELSE t)
<1> DEFINE r == Append(q, e)
           u == IF e.dev = d THEN Outcome(e.kind) ELSE t
<1>1. /\ r \in Seq(EiEvent) /\ Len(r) = Len(q) + 1 /\ Len(q) \in Nat
      /\ \A i \in 1..Len(q) : r[i] = q[i]
      /\ r[Len(q) + 1] = e
  BY AppendProperties, LenProperties
<1> HIDE DEF r, u
<1>2. \A i \in 1..Len(r) :
         (r[i].dev = d /\ \A k \in 1..(i - 1) : r[k].dev # d) => Legal(s, r[i].kind)
  <2> SUFFICES ASSUME NEW i \in 1..Len(r), r[i].dev = d, \A k \in 1..(i - 1) : r[k].dev # d
               PROVE  Legal(s, r[i].kind)
    OBVIOUS
  <2>1. CASE i <= Len(q)
    <3>1. \A k \in 1..(i - 1) : q[k].dev # d
      BY <1>1, <2>1
    <3>2. QED BY <1>1, <2>1, <3>1 DEF Story
  <2>2. CASE i = Len(q) + 1
    <3>1. \A k \in 1..Len(q) : q[k].dev # d
      BY <1>1, <2>2
    <3>2. t = s
      BY <3>1 DEF Story
    <3>3. QED BY <1>1, <2>2, <3>2
  <2>3. QED BY <1>1, <2>1, <2>2
<1>3. \A i, j \in 1..Len(r) :
         (i < j /\ r[i].dev = d /\ r[j].dev = d /\ \A k \in (i + 1)..(j - 1) : r[k].dev # d)
             => Legal(Outcome(r[i].kind), r[j].kind)
  <2> SUFFICES ASSUME NEW i \in 1..Len(r), NEW j \in 1..Len(r), i < j, r[i].dev = d, r[j].dev = d,
                      \A k \in (i + 1)..(j - 1) : r[k].dev # d
               PROVE  Legal(Outcome(r[i].kind), r[j].kind)
    OBVIOUS
  <2>1. i \in 1..Len(q) /\ r[i] = q[i]
    BY <1>1
  <2>2. CASE j <= Len(q)
    <3>1. \A k \in (i + 1)..(j - 1) : q[k].dev # d
      BY <1>1, <2>2
    <3>2. QED BY <1>1, <2>1, <2>2, <3>1 DEF Story
  <2>3. CASE j = Len(q) + 1
    <3>1. \A k \in (i + 1)..Len(q) : q[k].dev # d
      BY <1>1, <2>3
    <3>2. t = Outcome(q[i].kind)
      BY <2>1, <3>1 DEF Story
    <3>3. QED BY <1>1, <2>1, <2>3, <3>2
  <2>4. QED BY <1>1, <2>2, <2>3
<1>4. \A i \in 1..Len(r) :
         (r[i].dev = d /\ \A k \in (i + 1)..Len(r) : r[k].dev # d) => u = Outcome(r[i].kind)
  <2> SUFFICES ASSUME NEW i \in 1..Len(r), r[i].dev = d, \A k \in (i + 1)..Len(r) : r[k].dev # d
               PROVE  u = Outcome(r[i].kind)
    OBVIOUS
  <2>1. CASE i <= Len(q)
    <3>1. e.dev # d
      BY <1>1, <2>1
    <3>2. \A k \in (i + 1)..Len(q) : q[k].dev # d
      BY <1>1, <2>1
    <3>3. QED BY <1>1, <2>1, <3>1, <3>2 DEF Story, u
  <2>2. CASE i = Len(q) + 1
    BY <1>1, <2>2 DEF u
  <2>3. QED BY <1>1, <2>1, <2>2
<1>5. (\A i \in 1..Len(r) : r[i].dev # d) => u = s
  <2> HAVE \A i \in 1..Len(r) : r[i].dev # d
  <2>1. e.dev # d /\ \A i \in 1..Len(q) : q[i].dev # d
    BY <1>1
  <2>2. QED BY <2>1 DEF Story, u
<1>6. Story(r, d, s, u)
  BY <1>2, <1>3, <1>4, <1>5 DEF Story
<1>7. QED BY <1>6 DEF r, u

(* A queue ends with the disconnect it was given.                          *)
LEMMA EndedTail ==
    ASSUME NEW q \in Seq(EiEvent), q # <<>>
    PROVE  Ended(Tail(q)) => Ended(q)
BY HeadTailProperties DEF Ended

LEMMA EndedHead ==
    ASSUME NEW q \in Seq(EiEvent), q # <<>>, Head(q).kind # "disconnect"
    PROVE  Ended(q) => Ended(Tail(q))
<1> HAVE Ended(q)
<1>1. PICK i \in 1..Len(q) : q[i].kind = "disconnect"
  BY DEF Ended
<1>2. i # 1
  BY <1>1
<1>3. i - 1 \in 1..Len(Tail(q)) /\ Tail(q)[i - 1] = q[i]
  BY <1>1, <1>2, HeadTailProperties
<1>4. QED BY <1>1, <1>3 DEF Ended

LEMMA EndedAppend ==
    ASSUME NEW q \in Seq(EiEvent), NEW e \in EiEvent
    PROVE  Ended(Append(q, e)) <=> Ended(q) \/ e.kind = "disconnect"
<1>1. /\ Len(Append(q, e)) = Len(q) + 1 /\ Append(q, e)[Len(q) + 1] = e
      /\ \A i \in 1..Len(q) : Append(q, e)[i] = q[i]
      /\ Len(q) \in Nat
  BY AppendProperties, LenProperties
<1>2. QED BY <1>1 DEF Ended
-----------------------------------------------------------------------------
(* What a step does to the story of one device.                            *)
LEMMA ToldQuiet ==
    ASSUME NEW d, Told(d), UNCHANGED eiq,
           TableState(d)' = TableState(d), EisState(d)' = EisState(d)
    PROVE  Told(d)'
BY DEF Told

LEMMA ToldHandled ==
    ASSUME NEW d, Told(d), eiq \in Seq(EiEvent), eiq # <<>>, eiq' = Tail(eiq),
           Head(eiq).kind # "disconnect", EisState(d)' = EisState(d),
           Head(eiq).dev # d => TableState(d)' = TableState(d),
           (Head(eiq).dev = d /\ Legal(TableState(d), Head(eiq).kind))
               => TableState(d)' = Outcome(Head(eiq).kind)
    PROVE  /\ Told(d)'
           /\ Head(eiq).dev = d => Legal(TableState(d), Head(eiq).kind)
<1>1. PICK t \in {"absent", "paused", "resumed"} :
          Story(eiq, d, TableState(d), t) /\ (~Ended(eiq) => t = EisState(d))
  BY DEF Told
<1>2. ~Ended(eiq') => t = EisState(d)'
  BY <1>1, EndedHead
<1>3. /\ Head(eiq).dev # d => Story(eiq', d, TableState(d)', t)
      /\ Head(eiq).dev = d => /\ Legal(TableState(d), Head(eiq).kind)
                              /\ Story(eiq', d, TableState(d)', t)
  BY <1>1, StoryTail
<1>4. QED BY <1>2, <1>3 DEF Told

LEMMA ToldMore ==
    ASSUME NEW d, Told(d), eiq \in Seq(EiEvent), NEW e \in EiEvent, eiq' = Append(eiq, e),
           TableState(d)' = TableState(d),
           e.dev = d => /\ ~Ended(eiq) /\ Legal(EisState(d), e.kind)
                        /\ EisState(d)' = Outcome(e.kind),
           e.dev # d => e.kind = "disconnect" \/ EisState(d)' = EisState(d)
    PROVE  Told(d)'
<1>1. PICK t \in {"absent", "paused", "resumed"} :
          Story(eiq, d, TableState(d), t) /\ (~Ended(eiq) => t = EisState(d))
  BY DEF Told
<1> DEFINE u == IF e.dev = d THEN Outcome(e.kind) ELSE t
<1>2. e.dev = d => Legal(t, e.kind)
  BY <1>1
<1>3. Story(eiq', d, TableState(d)', u)
  BY <1>1, <1>2, StoryAppend
<1>4. u \in {"absent", "paused", "resumed"}
  BY <1>1 DEF Outcome
<1>5. Ended(eiq') <=> Ended(eiq) \/ e.kind = "disconnect"
  BY EndedAppend
<1>6. ~Ended(eiq') => u = EisState(d)'
  BY <1>1, <1>5
<1>7. QED BY <1>3, <1>4, <1>6 DEF Told

(* A listed device that no event is about is in the table as it is.        *)
LEMMA Settled ==
    ASSUME IInv, QueueInv, NEW d \in Device, Caps[d] # {}, ~Stale(d, eiq)
    PROVE  TableState(d) = EisState(d)
<1>1. PICK t \in {"absent", "paused", "resumed"} :
          Story(eiq, d, TableState(d), t) /\ (~Ended(eiq) => t = EisState(d))
  BY DEF QueueInv, Told
<1>2. TableState(d) = t /\ ~Ended(eiq)
  BY <1>1, StorySettled DEF IInv, TypeOK
<1>3. QED BY <1>1, <1>2

(* For a device the agent does not emulate on there is nothing to agree on.*)
LEMMA AgreesAtRest ==
    ASSUME IInv, DevicesInv, NEW d \in Device, d \notin emulating
    PROVE  HeldCodes(d) = pressed[d] /\ (d \in emulating <=> eisDev[d] = "emulating")
<1>1. pressed[d] = {} /\ eisDev[d] # "emulating" /\ held[d] = {}
  BY DEF IInv, CompositorInv, DevicesInv
<1>2. QED BY <1>1 DEF HeldCodes

(* A new event makes no device known, and stale the device it is about.    *)
LEMMA StaleGrows ==
    ASSUME NEW q \in Seq(EiEvent), NEW e \in EiEvent, NEW d
    PROVE  Stale(d, q) \/ e.dev = d \/ e.kind = "disconnect" => Stale(d, Append(q, e))
<1>1. /\ Len(Append(q, e)) = Len(q) + 1 /\ Append(q, e)[Len(q) + 1] = e
      /\ \A i \in 1..Len(q) : Append(q, e)[i] = q[i]
      /\ Len(q) \in Nat
  BY AppendProperties, LenProperties
<1>2. QED BY <1>1 DEF Stale

(* Handling an event about another device makes no device known.           *)
LEMMA StaleShrinks ==
    ASSUME NEW q \in Seq(EiEvent), q # <<>>, NEW d, Head(q).dev # d, Head(q).kind # "disconnect"
    PROVE  Stale(d, q) => Stale(d, Tail(q))
<1> HAVE Stale(d, q)
<1>1. PICK i \in 1..Len(q) : q[i].dev = d \/ q[i].kind = "disconnect"
  BY DEF Stale
<1>2. i # 1
  BY <1>1
<1>3. i - 1 \in 1..Len(Tail(q)) /\ Tail(q)[i - 1] = q[i]
  BY <1>1, <1>2, HeadTailProperties
<1>4. QED BY <1>1, <1>3 DEF Stale

-----------------------------------------------------------------------------
(* Steps that leave the table, the compositor and its queue alone.         *)
LEMMA QuietAgree ==
    ASSUME AgreeInv, UNCHANGED <<devices, resumed, emulating, pressed, eiq, seat, eisDev, held>>
    PROVE  AgreeInv'
<1>1. DevicesInv'
  BY DEF AgreeInv, DevicesInv, Listed
<1>2. QueueInv'
  BY DEF AgreeInv, QueueInv, Told, TableState, EisState, Listed
<1>3. TableAgrees'
  BY DEF AgreeInv, TableAgrees, HeldCodes
<1>4. QED BY <1>1, <1>2, <1>3 DEF AgreeInv

LEMMA EndAgree ==
    ASSUME ProcessEnds
    PROVE  AgreeInv'
<1>1. DevicesInv'
  BY DEF ProcessEnds, DevicesInv, Listed, ToSet
<1>2. ASSUME NEW d \in Device PROVE Told(d)'
  <2>1. TableState(d)' = "absent" /\ EisState(d)' = "absent" /\ eiq' = <<>>
    BY DEF ProcessEnds, TableState, EisState, Listed, ToSet
  <2>2. QED BY <2>1, StoryEmpty DEF Told
<1>3. QueueInv'
  BY <1>2, StoryEmpty DEF ProcessEnds, QueueInv
<1>4. TableAgrees'
  BY DEF ProcessEnds, TableAgrees, HeldCodes
<1>5. QED BY <1>1, <1>3, <1>4 DEF AgreeInv

(* reset_devices: the table and the compositor agree that nothing is held  *)
(* and that nothing emulates.                                              *)
LEMMA ResetAgree ==
    ASSUME IInv, AgreeInv, ResetDevices, UNCHANGED eiq
    PROVE  AgreeInv'
<1>1. /\ emulating' = {} /\ pressed' = [d \in Device |-> {}]
      /\ held' = [d \in Device |-> {}]
      /\ eisDev' \in [Device -> {"absent", "paused", "resumed"}]
      /\ UNCHANGED <<devices, resumed, seat>>
  BY ResetClears DEF ResetDevices
<1>2. DevicesInv'
  BY <1>1 DEF AgreeInv, DevicesInv, Listed
<1>3. ASSUME NEW d \in Device, Told(d) PROVE Told(d)'
  <2>1. eisDev'[d] = eisDev[d] \/ (eisDev[d] = "emulating" /\ eisDev'[d] = "resumed")
    BY DEF ResetDevices
  <2>2. QED BY <1>1, <1>3, <2>1, ToldQuiet DEF TableState, EisState, Listed
<1>4. QueueInv'
  BY <1>1, <1>3 DEF AgreeInv, QueueInv
<1>5. TableAgrees'
  BY <1>1 DEF TableAgrees, HeldCodes
<1>6. QED BY <1>2, <1>4, <1>5 DEF AgreeInv

(* start_emulating: what starts is resumed on both sides.                  *)
LEMMA StartAgree ==
    ASSUME IInv, AgreeInv, StartEmulating(Listed, resumed, eiq),
           UNCHANGED <<devices, resumed, pressed, eiq, seat, held>>
    PROVE  AgreeInv'
<1> DEFINE starting == {d \in Listed : d \in resumed /\ d \notin emulating}
<1>1. /\ emulating' = emulating \cup starting
      /\ eisDev' = [d \in Device |->
                      IF d \in starting /\ ~Stale(d, eiq) /\ eisDev[d] = "resumed"
                      THEN "emulating" ELSE eisDev[d]]
  BY DEF StartEmulating
<1>2. DevicesInv'
  BY <1>1 DEF AgreeInv, DevicesInv, Listed
<1>3. ASSUME NEW d \in Device, Told(d) PROVE Told(d)'
  BY <1>1, <1>3, ToldQuiet DEF TableState, EisState, Listed
<1>4. QueueInv'
  BY <1>3 DEF AgreeInv, QueueInv
<1>5. ASSUME NEW d \in Device, ~Stale(d, eiq)
      PROVE  HeldCodes(d)' = pressed'[d] /\ (d \in emulating' <=> eisDev'[d] = "emulating")
  <2>1. HeldCodes(d)' = HeldCodes(d) /\ pressed'[d] = pressed[d]
        /\ HeldCodes(d) = pressed[d] /\ (d \in emulating <=> eisDev[d] = "emulating")
    BY <1>5 DEF AgreeInv, TableAgrees, HeldCodes
  <2>2. CASE d \in starting
    <3>1. Caps[d] # {} /\ TableState(d) = "resumed"
      BY <2>2 DEF AgreeInv, DevicesInv, TableState
    <3>2. EisState(d) = "resumed"
      BY <1>5, <3>1, Settled DEF AgreeInv
    <3>3. QED BY <1>1, <1>5, <2>1, <2>2, <3>2 DEF EisState
  <2>3. CASE d \notin starting
    BY <1>1, <2>1, <2>3
  <2>4. QED BY <2>2, <2>3
<1>6. TableAgrees'
  BY <1>5 DEF TableAgrees
<1>7. QED BY <1>2, <1>4, <1>6 DEF AgreeInv
-----------------------------------------------------------------------------
(* Vec::remove takes the only entry of a device that is listed once.       *)
LEMMA RemovalIsExact ==
    ASSUME IInv, DevicesInv, NEW d \in Device, HandleDeviceRemoved(d)
    PROVE  /\ Listed' = Listed \ {d}
           /\ \A i, j \in 1..Len(devices') : devices'[i] = devices'[j] => i = j
<1>1. devices \in Seq(Device)
  BY DEF IInv, TypeOK
<1>2. CASE d \notin Listed
  BY <1>1, <1>2 DEF HandleDeviceRemoved, Listed, DevicesInv
<1>3. CASE d \in Listed
  <2> DEFINE n == Position(d)
             front == SubSeq(devices, 1, n - 1)
             back == SubSeq(devices, n + 1, Len(devices))
             At(i) == IF i < n THEN i ELSE i + 1
  <2>1. n \in 1..Len(devices) /\ devices[n] = d
    BY <1>1, <1>3 DEF Listed, ToSet, Position
  <2>2. devices' = front \o back
    BY <1>3 DEF HandleDeviceRemoved, RemoveAt
  <2>3. /\ front \in Seq(Device) /\ Len(front) = n - 1
        /\ \A i \in 1..(n - 1) : front[i] = devices[i]
    BY <1>1, <2>1, SubSeqProperties
  <2>4. /\ back \in Seq(Device) /\ Len(back) = Len(devices) - n
        /\ \A i \in 1..(Len(devices) - n) : back[i] = devices[n + i]
    BY <1>1, <2>1, SubSeqProperties
  <2>5. Len(devices) \in Nat
    BY <1>1, LenProperties
  <2> HIDE DEF n, front, back
  <2>6. /\ devices' \in Seq(Device) /\ Len(devices') = Len(devices) - 1
        /\ DOMAIN devices' = 1..(Len(devices) - 1)
    <3>1. front \o back \in Seq(Device) /\ Len(front \o back) = Len(front) + Len(back)
      BY <2>3, <2>4, ConcatProperties
    <3>2. Len(front) + Len(back) = Len(devices) - 1
      BY <2>1, <2>3, <2>4, <2>5
    <3>3. QED BY <2>2, <3>1, <3>2
  <2>7. \A i \in 1..Len(devices') :
           devices'[i] = devices[At(i)] /\ At(i) \in 1..Len(devices) /\ At(i) # n
    <3> TAKE i \in 1..Len(devices')
    <3>1. CASE i < n
      <4>1. (front \o back)[i] = front[i] /\ front[i] = devices[i]
        BY <2>1, <2>3, <2>4, <2>5, <2>6, <3>1
      <4>2. QED BY <2>1, <2>2, <2>5, <2>6, <3>1, <4>1
    <3>2. CASE i >= n
      <4>1. (front \o back)[i] = back[i - (n - 1)] /\ i - (n - 1) \in 1..(Len(devices) - n)
        BY SMTT(30), <2>1, <2>3, <2>4, <2>5, <2>6, <3>2
      <4>2. back[i - (n - 1)] = devices[n + (i - (n - 1))] /\ n + (i - (n - 1)) = i + 1
        BY <2>1, <2>4, <4>1
      <4>3. QED BY <2>1, <2>2, <2>5, <2>6, <3>2, <4>1, <4>2
    <3>3. QED BY <2>1, <2>6, <3>1, <3>2
  <2>8. \A i, j \in 1..Len(devices') : devices'[i] = devices'[j] => i = j
    <3> SUFFICES ASSUME NEW i \in 1..Len(devices'), NEW j \in 1..Len(devices'),
                        devices'[i] = devices'[j]
                 PROVE  i = j
      OBVIOUS
    <3>1. At(i) = At(j)
      BY <2>7 DEF DevicesInv
    <3>2. QED BY <2>1, <3>1
  <2>9. \A e \in Listed' : e \in Listed \ {d}
    <3> TAKE e \in Listed'
    <3>1. PICK i \in 1..Len(devices') : devices'[i] = e
      BY <2>6 DEF Listed, ToSet
    <3>2. devices[At(i)] = e /\ At(i) \in 1..Len(devices) /\ At(i) # n
      BY <2>7, <3>1
    <3>3. e # d
      BY <2>1, <3>2 DEF DevicesInv
    <3>4. QED BY <1>1, <3>2, <3>3 DEF Listed, ToSet
  <2>10. QED BY <2>8, <2>9, RemovalKeepsOthers
<1>4. QED BY <1>2, <1>3

(* The agent handles the oldest event.                                     *)
LEMMA SeatAgree ==
    ASSUME IInv, AgreeInv, HandleSeatAdded
    PROVE  AgreeInv'
<1> USE DEF table
<1>1. /\ Handling("seat", "none") /\ Head(eiq).kind = "seat"
      /\ UNCHANGED <<devices, resumed, emulating, pressed, eisDev, held>>
      /\ seat = "gone" => seat' = "gone"
  BY DEF HandleSeatAdded, Handling
<1>2. eiq \in Seq(EiEvent) /\ eiq # <<>> /\ eiq' = Tail(eiq) /\ Head(eiq).dev = "none"
  BY <1>1, HandlingTypes
<1>3. DevicesInv'
  BY <1>1 DEF AgreeInv, DevicesInv, Listed
<1>4. ASSUME NEW d \in Device, Told(d) PROVE Told(d)'
  <2>1. TableState(d)' = TableState(d) /\ EisState(d)' = EisState(d)
    BY <1>1 DEF TableState, EisState, Listed
  <2>2. Head(eiq).dev # d
    BY <1>2, DeviceAssumption
  <2>3. QED BY <1>1, <1>2, <1>4, <2>1, <2>2, ToldHandled
<1>5. QueueInv'
  BY <1>1, <1>2, <1>4, EndedTail DEF AgreeInv, QueueInv
<1>6. ASSUME NEW d \in Device PROVE Stale(d, eiq) => Stale(d, eiq')
  <2>1. Head(eiq).dev # d
    BY <1>2, DeviceAssumption
  <2>2. QED BY <1>1, <1>2, <2>1, StaleShrinks
<1>7. TableAgrees'
  BY <1>1, <1>6 DEF AgreeInv, TableAgrees, HeldCodes
<1>8. QED BY <1>3, <1>5, <1>7 DEF AgreeInv

LEMMA HandledAgree ==
    ASSUME IInv, IInv', AgreeInv, NEW d \in Device, HandleDeviceEvent(d)
    PROVE  AgreeInv'
<1> USE DEF table, eis
<1>1. /\ eiq \in Seq(EiEvent) /\ eiq # <<>> /\ eiq' = Tail(eiq) /\ Head(eiq).dev = d
      /\ Head(eiq).kind \in {"added", "removed", "paused", "resumed"}
      /\ UNCHANGED <<seat, held>>
  <2>1. \E k \in {"added", "removed", "paused", "resumed"} :
            Handling(k, d) /\ Head(eiq).kind = k
    BY DEF HandleDeviceEvent, HandleDeviceAdded, HandleDeviceRemoved,
           HandleDevicePaused, HandleDeviceResumed, Handling
  <2>2. QED
    BY <2>1, HandlingTypes
       DEF HandleDeviceEvent, HandleDeviceAdded, HandleDeviceRemoved,
           HandleDevicePaused, HandleDeviceResumed
<1> DEFINE k == Head(eiq).kind
<1>2. \/ k = "added" /\ HandleDeviceAdded(d)
      \/ k = "removed" /\ HandleDeviceRemoved(d)
      \/ k = "paused" /\ HandleDevicePaused(d)
      \/ k = "resumed" /\ HandleDeviceResumed(d)
  BY DEF HandleDeviceEvent, HandleDeviceAdded, HandleDeviceRemoved,
         HandleDevicePaused, HandleDeviceResumed, Handling
<1>3. Stale(d, eiq) /\ \A e \in Device : e # d /\ Stale(e, eiq) => Stale(e, eiq')
  BY <1>1, HeadIsStale, StaleShrinks
<1> HIDE DEF k
<1>4. Caps[d] # {} => Legal(TableState(d), k)
  BY <1>1, StoryTail DEF AgreeInv, QueueInv, Told, k
<1>5. /\ \A e \in Device : e # d => TableState(e)' = TableState(e)
      /\ Caps[d] # {} => TableState(d)' = Outcome(k)
      /\ \A i, j \in 1..Len(devices') : devices'[i] = devices'[j] => i = j
      /\ \A e \in Listed' : Caps[e] # {}
      /\ UNCHANGED eisDev \/ k = "resumed"
  <2>1. CASE k = "added" /\ HandleDeviceAdded(d)
    <3>1. /\ devices' = IF Caps[d] = {} THEN devices ELSE Append(devices, d)
          /\ UNCHANGED <<resumed, eisDev>> /\ resumed \subseteq Listed
          /\ devices \in Seq(Device)
      BY <2>1 DEF HandleDeviceAdded, IInv, TableInv, TypeOK
    <3>2. CASE Caps[d] = {}
      BY <2>1, <3>1, <3>2 DEF TableState, Listed, AgreeInv, DevicesInv
    <3>3. CASE Caps[d] # {}
      <4>1. d \notin Listed
        BY <1>4, <2>1, <3>3 DEF Legal, TableState
      <4>2. /\ Len(devices') = Len(devices) + 1 /\ devices'[Len(devices) + 1] = d
            /\ \A i \in 1..Len(devices) : devices'[i] = devices[i]
            /\ DOMAIN devices = 1..Len(devices) /\ DOMAIN devices' = 1..Len(devices')
            /\ Len(devices) \in Nat
        BY <3>1, <3>3, AppendProperties, LenProperties
      <4>3. Listed' = Listed \cup {d}
        BY <4>2 DEF Listed, ToSet
      <4>4. \A i \in 1..Len(devices) : devices[i] # d
        BY <4>1, <4>2 DEF Listed, ToSet
      <4>5. \A i, j \in 1..Len(devices') : devices'[i] = devices'[j] => i = j
        BY <4>2, <4>4 DEF AgreeInv, DevicesInv
      <4>6. QED
        BY <2>1, <3>1, <3>3, <4>1, <4>3, <4>5 DEF TableState, Outcome, AgreeInv, DevicesInv
    <3>4. QED BY <3>2, <3>3
  <2>2. CASE k = "removed" /\ HandleDeviceRemoved(d)
    <3>1. /\ Listed' = Listed \ {d}
          /\ \A i, j \in 1..Len(devices') : devices'[i] = devices'[j] => i = j
      BY <2>2, RemovalIsExact DEF AgreeInv
    <3>2. resumed' = resumed \ {d} /\ UNCHANGED eisDev
      BY <2>2 DEF HandleDeviceRemoved
    <3>3. QED BY <2>2, <3>1, <3>2 DEF TableState, Outcome, AgreeInv, DevicesInv
  <2>3. CASE k = "paused" /\ HandleDevicePaused(d)
    <3>1. UNCHANGED <<devices, eisDev>> /\ resumed' = resumed \ {d}
      BY <2>3 DEF HandleDevicePaused
    <3>2. Caps[d] # {} => d \in Listed
      BY <1>4, <2>3 DEF Legal, TableState
    <3>3. QED BY <2>3, <3>1, <3>2 DEF TableState, Outcome, Listed, AgreeInv, DevicesInv
  <2>4. CASE k = "resumed" /\ HandleDeviceResumed(d)
    <3>1. UNCHANGED devices /\ resumed' = resumed \cup ({d} \cap Listed)
      BY <2>4 DEF HandleDeviceResumed
    <3>2. Caps[d] # {} => d \in Listed
      BY <1>4, <2>4 DEF Legal, TableState
    <3>3. QED BY <2>4, <3>1, <3>2 DEF TableState, Outcome, Listed, AgreeInv, DevicesInv
  <2>5. QED BY <1>2, <2>1, <2>2, <2>3, <2>4
<1>6. /\ \A e \in Device : e # d => /\ e \in emulating' <=> e \in emulating
                                    /\ pressed'[e] = pressed[e] /\ eisDev'[e] = eisDev[e]
      /\ pressed'[d] = {}
      /\ eisDev'[d] = eisDev[d]
            \/ (eisDev[d] = "resumed" /\ eisDev'[d] = "emulating" /\ d \in emulating')
      /\ d \in emulating' => /\ k = "resumed" /\ d \in Listed
                             /\ ~Stale(d, eiq') /\ eisDev[d] = "resumed"
                                   => eisDev'[d] = "emulating"
  <2>1. k \in {"added", "resumed"} => d \notin emulating /\ pressed[d] = {}
    <3>1. CASE Caps[d] # {}
      BY <1>4, <3>1 DEF Legal, TableState, AgreeInv, DevicesInv, IInv, TableInv
    <3>2. CASE Caps[d] = {}
      BY <3>2 DEF AgreeInv, DevicesInv, IInv, TableInv
    <3>3. QED BY <3>1, <3>2
  <2>2. pressed \in [Device -> SUBSET Code]
    BY DEF IInv, TypeOK
  <2>3. CASE k = "added" /\ HandleDeviceAdded(d)
    BY <2>1, <2>3 DEF HandleDeviceAdded
  <2>4. CASE k = "removed" /\ HandleDeviceRemoved(d)
    BY <2>2, <2>4 DEF HandleDeviceRemoved
  <2>5. CASE k = "paused" /\ HandleDevicePaused(d)
    BY <2>2, <2>5 DEF HandleDevicePaused
  <2>6. CASE k = "resumed" /\ HandleDeviceResumed(d)
    <3>1. CASE WakesDevices
      <4> DEFINE starting == {e \in {d} \cap Listed : e \in resumed' /\ e \notin emulating}
      <4>1. /\ emulating' = emulating \cup starting
            /\ eisDev' = [e \in Device |->
                            IF e \in starting /\ ~Stale(e, eiq') /\ eisDev[e] = "resumed"
                            THEN "emulating" ELSE eisDev[e]]
            /\ UNCHANGED pressed
        BY <2>6, <3>1 DEF HandleDeviceResumed, StartEmulating
      <4>2. QED BY <2>1, <2>6, <4>1
    <3>2. CASE ~WakesDevices
      BY <2>1, <2>6, <3>2 DEF HandleDeviceResumed
    <3>3. QED BY <3>1, <3>2
  <2>7. QED BY <1>2, <2>3, <2>4, <2>5, <2>6
<1>7. DevicesInv'
  BY <1>5, <1>6 DEF AgreeInv, DevicesInv
<1>8. ASSUME NEW e \in Device, Told(e), Caps[e] # {} PROVE Told(e)'
  <2>1. EisState(e)' = EisState(e)
    BY <1>6 DEF EisState
  <2>2. QED BY <1>1, <1>5, <1>8, <2>1, ToldHandled DEF k
<1>9. QueueInv'
  BY <1>1, <1>8, EndedTail DEF AgreeInv, QueueInv
<1>10. ASSUME NEW e \in Device, ~Stale(e, eiq')
       PROVE  HeldCodes(e)' = pressed'[e] /\ (e \in emulating' <=> eisDev'[e] = "emulating")
  <2>1. CASE e # d
    BY <1>1, <1>3, <1>6, <1>10, <2>1 DEF AgreeInv, TableAgrees, HeldCodes
  <2>2. CASE e = d /\ d \notin emulating'
    <3>1. pressed'[d] = {} /\ eisDev'[d] # "emulating" /\ held'[d] = {}
      BY <1>6, <2>2 DEF IInv, CompositorInv
    <3>2. QED BY <2>2, <3>1 DEF HeldCodes
  <2>3. CASE e = d /\ d \in emulating'
    <3>1. held'[d] = {} /\ eisDev[d] # "emulating"
      BY <1>1, <1>3 DEF IInv, CompositorInv
    <3>2. Caps[d] # {} /\ k = "resumed"
      BY <1>6, <2>3 DEF AgreeInv, DevicesInv
    <3>3. Told(d)' /\ TableState(d)' = "resumed"
      BY <1>5, <1>8, <3>2 DEF AgreeInv, QueueInv, Outcome
    <3>4. EisState(d)' = "resumed"
      <4>1. PICK t \in {"absent", "paused", "resumed"} :
                Story(eiq', d, TableState(d)', t) /\ (~Ended(eiq') => t = EisState(d)')
        BY <3>3 DEF Told
      <4>2. eiq' \in Seq(EiEvent) /\ ~Stale(d, eiq')
        BY <1>10, <2>3 DEF IInv, TypeOK
      <4>3. QED BY <3>3, <4>1, <4>2, StorySettled
    <3>5. eisDev'[d] = "emulating"
      BY <1>6, <1>10, <2>3, <3>1, <3>4 DEF EisState
    <3>6. QED BY <1>6, <2>3, <3>1, <3>5 DEF HeldCodes
  <2>4. QED BY <2>1, <2>2, <2>3
<1>11. TableAgrees'
  BY <1>10 DEF TableAgrees
<1>12. QED BY <1>7, <1>9, <1>11 DEF AgreeInv
-----------------------------------------------------------------------------
(* An event that a device plays.                                           *)
LEMMA PlayAgree ==
    ASSUME IInv, AgreeInv, NEW event \in InputEvent, NEW d \in Device,
           Chosen(d, Needs(event)), Play(d, event),
           UNCHANGED eiq
    PROVE  AgreeInv'
<1> DEFINE eisNow == IF d \notin emulating /\ ~Stale(d, eiq) /\ eisDev[d] = "resumed"
                     THEN "emulating" ELSE eisDev[d]
           heard == ~Stale(d, eiq) /\ eisNow = "emulating"
           mine == [code |-> event.code, by |-> client]
<1>1. /\ emulating' = emulating \cup {d}
      /\ eisDev' = [eisDev EXCEPT ![d] = eisNow]
      /\ UNCHANGED <<devices, resumed, seat>>
  BY DEF Play
<1>2. \/ UNCHANGED <<pressed, held>>
      \/ /\ event.op = "press"
         /\ pressed' = [pressed EXCEPT ![d] = @ \cup {event.code}]
         /\ held' = IF heard THEN [held EXCEPT ![d] = @ \cup {mine}] ELSE held
      \/ /\ event.op = "release"
         /\ pressed' = [pressed EXCEPT ![d] = @ \ {event.code}]
         /\ held' = IF heard THEN [held EXCEPT ![d] = {h \in @ : h.code # event.code}] ELSE held
  BY DEF Play
<1>3. d \in resumed /\ d \in Listed /\ Needs(event) \in Caps[d]
  BY DEF Chosen, IInv, TableInv
<1>4. event.op = "press" => CodeCap[event.code] \in Caps[d]
  BY <1>3 DEF Needs
<1>5. TableState(d) = "resumed" /\ Caps[d] # {}
  BY <1>3 DEF TableState
<1>6. ~Stale(d, eiq) => eisNow = "emulating"
  <2> HAVE ~Stale(d, eiq)
  <2>1. EisState(d) = "resumed"
    BY <1>5, Settled DEF AgreeInv
  <2>2. QED BY <2>1 DEF EisState, AgreeInv, TableAgrees
<1>7. /\ pressed \in [Device -> SUBSET Code]
      /\ held \in [Device -> SUBSET [code : Code, by : Conn \cup {NoConn}]]
      /\ eisDev \in [Device -> {"absent", "paused", "resumed", "emulating"}]
  BY DEF IInv, TypeOK
<1>8. eisNow = eisDev[d] \/ (eisDev[d] = "resumed" /\ eisNow = "emulating")
  OBVIOUS
<1>9. heard <=> ~Stale(d, eiq)
  BY <1>6
<1> HIDE DEF eisNow, heard, mine
<1>10. DevicesInv'
  <2>1. \A e \in Device : e # d => pressed'[e] = pressed[e]
    BY <1>2, <1>7
  <2>2. pressed'[d] \subseteq pressed[d]
          \/ (event.op = "press" /\ pressed'[d] = pressed[d] \cup {event.code})
    BY <1>2, <1>7
  <2>3. QED BY <1>1, <1>4, <2>1, <2>2 DEF AgreeInv, DevicesInv, Listed
<1>11. ASSUME NEW e \in Device, Told(e) PROVE Told(e)'
  <2>1. EisState(e)' = EisState(e)
    BY <1>1, <1>7, <1>8 DEF EisState
  <2>2. TableState(e)' = TableState(e)
    BY <1>1 DEF TableState, Listed
  <2>3. QED BY <1>11, <2>1, <2>2, ToldQuiet
<1>12. QueueInv'
  BY <1>1, <1>11 DEF AgreeInv, QueueInv
<1>13. ASSUME NEW e \in Device, ~Stale(e, eiq)
       PROVE  HeldCodes(e)' = pressed'[e] /\ (e \in emulating' <=> eisDev'[e] = "emulating")
  <2>1. HeldCodes(e) = pressed[e] /\ (e \in emulating <=> eisDev[e] = "emulating")
    BY <1>13 DEF AgreeInv, TableAgrees
  <2>2. CASE e # d
    <3>1. held'[e] = held[e] /\ pressed'[e] = pressed[e] /\ eisDev'[e] = eisDev[e]
      BY <1>1, <1>2, <1>7, <2>2
    <3>2. QED BY <1>1, <2>1, <2>2, <3>1 DEF HeldCodes
  <2>3. CASE e = d
    <3>1. eisDev'[d] = "emulating" /\ d \in emulating'
      BY <1>1, <1>6, <1>7, <1>13, <2>3
    <3>2. HeldCodes(d)' = pressed'[d]
      <4>1. CASE UNCHANGED <<pressed, held>>
        BY <2>1, <2>3, <4>1 DEF HeldCodes
      <4>2. CASE event.op = "press" /\ pressed' = [pressed EXCEPT ![d] = @ \cup {event.code}]
                 /\ held' = [held EXCEPT ![d] = @ \cup {mine}]
        <5>1. pressed'[d] = pressed[d] \cup {event.code} /\ held'[d] = held[d] \cup {mine}
              /\ mine.code = event.code
          BY <1>7, <4>2 DEF mine
        <5>2. HeldCodes(d)' = HeldCodes(d) \cup {event.code}
          BY <5>1 DEF HeldCodes
        <5>3. QED BY <2>1, <2>3, <5>1, <5>2
      <4>3. CASE event.op = "release" /\ pressed' = [pressed EXCEPT ![d] = @ \ {event.code}]
                 /\ held' = [held EXCEPT ![d] = {h \in @ : h.code # event.code}]
        <5>1. pressed'[d] = pressed[d] \ {event.code}
              /\ held'[d] = {h \in held[d] : h.code # event.code}
          BY <1>7, <4>3
        <5>2. HeldCodes(d)' = HeldCodes(d) \ {event.code}
          BY <5>1 DEF HeldCodes
        <5>3. QED BY <2>1, <2>3, <5>1, <5>2
      <4>4. QED BY <1>2, <1>9, <1>13, <2>3, <4>1, <4>2, <4>3
    <3>3. QED BY <2>3, <3>1, <3>2
  <2>4. QED BY <2>2, <2>3
<1>14. TableAgrees'
  BY <1>13 DEF TableAgrees
<1>15. QED BY <1>10, <1>12, <1>14 DEF AgreeInv

-----------------------------------------------------------------------------
(* The compositor's own steps: the device it changes becomes stale.        *)
LEMMA CompositorAgree ==
    ASSUME IInv, AgreeInv, Compositor
    PROVE  AgreeInv'
<1> USE DEF table
<1>0. eiq \in Seq(EiEvent) /\ eisDev \in [Device -> {"absent", "paused", "resumed", "emulating"}]
  BY DEF IInv, TypeOK
<1>1. CASE OfferSeat
  <2> DEFINE e == [kind |-> "seat", dev |-> "none"]
  <2>1. /\ eiq' = Append(eiq, e) /\ e \in EiEvent
        /\ e.dev = "none" /\ e.kind = "seat"
        /\ UNCHANGED <<devices, resumed, emulating, pressed, eisDev, held>>
        /\ seat # "gone"
    BY <1>1 DEF OfferSeat, Tell, EiEvent
  <2> HIDE DEF e
  <2>2. ASSUME NEW d \in Device, Told(d) PROVE Told(d)'
    <3>1. TableState(d)' = TableState(d) /\ EisState(d)' = EisState(d)
      BY <2>1 DEF TableState, EisState, Listed
    <3>2. QED BY <1>0, <2>1, <2>2, <3>1, ToldMore, DeviceAssumption
  <2>3. QueueInv'
    BY <1>0, <2>1, <2>2, EndedAppend DEF AgreeInv, QueueInv
  <2>4. \A d \in Device : Stale(d, eiq) => Stale(d, eiq')
    BY <1>0, <2>1, StaleGrows
  <2>5. QED BY <2>1, <2>3, <2>4 DEF AgreeInv, DevicesInv, TableAgrees, HeldCodes, Listed
<1>2. ASSUME NEW d \in Device, NEW from, NEW to \in {"absent", "paused", "resumed"},
             NEW k \in {"added", "resumed", "paused", "removed"}, ChangeDevice(d, from, to, k),
             to = Outcome(k), Legal(EisState(d), k)
      PROVE  AgreeInv'
  <2> DEFINE e == [kind |-> k, dev |-> d]
  <2>1. /\ eiq' = Append(eiq, e) /\ e \in EiEvent /\ e.dev = d /\ e.kind = k
        /\ UNCHANGED <<devices, resumed, emulating, pressed, seat>>
        /\ eisDev' = [eisDev EXCEPT ![d] = to] /\ held' = [held EXCEPT ![d] = {}]
        /\ seat # "gone"
    BY <1>2 DEF ChangeDevice, Tell, EiEvent, DeviceEvent
  <2> HIDE DEF e
  <2>2. ~Ended(eiq)
    BY <2>1 DEF AgreeInv, QueueInv
  <2>3. ASSUME NEW x \in Device, Told(x) PROVE Told(x)'
    <3>1. TableState(x)' = TableState(x)
      BY <2>1 DEF TableState, Listed
    <3>2. x # d => EisState(x)' = EisState(x)
      BY <1>0, <2>1 DEF EisState
    <3>3. EisState(d)' = Outcome(k)
      BY <1>0, <1>2, <2>1 DEF EisState
    <3>4. QED BY <1>0, <1>2, <2>1, <2>2, <2>3, <3>1, <3>2, <3>3, ToldMore
  <2>4. QueueInv'
    BY <1>0, <1>2, <2>1, <2>2, <2>3, EndedAppend DEF AgreeInv, QueueInv
  <2>5. Stale(d, eiq') /\ \A x \in Device : Stale(x, eiq) => Stale(x, eiq')
    BY <1>0, <2>1, StaleGrows
  <2>6. \A x \in Device : x # d => held'[x] = held[x] /\ eisDev'[x] = eisDev[x]
    BY <1>0, <2>1 DEF IInv, TypeOK
  <2>7. TableAgrees'
    BY <2>1, <2>5, <2>6 DEF AgreeInv, TableAgrees, HeldCodes
  <2>8. DevicesInv'
    BY <2>1 DEF AgreeInv, DevicesInv, Listed
  <2>9. QED BY <2>4, <2>7, <2>8 DEF AgreeInv
<1>3. CASE Disconnect
  <2> DEFINE e == [kind |-> "disconnect", dev |-> "none"]
  <2>1. /\ eiq' = Append(eiq, e) /\ e \in EiEvent
        /\ e.dev = "none" /\ e.kind = "disconnect"
        /\ UNCHANGED <<devices, resumed, emulating, pressed>>
        /\ seat' = "gone"
    BY <1>3 DEF Disconnect, Tell, EiEvent
  <2> HIDE DEF e
  <2>2. ASSUME NEW d \in Device, Told(d) PROVE Told(d)'
    <3>1. TableState(d)' = TableState(d)
      BY <2>1 DEF TableState, Listed
    <3>2. QED BY <1>0, <2>1, <2>2, <3>1, ToldMore, DeviceAssumption
  <2>3. QueueInv'
    BY <2>1, <2>2 DEF AgreeInv, QueueInv
  <2>4. \A d \in Device : Stale(d, eiq')
    BY <1>0, <2>1, StaleGrows
  <2>5. QED BY <2>1, <2>3, <2>4 DEF AgreeInv, DevicesInv, TableAgrees, Listed
<1>4. ASSUME NEW d \in Device, AddDevice(d) \/ ResumeDevice(d) \/ PauseDevice(d) \/ RemoveDevice(d)
      PROVE  AgreeInv'
  <2>1. CASE AddDevice(d)
    <3>1. Legal(EisState(d), "added") /\ Outcome("added") = "paused"
      BY <2>1 DEF AddDevice, ChangeDevice, EisState, Legal, Outcome
    <3>2. QED BY <1>2, <2>1, <3>1 DEF AddDevice
  <2>2. CASE ResumeDevice(d)
    <3>1. Legal(EisState(d), "resumed") /\ Outcome("resumed") = "resumed"
      BY <2>2 DEF ResumeDevice, ChangeDevice, EisState, Legal, Outcome
    <3>2. QED BY <1>2, <2>2, <3>1 DEF ResumeDevice
  <2>3. CASE PauseDevice(d)
    <3>1. Legal(EisState(d), "paused") /\ Outcome("paused") = "paused"
      BY <2>3 DEF PauseDevice, ChangeDevice, EisState, Legal, Outcome
    <3>2. QED BY <1>2, <2>3, <3>1 DEF PauseDevice
  <2>4. CASE RemoveDevice(d)
    <3>1. Legal(EisState(d), "removed") /\ Outcome("removed") = "absent"
      BY <2>4 DEF RemoveDevice, ChangeDevice, EisState, Legal, Outcome
    <3>2. QED BY <1>2, <2>4, <3>1 DEF RemoveDevice
  <2>5. QED BY <1>4, <2>1, <2>2, <2>3, <2>4
<1>5. QED BY <1>1, <1>3, <1>4 DEF Compositor

-----------------------------------------------------------------------------
LEMMA AgreeStep ==
    ASSUME IInv, IInv', AgreeInv, [Next]_vars
    PROVE  AgreeInv'
<1> USE DEF table, events, channel, report, daemon, eis, bounds
<1>1. CASE FailToStart \/ BindSocket \/ Announce \/ Dispatch \/ Publish
  BY <1>1, QuietAgree DEF FailToStart, BindSocket, Announce, Dispatch, Publish
<1>2. CASE Relay
  BY <1>2, QuietAgree DEF Relay, CheckStatus, Connect, Send, Close, Drop
<1>3. CASE UNCHANGED vars
  BY <1>3, QuietAgree DEF vars
<1>4. CASE HandleSeatAdded
  BY <1>4, SeatAgree
<1>5. CASE \E d \in Device : HandleDeviceEvent(d)
  BY <1>5, HandledAgree
<1>6. CASE HandleDisconnect \/ Crash
  BY <1>6, EndAgree DEF HandleDisconnect, Crash
<1>7. CASE Admit
  <2>1. UNCHANGED <<devices, resumed, pressed, eiq, seat, held>>
    BY <1>7 DEF Admit
  <2>2. StartEmulating(Listed, resumed, eiq) \/ UNCHANGED <<emulating, eisDev>>
    BY <1>7 DEF Admit
  <2>3. QED BY <2>1, <2>2, StartAgree, QuietAgree
<1>8. CASE Receive
  <2>1. UNCHANGED eiq /\ (ResetDevices
                          \/ UNCHANGED <<devices, resumed, emulating, pressed, seat, eisDev, held>>)
    BY <1>8 DEF Receive
  <2>2. QED BY <2>1, ResetAgree, QuietAgree
<1>9. CASE Apply
  <2> DEFINE event == Head(batch)
  <2>1. UNCHANGED eiq /\ event \in InputEvent
    BY <1>9, HeadTailProperties DEF Apply, IInv, TypeOK
  <2>2. CASE ResetDevices
    BY <2>1, <2>2, ResetAgree
  <2>3. ASSUME NEW d \in Device, Chosen(d, Needs(event)), Play(d, event), event.op # "reset"
        PROVE  AgreeInv'
    BY <2>1, <2>3, PlayAgree
  <2>4. QED BY <1>9, <2>2, <2>3 DEF Apply
<1>10. CASE Compositor
  BY <1>10, CompositorAgree
<1>11. QED
  BY <1>1, <1>2, <1>3, <1>4, <1>5, <1>6, <1>7, <1>8, <1>9, <1>10 DEF Next, Agent, Loop

LEMMA InitAgree == Init => AgreeInv
<1> SUFFICES ASSUME Init PROVE AgreeInv
  OBVIOUS
<1>1. DevicesInv
  BY DEF Init, DevicesInv, Listed, ToSet
<1>2. ASSUME NEW d \in Device PROVE Told(d)
  <2>1. TableState(d) = "absent" /\ EisState(d) = "absent" /\ eiq = <<>>
    BY DEF Init, TableState, EisState, Listed, ToSet
  <2>2. QED BY <2>1, StoryEmpty DEF Told
<1>3. QueueInv
  BY <1>2, StoryEmpty DEF Init, QueueInv
<1>4. TableAgrees
  BY DEF Init, TableAgrees, HeldCodes
<1>5. QED BY <1>1, <1>3, <1>4 DEF AgreeInv

(* Of every device with no unhandled event the agent's table says exactly  *)
(* what the compositor holds, for any devices, codes and connections.      *)
THEOREM TableSafety == Spec => []TableAgrees
<1>1. AgreeInv => TableAgrees
  BY DEF AgreeInv
<1>2. QED BY <1>1, InitIInv, InitAgree, Inductive, AgreeStep, PTL DEF Spec

-----------------------------------------------------------------------------
(* No two devices share a capability, as of a compositor with one device   *)
(* of each kind.                                                           *)
CapsDisjoint == \A d, e \in Device : d # e => Caps[d] \cap Caps[e] = {}

(* Taking the head changes a sequence.                                     *)
LEMMA TailDiffers == ASSUME NEW q \in Seq(InputEvent), q # <<>> PROVE q # Tail(q)
<1>1. Len(Tail(q)) = Len(q) - 1 /\ Len(q) \in Nat
  BY HeadTailProperties, LenProperties
<1>2. \A n \in Nat : n - 1 # n
  OBVIOUS
<1>3. ASSUME NEW r, r = q PROVE Len(r) = Len(q)
  BY <1>3
<1>4. QED BY <1>1, <1>2, <1>3, Zenon

(* Only the event loop takes an event off the batch and keeps the client.  *)
LEMMA OnlyApplyTakes ==
    ASSUME IInv, [Next]_vars, pc = "apply", batch # <<>>, batch' = Tail(batch), client' = client
    PROVE  Apply
<1> USE DEF table, events, channel, report, daemon, eis, bounds
<1>1. batch # Tail(batch)
  BY TailDiffers DEF IInv, TypeOK
<1>2. client # NoConn
  BY DEF IInv, TableInv
<1>3. ~UNCHANGED vars /\ ~Relay
  BY <1>1 DEF vars, Relay, CheckStatus, Connect, Send, Close, Drop
<1>4. ~Compositor
  <2>1. Compositor => batch' = batch
    BY DEF Connected, Tell, Compositor, OfferSeat, AddDevice, ResumeDevice, PauseDevice, RemoveDevice,
           ChangeDevice, Disconnect
  <2>2. QED BY <1>1, <2>1
<1>5. ~Crash
  BY <1>2 DEF Crash, ProcessEnds
<1>6. ~(FailToStart \/ BindSocket \/ Announce \/ Dispatch \/ Admit \/ Receive)
  BY DEF FailToStart, BindSocket, Announce, Dispatch, Admit, Receive
<1>7. ~(HandleSeatAdded \/ HandleDisconnect \/ Publish)
  BY DEF HandleSeatAdded, HandleDisconnect, Publish, Handling
<1>8. ASSUME NEW d \in Device PROVE ~HandleDeviceEvent(d)
  BY DEF HandleDeviceEvent, HandleDeviceAdded, HandleDeviceRemoved, HandleDevicePaused,
         HandleDeviceResumed, Handling
<1>9. QED
  BY <1>3, <1>4, <1>5, <1>6, <1>7, <1>8 DEF Next, Agent, Loop

(* Of devices that share no capability, the one that plays the release of  *)
(* a code is the only one that can hold it: releasing lifts it for good.   *)
THEOREM ReleaseSafety == ASSUME CapsDisjoint PROVE Spec => ReleaseLifts
<1>1. ASSUME IInv, IInv', AgreeInv, AgreeInv', [Next]_vars
      PROVE  [(/\ pc = "apply" /\ batch # <<>> /\ Head(batch).op = "release"
               /\ batch' = Tail(batch) /\ client' = client)
              => \A d \in Device : Head(batch).code \notin {h.code : h \in held'[d]}]_vars
  <2> DEFINE event == Head(batch)
             k == event.code
  <2> SUFFICES ASSUME pc = "apply", batch # <<>>, event.op = "release",
                      batch' = Tail(batch), client' = client, NEW e \in Device
               PROVE  k \notin {h.code : h \in held'[e]}
    OBVIOUS
  <2>1. Apply
    BY <1>1, OnlyApplyTakes
  <2>2. event \in InputEvent
    BY <1>1, HeadTailProperties DEF IInv, TypeOK
  <2>3. client # NoConn
    BY <1>1 DEF IInv, TableInv
  <2>4. PICK d \in Device : Chosen(d, Needs(event)) /\ Play(d, event)
    BY <2>1, <2>3 DEF Apply
  <2>5. k \notin pressed'[d]
    <3>1. pressed \in [Device -> SUBSET Code]
      BY <1>1 DEF IInv, TypeOK
    <3>2. CASE Duplicate(d, event) /\ UNCHANGED pressed
      BY <3>2 DEF Duplicate
    <3>3. CASE pressed' = [pressed EXCEPT ![d] = @ \ {k}]
      BY <3>1, <3>3
    <3>4. QED BY <2>4, <3>2, <3>3 DEF Play
  <2>6. CodeCap[k] \in Caps[d]
    BY <2>4 DEF Chosen, Needs
  <2>7. CASE Stale(e, eiq')
    <3>1. held'[e] = {}
      BY <1>1, <2>7 DEF IInv, CompositorInv
    <3>2. QED BY <3>1
  <2>8. CASE ~Stale(e, eiq')
    <3>1. HeldCodes(e)' = pressed'[e]
      BY <1>1, <2>8 DEF AgreeInv, TableAgrees
    <3>2. k \notin pressed'[e]
      <4>1. CASE e = d
        BY <2>5, <4>1
      <4>2. CASE e # d
        <5>1. CodeCap[k] \notin Caps[e]
          BY <2>6, <4>2 DEF CapsDisjoint
        <5>2. QED BY <1>1, <5>1 DEF AgreeInv, DevicesInv
      <4>3. QED BY <4>1, <4>2
    <3>3. QED BY <3>1, <3>2 DEF HeldCodes
  <2>9. QED BY <2>7, <2>8
<1>2. QED
  BY <1>1, InitIInv, InitAgree, Inductive, AgreeStep, PTL DEF Spec, ReleaseLifts
=============================================================================
