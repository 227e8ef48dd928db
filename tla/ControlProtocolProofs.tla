------------------------ MODULE ControlProtocolProofs ------------------------
(* Proofs about ControlProtocol: types, and the bound on the failures one  *)
(* peer can have on record.                                                *)
EXTENDS ControlProtocol, FiniteSetTheorems, SequenceTheorems, TLAPS

(* A nonempty set of naturals has a least element, which Min returns: of   *)
(* the intervals that start at 1 and end in the set, one is smallest.      *)
LEMMA MinIsLeast ==
    ASSUME NEW S \in SUBSET Nat, S # {}
    PROVE  Min(S) \in S /\ \A x \in S : Min(S) <= x
  <1> DEFINE Below == {1..n : n \in S}
  <1>1. Below \subseteq FiniteSubsetsOf(Nat) /\ Below # {}
    <2>1. \A n \in S : 1..n \in FiniteSubsetsOf(Nat)
      BY FS_Interval DEF FiniteSubsetsOf
    <2> QED
      BY <2>1
  <1>2. PICK b \in Below : \A c \in Below : <<c, b>> \notin StrictSubsetOrdering(Nat)
    <2>1. IsWellFoundedOn(StrictSubsetOrdering(Nat), FiniteSubsetsOf(Nat))
      BY FS_StrictSubsetOrderingWellFounded
    <2> HIDE DEF Below
    <2> QED
      BY <1>1, <2>1, WFMin
  <1>3. PICK m \in S : b = 1..m
    OBVIOUS
  <1>4. ASSUME NEW x \in S, x < m PROVE FALSE
    <2>1. 1..x \subseteq 1..m /\ m \in 1..m /\ m \notin 1..x
      BY <1>4
    <2>2. 1..x # 1..m /\ 1..x \in SUBSET Nat /\ 1..m \in SUBSET Nat
      BY <2>1
    <2>3. <<1..x, 1..m>> \in StrictSubsetOrdering(Nat)
      BY <2>1, <2>2 DEF StrictSubsetOrdering
    <2> QED
      BY <1>2, <1>3, <2>3
  <1>5. \A x \in S : m <= x
    BY <1>4
  <1> QED
    BY <1>5 DEF Min

Suffix(s, k) == SubSeq(s, k + 1, Len(s))

LEMMA SuffixProperties ==
    ASSUME NEW s \in Seq(Nat), NEW k \in 0..Len(s)
    PROVE  /\ Suffix(s, k) \in Seq(Nat) /\ Len(Suffix(s, k)) = Len(s) - k
           /\ \A i \in 1..(Len(s) - k) : Suffix(s, k)[i] = s[k + i]
  <1> DEFINE back == SubSeq(s, k + 1, Len(s))
  <1>1. Len(s) \in Nat /\ k + 1 \in 1..(Len(s) + 1)
    OBVIOUS
  <1>2. /\ back \in Seq(Nat) /\ Len(back) = Len(s) - k
        /\ \A i \in 1..(Len(s) - k) : back[i] = s[k + i]
    BY <1>1, SubSeqProperties
  <1> QED
    BY <1>2 DEF Suffix

(* A suffix of a suffix is a suffix, and so is a suffix with an element    *)
(* appended.                                                               *)
LEMMA SuffixOfSuffix ==
    ASSUME NEW s \in Seq(Nat), NEW k \in 0..Len(s), NEW j \in 0..(Len(s) - k)
    PROVE  Suffix(Suffix(s, k), j) = Suffix(s, k + j)
  <1> DEFINE q == Suffix(s, k)
             r == Suffix(q, j)
             u == Suffix(s, k + j)
  <1>1. /\ q \in Seq(Nat) /\ Len(q) = Len(s) - k
        /\ \A i \in 1..(Len(s) - k) : q[i] = s[k + i]
    BY SuffixProperties
  <1>2. /\ u \in Seq(Nat) /\ Len(u) = Len(s) - (k + j)
        /\ \A i \in 1..(Len(s) - (k + j)) : u[i] = s[(k + j) + i]
    <2>1. k + j \in 0..Len(s)
      OBVIOUS
    <2> QED
      BY <2>1, SuffixProperties
  <1> HIDE DEF q, u
  <1>3. /\ r \in Seq(Nat) /\ Len(r) = Len(q) - j
        /\ \A i \in 1..(Len(q) - j) : r[i] = q[j + i]
    BY <1>1, SuffixProperties
  <1> HIDE DEF r
  <1>4. ASSUME NEW i \in 1..Len(r) PROVE r[i] = u[i]
    <2>1. i \in 1..(Len(q) - j) /\ j + i \in 1..(Len(s) - k) /\ i \in 1..(Len(s) - (k + j))
      BY <1>1, <1>3
    <2>2. r[i] = q[j + i] /\ q[j + i] = s[k + (j + i)] /\ u[i] = s[(k + j) + i]
      BY <1>1, <1>2, <1>3, <2>1
    <2>3. k + (j + i) = (k + j) + i
      BY <2>1
    <2> QED
      BY <2>2, <2>3
  <1>5. Len(r) = Len(u)
    BY <1>1, <1>2, <1>3
  <1>6. r = u
    BY <1>2, <1>3, <1>4, <1>5, SeqEqual, Zenon
  <1> QED
    BY <1>6 DEF q, r, u

LEMMA SuffixOfAppend ==
    ASSUME NEW s \in Seq(Nat), NEW k \in 0..Len(s), NEW e \in Nat
    PROVE  Suffix(Append(s, e), k) = Append(Suffix(s, k), e)
  <1> DEFINE q == Suffix(s, k)
             w == Append(s, e)
             r == Suffix(w, k)
             u == Append(q, e)
  <1>1. /\ q \in Seq(Nat) /\ Len(q) = Len(s) - k
        /\ \A i \in 1..(Len(s) - k) : q[i] = s[k + i]
    BY SuffixProperties
  <1>2. /\ w \in Seq(Nat) /\ Len(w) = Len(s) + 1 /\ w[Len(s) + 1] = e
        /\ \A i \in 1..Len(s) : w[i] = s[i]
    OBVIOUS
  <1> HIDE DEF q, w
  <1>3. /\ r \in Seq(Nat) /\ Len(r) = Len(w) - k
        /\ \A i \in 1..(Len(w) - k) : r[i] = w[k + i]
    <2>1. k \in 0..Len(w)
      BY <1>2
    <2> QED
      BY <1>2, <2>1, SuffixProperties
  <1>4. /\ u \in Seq(Nat) /\ Len(u) = Len(q) + 1 /\ u[Len(q) + 1] = e
        /\ \A i \in 1..Len(q) : u[i] = q[i]
    BY <1>1
  <1> HIDE DEF r, u
  <1>5. ASSUME NEW i \in 1..Len(r) PROVE r[i] = u[i]
    <2>1. r[i] = w[k + i] /\ i \in 1..(Len(s) - k + 1)
      BY <1>2, <1>3
    <2>2. CASE i \in 1..(Len(s) - k)
      <3>1. k + i \in 1..Len(s) /\ i \in 1..Len(q)
        BY SMTT(30), <1>1, <2>2
      <3>2. w[k + i] = s[k + i] /\ u[i] = q[i] /\ q[i] = s[k + i]
        BY <1>1, <1>2, <1>4, <2>2, <3>1, Zenon
      <3> QED
        BY <2>1, <3>2
    <2>3. CASE i = Len(s) - k + 1
      <3>1. k + i = Len(s) + 1 /\ i = Len(q) + 1
        BY <1>1, <2>3
      <3> QED
        BY <1>2, <1>4, <2>1, <3>1, Zenon
    <2> QED
      BY <2>1, <2>2, <2>3
  <1>6. Len(r) = Len(u)
    BY <1>1, <1>2, <1>3, <1>4
  <1>7. r = u
    BY <1>3, <1>4, <1>5, <1>6, SeqEqual, Zenon
  <1> QED
    BY <1>7 DEF q, w, r, u

(* prune drops expired entries from the front, up to one that is not.      *)
LEMMA PruneIsSuffix ==
    ASSUME NEW s \in Seq(Nat), NEW moment \in Nat
    PROVE  \E k \in 0..Len(s) :
              /\ Prune(s, moment) = Suffix(s, k)
              /\ \A i \in 1..k : Expired(s[i], moment)
              /\ k < Len(s) => ~Expired(s[k + 1], moment)
  <1> DEFINE kept == {i \in DOMAIN s : ~Expired(s[i], moment)}
  <1>0. DOMAIN s = 1..Len(s) /\ Len(s) \in Nat
    OBVIOUS
  <1>1. CASE kept = {}
    <2>1. Prune(s, moment) = <<>>
      BY <1>1 DEF Prune
    <2>2. Suffix(s, Len(s)) = <<>>
      BY <1>0, SubSeqEmpty DEF Suffix
    <2>3. \A i \in 1..Len(s) : Expired(s[i], moment)
      BY <1>0, <1>1
    <2> QED
      BY <1>0, <2>1, <2>2, <2>3
  <1>2. CASE kept # {}
    <2>1. kept \in SUBSET Nat
      BY <1>0
    <2>2. Min(kept) \in kept /\ \A i \in kept : Min(kept) <= i
      <3> HIDE DEF kept
      <3> QED
        BY <1>2, <2>1, MinIsLeast
    <2>3. PICK k \in 0..Len(s) : k + 1 = Min(kept)
      <3>1. Min(kept) \in 1..Len(s)
        BY <1>0, <2>2
      <3>2. Min(kept) - 1 \in 0..Len(s) /\ (Min(kept) - 1) + 1 = Min(kept)
        BY <1>0, <3>1
      <3> QED
        BY <3>2
    <2>4. Prune(s, moment) = Suffix(s, k)
      BY <1>2, <2>3 DEF Prune, Suffix
    <2>5. k + 1 \in kept /\ \A i \in kept : k + 1 <= i
      BY <2>2, <2>3
    <2>6. ~Expired(s[k + 1], moment)
      BY <2>5
    <2>7. ASSUME NEW i \in 1..k PROVE Expired(s[i], moment)
      <3>1. i \in DOMAIN s /\ ~(k + 1 <= i)
        BY <1>0
      <3> QED
        BY <2>5, <3>1
    <2> QED
      BY <2>4, <2>6, <2>7
  <1> QED
    BY <1>1, <1>2

LEMMA PruneType ==
    ASSUME NEW s \in Seq(Nat), NEW moment \in Nat
    PROVE  Prune(s, moment) \in Seq(Nat) /\ Len(Prune(s, moment)) <= Len(s)
  <1>1. PICK k \in 0..Len(s) : Prune(s, moment) = Suffix(s, k)
    BY PruneIsSuffix
  <1>2. Prune(s, moment) \in Seq(Nat) /\ Len(Prune(s, moment)) = Len(s) - k
    BY <1>1, SuffixProperties
  <1> QED
    BY <1>2

-----------------------------------------------------------------------------
(* The inductive invariant: the entries of a peer are what is left of its  *)
(* recorded failures once expired ones are dropped from the front, and no  *)
(* thread holds a stamp from the future.                                   *)
Remembered ==
    \A p \in Peer : \E k \in 0..Len(failed[p]) :
        /\ attempts[p] = Suffix(failed[p], k)
        /\ \A i \in 1..k : Expired(failed[p][i], now)

StampsPast == \A t \in Thread : stamp[t] <= now

IInv == TypeOK /\ FailuresBounded /\ Remembered /\ StampsPast

LEMMA Constants ==
    /\ MaxFailures \in Nat \ {0} /\ Window \in Nat \ {0} /\ MaxTime \in Nat
    /\ IsFiniteSet(Thread) /\ \A t \in Thread : From[t] \in Peer
  BY ThreadAssumption, LimitAssumption

LEMMA InitIInv == Init => IInv
  <1> SUFFICES ASSUME Init PROVE IInv
    OBVIOUS
  <1>1. TypeOK
    BY DEF Init, TypeOK, Place
  <1>2. ASSUME NEW p \in Peer
        PROVE  Len(attempts[p]) + Cardinality(InFlight(p))
                   <= (MaxFailures - 1) + Cardinality(ThreadsOf(p))
    <2>1. InFlight(p) = {} /\ Len(attempts[p]) = 0
      BY DEF Init, InFlight, ThreadsOf
    <2>2. Cardinality(InFlight(p)) = 0
      BY <2>1, FS_EmptySet
    <2>3. ThreadsOf(p) \in SUBSET Thread
      BY DEF ThreadsOf
    <2>4. Cardinality(ThreadsOf(p)) \in Nat
      BY <2>3, Constants, FS_Subset, FS_CardinalityType
    <2> QED
      BY <2>1, <2>2, <2>4, Constants
  <1>3. Remembered
    <2>1. ASSUME NEW p \in Peer PROVE attempts[p] = Suffix(failed[p], 0)
      <3>1. attempts[p] = <<>> /\ failed[p] = <<>> /\ Len(failed[p]) = 0
        BY DEF Init
      <3>2. SubSeq(<<>>, 1, 0) = <<>>
        BY SubSeqEmpty
      <3> QED
        BY <3>1, <3>2 DEF Suffix
    <2>2. \A p \in Peer : Len(failed[p]) = 0
      BY DEF Init
    <2> QED
      BY <2>1, <2>2 DEF Remembered
  <1>4. StampsPast
    BY DEF Init, StampsPast
  <1> QED
    BY <1>1, <1>2, <1>3, <1>4 DEF IInv, FailuresBounded

(* Every step keeps the types.                                             *)
LEMMA TypeStep == TypeOK /\ [Next]_vars => TypeOK'
  <1> SUFFICES ASSUME TypeOK, [Next]_vars PROVE TypeOK'
    OBVIOUS
  <1> USE DEF TypeOK
  <1>1. CASE UNCHANGED vars
    BY <1>1 DEF vars, limiter, client
  <1>2. CASE Tick
    BY <1>2 DEF Tick, limiter, client
  <1>3. ASSUME NEW t \in Thread, HandleClient(t) \/ Stream(t) \/ Client(t) PROVE TypeOK'
    <2> USE Constants
    <2>1. CASE ReadClock(t)
      BY <2>1 DEF ReadClock, limiter, client, Place
    <2>2. CASE CheckLimit(t)
      <3>1. Prune(attempts[From[t]], stamp[t]) \in Seq(Nat)
        BY PruneType
      <3>2. attempts' \in [Peer -> Seq(Nat)] /\ pc' \in [Thread -> Place]
        BY <2>2, <3>1 DEF CheckLimit, Place
      <3> QED
        BY <2>2, <3>2 DEF CheckLimit, client
    <2>3. CASE Judge(t)
      BY ZenonT(60), <2>3 DEF Judge, limiter, Place
    <2>4. CASE RecordFailure(t)
      <3>1. Prune(attempts[From[t]], stamp[t]) \in Seq(Nat)
        BY PruneType
      <3>2. Append(Prune(attempts[From[t]], stamp[t]), stamp[t]) \in Seq(Nat)
        BY <3>1
      <3>3. Append(failed[From[t]], stamp[t]) \in Seq(Nat)
        OBVIOUS
      <3>4. attempts' \in [Peer -> Seq(Nat)] /\ failed' \in [Peer -> Seq(Nat)]
        BY <2>4, <3>2, <3>3 DEF RecordFailure
      <3> QED
        BY <2>4, <3>4 DEF RecordFailure, client, Place
    <2>5. CASE Clear(t)
      <3>1. attempts' \in [Peer -> Seq(Nat)] /\ failed' \in [Peer -> Seq(Nat)]
        BY <2>5 DEF Clear
      <3> QED
        BY <2>5, <3>1 DEF Clear, client, Place
    <2>6. CASE Answer(t)
      BY <2>6 DEF Answer, Serving, limiter
    <2>7. CASE Quit(t)
      BY <2>7 DEF Quit, Serving, limiter, Place
    <2>8. CASE Upgrade(t)
      BY <2>8 DEF Upgrade, Serving, limiter, Place
    <2>9. CASE Misread(t)
      BY <2>9 DEF Misread, Serving, limiter, Place
    <2>10. CASE StreamEnds(t)
      BY <2>10 DEF StreamEnds, limiter, client, Place
    <2>11. CASE StreamFails(t)
      BY <2>11 DEF StreamFails, limiter, client, Place
    <2>12. CASE GiveUp(t)
      BY <2>12 DEF GiveUp, limiter, client, Place
    <2>13. CASE Stream(t)
      BY <2>13 DEF Stream, limiter
    <2>14. CASE Accept(t)
      BY <2>14 DEF Accept, limiter, Place
    <2>15. CASE Write(t)
      BY <2>15 DEF Write, limiter
    <2>16. CASE HangUp(t)
      BY <2>16 DEF HangUp, limiter
    <2> QED
      BY <1>3, <2>1, <2>2, <2>3, <2>4, <2>5, <2>6, <2>7, <2>8, <2>9, <2>10, <2>11, <2>12,
         <2>13, <2>14, <2>15, <2>16 DEF HandleClient, Client
  <1> QED
    BY <1>1, <1>2, <1>3 DEF Next

(* The connections of a peer are finitely many, and so are those in flight.*)
LEMMA InFlightFinite ==
    ASSUME NEW p \in Peer
    PROVE  /\ IsFiniteSet(InFlight(p)) /\ Cardinality(InFlight(p)) \in Nat
           /\ Cardinality(ThreadsOf(p)) \in Nat
           /\ Cardinality(InFlight(p)) <= Cardinality(ThreadsOf(p))
  <1>1. ThreadsOf(p) \in SUBSET Thread /\ InFlight(p) \in SUBSET ThreadsOf(p)
    BY DEF ThreadsOf, InFlight
  <1>2. IsFiniteSet(ThreadsOf(p)) /\ IsFiniteSet(InFlight(p))
    BY <1>1, Constants, FS_Subset
  <1>3. Cardinality(InFlight(p)) <= Cardinality(ThreadsOf(p))
    BY <1>1, <1>2, FS_Subset
  <1> QED
    BY <1>2, <1>3, FS_CardinalityType

(* The bound survives when neither the failures nor the connections in     *)
(* flight grow.                                                            *)
LEMMA BoundKept ==
    ASSUME TypeOK, TypeOK', FailuresBounded, NEW p \in Peer,
           Len(attempts'[p]) <= Len(attempts[p]), InFlight(p)' \subseteq InFlight(p)
    PROVE  Len(attempts'[p]) + Cardinality(InFlight(p)')
               <= (MaxFailures - 1) + Cardinality(ThreadsOf(p))
  <1>1. Len(attempts[p]) + Cardinality(InFlight(p))
            <= (MaxFailures - 1) + Cardinality(ThreadsOf(p))
    BY DEF FailuresBounded
  <1>2. /\ IsFiniteSet(InFlight(p)) /\ Cardinality(InFlight(p)) \in Nat
        /\ Cardinality(ThreadsOf(p)) \in Nat
    BY InFlightFinite
  <1>3. IsFiniteSet(InFlight(p)') /\ Cardinality(InFlight(p)') <= Cardinality(InFlight(p))
    BY <1>2, FS_Subset
  <1>4. Cardinality(InFlight(p)') \in Nat
    BY <1>3, FS_CardinalityType
  <1>5. Len(attempts[p]) \in Nat /\ Len(attempts'[p]) \in Nat
    BY DEF TypeOK
  <1> QED
    BY <1>1, <1>2, <1>3, <1>4, <1>5, Constants

(* Every step keeps the bound: a failure is recorded by a connection that  *)
(* was in flight, and one joins those only below the limit.                *)
LEMMA BoundStep ==
    ASSUME TypeOK, TypeOK', FailuresBounded, [Next]_vars
    PROVE  FailuresBounded'
  <1> DEFINE Flying == {"line", "mistaken", "fail"}
             Quiet == attempts' = attempts /\ \A u \in Thread : pc'[u] \in Flying => pc[u] \in Flying
  <1>1. ASSUME Quiet PROVE FailuresBounded'
    <2>1. ASSUME NEW p \in Peer
          PROVE  InFlight(p)' \subseteq InFlight(p) /\ Len(attempts'[p]) <= Len(attempts[p])
      <3>1. Len(attempts[p]) \in Nat
        BY DEF TypeOK
      <3> QED
        BY <1>1, <3>1 DEF InFlight, ThreadsOf
    <2> QED
      BY <2>1, BoundKept DEF FailuresBounded, ThreadsOf
  <1>2. ASSUME NEW t \in Thread, CheckLimit(t) PROVE FailuresBounded'
    <2> DEFINE entries == Prune(attempts[From[t]], stamp[t])
    <2>1. entries \in Seq(Nat) /\ Len(entries) <= Len(attempts[From[t]])
      BY PruneType, Constants DEF TypeOK
    <2>2. attempts' = [attempts EXCEPT ![From[t]] = entries]
      BY <1>2 DEF CheckLimit
    <2> HIDE DEF entries
    <2>3. \A p \in Peer : Len(attempts'[p]) <= Len(attempts[p])
      <3>1. \A p \in Peer : Len(attempts[p]) \in Nat
        BY DEF TypeOK
      <3> QED
        BY <2>1, <2>2, <3>1 DEF TypeOK
    <2>4. CASE Limited(entries)
      <3>1. \A u \in Thread : pc'[u] \in Flying => pc[u] \in Flying
        BY <1>2, <2>4 DEF CheckLimit, TypeOK, entries
      <3>2. \A p \in Peer : InFlight(p)' \subseteq InFlight(p)
        BY <3>1 DEF InFlight, ThreadsOf
      <3> QED
        BY <2>3, <3>2, BoundKept DEF FailuresBounded, ThreadsOf
    <2>5. CASE ~Limited(entries)
      <3>1. ASSUME NEW p \in Peer, p # From[t]
            PROVE  InFlight(p)' \subseteq InFlight(p)
        BY <1>2, <2>5, <3>1 DEF CheckLimit, TypeOK, InFlight, ThreadsOf
      <3>2. ASSUME NEW p \in Peer, p = From[t]
            PROVE  Len(attempts'[p]) + Cardinality(InFlight(p)')
                       <= (MaxFailures - 1) + Cardinality(ThreadsOf(p))
        <4>1. Len(attempts'[p]) <= MaxFailures - 1
          <5>1. attempts'[p] = entries
            BY <2>2, <3>2 DEF TypeOK
          <5> QED
            BY <2>1, <2>5, <5>1, Constants DEF Limited
        <4>2. /\ IsFiniteSet(ThreadsOf(p)) /\ Cardinality(ThreadsOf(p)) \in Nat
              /\ InFlight(p)' \in SUBSET ThreadsOf(p)
          <5>1. ThreadsOf(p) \in SUBSET Thread
            BY DEF ThreadsOf
          <5> QED
            BY <5>1, Constants, FS_Subset, FS_CardinalityType DEF InFlight, ThreadsOf
        <4>3. Cardinality(InFlight(p)') <= Cardinality(ThreadsOf(p)) /\ IsFiniteSet(InFlight(p)')
          BY <4>2, FS_Subset
        <4>4. Cardinality(InFlight(p)') \in Nat /\ Len(attempts'[p]) \in Nat
          BY <4>3, FS_CardinalityType DEF TypeOK
        <4> QED
          BY <4>1, <4>2, <4>3, <4>4, Constants
      <3> QED
        BY <2>3, <3>1, <3>2, BoundKept DEF FailuresBounded, ThreadsOf
    <2> QED
      BY <2>4, <2>5
  <1>3. ASSUME NEW t \in Thread, RecordFailure(t) PROVE FailuresBounded'
    <2> DEFINE entries == Prune(attempts[From[t]], stamp[t])
    <2>1. entries \in Seq(Nat) /\ Len(entries) <= Len(attempts[From[t]])
      BY PruneType, Constants DEF TypeOK
    <2>2. attempts' = [attempts EXCEPT ![From[t]] = Append(entries, stamp[t])]
      BY <1>3 DEF RecordFailure
    <2> HIDE DEF entries
    <2>3. ASSUME NEW p \in Peer, p # From[t]
          PROVE  Len(attempts'[p]) <= Len(attempts[p]) /\ InFlight(p)' \subseteq InFlight(p)
      <3>1. Len(attempts[p]) \in Nat /\ attempts'[p] = attempts[p]
        BY <2>2, <2>3 DEF TypeOK
      <3> QED
        BY <1>3, <3>1 DEF RecordFailure, TypeOK, InFlight, ThreadsOf
    <2>4. ASSUME NEW p \in Peer, p = From[t]
          PROVE  Len(attempts'[p]) + Cardinality(InFlight(p)')
                     <= (MaxFailures - 1) + Cardinality(ThreadsOf(p))
      <3>1. Len(attempts'[p]) = Len(entries) + 1
        <4>1. attempts'[p] = Append(entries, stamp[t])
          BY <2>2, <2>4 DEF TypeOK
        <4> QED
          BY <2>1, <4>1 DEF TypeOK
      <3>2. t \in InFlight(p) /\ InFlight(p)' = InFlight(p) \ {t}
        BY <1>3, <2>4 DEF RecordFailure, TypeOK, InFlight, ThreadsOf
      <3>3. /\ IsFiniteSet(InFlight(p)) /\ Cardinality(InFlight(p)) \in Nat
            /\ Cardinality(ThreadsOf(p)) \in Nat
        BY InFlightFinite
      <3>4. Cardinality(InFlight(p)') = Cardinality(InFlight(p)) - 1
        BY <3>2, <3>3, FS_RemoveElement
      <3>5. Len(attempts[p]) + Cardinality(InFlight(p))
                <= (MaxFailures - 1) + Cardinality(ThreadsOf(p))
        BY DEF FailuresBounded
      <3>6. Len(entries) <= Len(attempts[p]) /\ Len(attempts[p]) \in Nat /\ Len(entries) \in Nat
        BY <2>1, <2>4 DEF TypeOK
      <3> QED
        BY <3>1, <3>3, <3>4, <3>5, <3>6, Constants
    <2> QED
      BY <2>3, <2>4, BoundKept DEF FailuresBounded, ThreadsOf
  <1>4. ASSUME NEW t \in Thread, Clear(t) PROVE FailuresBounded'
    <2>1. attempts' = [attempts EXCEPT ![From[t]] = <<>>]
      BY <1>4 DEF Clear
    <2>2. \A p \in Peer : Len(attempts'[p]) <= Len(attempts[p])
      BY <2>1 DEF TypeOK
    <2>3. \A p \in Peer : InFlight(p)' \subseteq InFlight(p)
      BY <1>4 DEF Clear, TypeOK, InFlight, ThreadsOf
    <2> QED
      BY <2>2, <2>3, BoundKept DEF FailuresBounded, ThreadsOf
  <1>5. CASE UNCHANGED vars
    BY <1>1, <1>5 DEF vars, limiter
  <1>6. CASE Tick
    BY <1>1, <1>6 DEF Tick, limiter
  <1>7. ASSUME NEW t \in Thread, HandleClient(t) \/ Stream(t) \/ Client(t)
        PROVE  Quiet \/ CheckLimit(t) \/ RecordFailure(t) \/ Clear(t)
    <2> USE DEF TypeOK, limiter
    <2>1. CASE ReadClock(t)
      BY <2>1 DEF ReadClock
    <2>2. CASE Judge(t)
      BY <2>2 DEF Judge
    <2>3. CASE Answer(t) \/ Quit(t) \/ Upgrade(t) \/ Misread(t)
      BY <2>3 DEF Answer, Quit, Upgrade, Misread, Serving
    <2>4. CASE StreamEnds(t) \/ StreamFails(t) \/ GiveUp(t) \/ Stream(t)
      BY <2>4 DEF StreamEnds, StreamFails, GiveUp, Stream
    <2>5. CASE Accept(t) \/ Write(t) \/ HangUp(t)
      BY <2>5 DEF Accept, Write, HangUp
    <2> QED
      BY <1>7, <2>1, <2>2, <2>3, <2>4, <2>5 DEF HandleClient, Client
  <1> HIDE DEF Quiet
  <1> QED
    BY <1>1, <1>2, <1>3, <1>4, <1>5, <1>6, <1>7 DEF Next

(* Pruning what is left of a history leaves a later part of that history,  *)
(* and drops only what has expired by the time n the clock shows.          *)
LEMMA PrunedHistory ==
    ASSUME NEW s \in Seq(Nat), NEW k \in 0..Len(s), NEW m \in Nat, NEW n \in Nat, m <= n,
           \A i \in 1..k : Expired(s[i], n)
    PROVE  \E l \in 0..Len(s) :
              /\ Prune(Suffix(s, k), m) = Suffix(s, l)
              /\ \A i \in 1..l : Expired(s[i], n)
              /\ l < Len(s) => ~Expired(s[l + 1], m)
  <1> DEFINE a == Suffix(s, k)
  <1>1. /\ a \in Seq(Nat) /\ Len(a) = Len(s) - k
        /\ \A i \in 1..(Len(s) - k) : a[i] = s[k + i]
    BY SuffixProperties
  <1> HIDE DEF a
  <1>2. PICK j \in 0..Len(a) : /\ Prune(a, m) = Suffix(a, j)
                               /\ \A i \in 1..j : Expired(a[i], m)
                               /\ j < Len(a) => ~Expired(a[j + 1], m)
    BY <1>1, PruneIsSuffix
  <1>3. j \in 0..(Len(s) - k) /\ k + j \in 0..Len(s)
    BY <1>1
  <1>4. Suffix(a, j) = Suffix(s, k + j)
    BY <1>3, SuffixOfSuffix DEF a
  <1>5. ASSUME NEW i \in 1..(k + j) PROVE Expired(s[i], n)
    <2>1. CASE i <= k
      BY <2>1
    <2>2. CASE k < i
      <3>1. i - k \in 1..j /\ i - k \in 1..(Len(s) - k) /\ k + (i - k) = i
        BY <1>3, <2>2
      <3>2. Expired(a[i - k], m) /\ a[i - k] = s[i]
        BY <1>1, <1>2, <3>1
      <3>3. s[i] \in Nat
        BY <1>3
      <3> QED
        BY SMTT(30), <3>2, <3>3, Constants DEF Expired
    <2> QED
      BY <2>1, <2>2
  <1>6. k + j < Len(s) => ~Expired(s[(k + j) + 1], m)
    <2>1. SUFFICES ASSUME k + j < Len(s) PROVE ~Expired(s[(k + j) + 1], m)
      OBVIOUS
    <2>2. j < Len(a) /\ j + 1 \in 1..(Len(s) - k) /\ k + (j + 1) = (k + j) + 1
      BY <1>1, <2>1
    <2> QED
      BY <1>1, <1>2, <2>2
  <1> QED
    BY <1>2, <1>3, <1>4, <1>5, <1>6 DEF a

(* What the limiter finds for a peer when it prunes at a thread's stamp.   *)
LEMMA Pruned ==
    ASSUME TypeOK, Remembered, StampsPast, NEW t \in Thread
    PROVE  \E l \in 0..Len(failed[From[t]]) :
              /\ Prune(attempts[From[t]], stamp[t]) = Suffix(failed[From[t]], l)
              /\ \A i \in 1..l : Expired(failed[From[t]][i], now)
              /\ l < Len(failed[From[t]]) => ~Expired(failed[From[t]][l + 1], stamp[t])
  <1>1. From[t] \in Peer /\ failed[From[t]] \in Seq(Nat)
    BY Constants DEF TypeOK
  <1>2. PICK k \in 0..Len(failed[From[t]]) :
           /\ attempts[From[t]] = Suffix(failed[From[t]], k)
           /\ \A i \in 1..k : Expired(failed[From[t]][i], now)
    BY <1>1 DEF Remembered
  <1>3. stamp[t] \in Nat /\ now \in Nat /\ stamp[t] <= now
    BY DEF TypeOK, StampsPast
  <1> DEFINE s == failed[From[t]]
             m == stamp[t]
  <1>4. \E l \in 0..Len(s) :
           /\ Prune(Suffix(s, k), m) = Suffix(s, l)
           /\ \A i \in 1..l : Expired(s[i], now)
           /\ l < Len(s) => ~Expired(s[l + 1], m)
    <2>1. /\ s \in Seq(Nat) /\ k \in 0..Len(s) /\ m \in Nat /\ now \in Nat /\ m <= now
          /\ \A i \in 1..k : Expired(s[i], now)
      BY <1>1, <1>2, <1>3
    <2> HIDE DEF s, m
    <2> QED
      BY <2>1, PrunedHistory
  <1> QED
    BY <1>2, <1>4

LEMMA HistoryStep ==
    ASSUME TypeOK, TypeOK', Remembered, StampsPast, [Next]_vars
    PROVE  Remembered'
  <1> DEFINE Kept(p) == \E k \in 0..Len(failed'[p]) :
                           /\ attempts'[p] = Suffix(failed'[p], k)
                           /\ \A i \in 1..k : Expired(failed'[p][i], now')
  <1>1. ASSUME NEW p \in Peer, attempts'[p] = attempts[p], failed'[p] = failed[p], now' >= now
        PROVE  Kept(p)
    <2>1. PICK k \in 0..Len(failed[p]) : /\ attempts[p] = Suffix(failed[p], k)
                                         /\ \A i \in 1..k : Expired(failed[p][i], now)
      BY DEF Remembered
    <2>2. \A i \in 1..k : failed[p][i] \in Nat
      BY DEF TypeOK
    <2>3. \A i \in 1..k : Expired(failed[p][i], now')
      BY SMTT(30), <1>1, <2>1, <2>2, Constants DEF Expired, TypeOK
    <2> QED
      BY <1>1, <2>1, <2>3
  <1>2. ASSUME UNCHANGED <<attempts, failed>>, now' >= now PROVE Remembered'
    BY <1>1, <1>2 DEF Remembered
  <1>3. ASSUME NEW t \in Thread, CheckLimit(t) PROVE Remembered'
    <2>1. PICK l \in 0..Len(failed[From[t]]) :
             /\ Prune(attempts[From[t]], stamp[t]) = Suffix(failed[From[t]], l)
             /\ \A i \in 1..l : Expired(failed[From[t]][i], now)
      BY Pruned
    <2>2. /\ attempts' = [attempts EXCEPT ![From[t]] = Prune(attempts[From[t]], stamp[t])]
          /\ failed' = failed /\ now' = now /\ now \in Nat
      BY <1>3 DEF CheckLimit, TypeOK
    <2>3. Kept(From[t])
      BY <2>1, <2>2, Constants DEF TypeOK
    <2>4. \A p \in Peer \ {From[t]} : Kept(p)
      <3>1. \A p \in Peer \ {From[t]} : attempts'[p] = attempts[p] /\ failed'[p] = failed[p]
        BY <2>2 DEF TypeOK
      <3> QED
        BY <1>1, <2>2, <3>1
    <2> QED
      BY <2>3, <2>4 DEF Remembered
  <1>4. ASSUME NEW t \in Thread, RecordFailure(t) PROVE Remembered'
    <2> DEFINE s == failed[From[t]]
               e == stamp[t]
    <2>1. PICK l \in 0..Len(s) :
             /\ Prune(attempts[From[t]], e) = Suffix(s, l)
             /\ \A i \in 1..l : Expired(s[i], now)
      BY Pruned
    <2>2. /\ attempts' = [attempts EXCEPT ![From[t]] = Append(Prune(@, e), e)]
          /\ failed' = [failed EXCEPT ![From[t]] = Append(@, e)]
          /\ now' = now /\ now \in Nat
      BY <1>4 DEF RecordFailure, TypeOK
    <2>3. attempts'[From[t]] = Append(Prune(attempts[From[t]], e), e) /\ failed'[From[t]] = Append(s, e)
      BY <2>2, Constants DEF TypeOK
    <2>4. s \in Seq(Nat) /\ e \in Nat
      BY Constants DEF TypeOK
    <2>5. Kept(From[t])
      <3> HIDE DEF s, e
      <3>1. attempts'[From[t]] = Suffix(failed'[From[t]], l)
        BY <2>1, <2>3, <2>4, SuffixOfAppend
      <3>2. /\ l \in 0..Len(failed'[From[t]])
            /\ \A i \in 1..l : failed'[From[t]][i] = s[i]
        BY <2>3, <2>4
      <3> QED
        BY <2>1, <2>2, <3>1, <3>2
    <2>6. \A p \in Peer \ {From[t]} : Kept(p)
      <3>1. \A p \in Peer \ {From[t]} : attempts'[p] = attempts[p] /\ failed'[p] = failed[p]
        BY <2>2 DEF TypeOK
      <3> QED
        BY <1>1, <2>2, <3>1
    <2> QED
      BY <2>5, <2>6 DEF Remembered
  <1>5. ASSUME NEW t \in Thread, Clear(t) PROVE Remembered'
    <2>1. /\ attempts' = [attempts EXCEPT ![From[t]] = <<>>]
          /\ failed' = [failed EXCEPT ![From[t]] = <<>>]
          /\ now' = now /\ now \in Nat
      BY <1>5 DEF Clear, TypeOK
    <2>2. Kept(From[t])
      <3>1. attempts'[From[t]] = <<>> /\ failed'[From[t]] = <<>>
        BY <2>1, Constants DEF TypeOK
      <3>2. Suffix(<<>>, 0) = <<>> /\ Len(<<>>) = 0
        BY SubSeqEmpty DEF Suffix
      <3> QED
        BY <3>1, <3>2
    <2>3. \A p \in Peer \ {From[t]} : Kept(p)
      <3>1. \A p \in Peer \ {From[t]} : attempts'[p] = attempts[p] /\ failed'[p] = failed[p]
        BY <2>1 DEF TypeOK
      <3> QED
        BY <1>1, <2>1, <3>1
    <2> QED
      BY <2>2, <2>3 DEF Remembered
  <1>6. CASE UNCHANGED vars
    BY <1>2, <1>6 DEF vars, limiter, TypeOK
  <1>7. CASE Tick
    BY <1>2, <1>7 DEF Tick, limiter, TypeOK
  <1>8. ASSUME NEW t \in Thread, HandleClient(t) \/ Stream(t) \/ Client(t)
        PROVE  Remembered'
    <2>1. UNCHANGED <<now, attempts, failed>> \/ CheckLimit(t) \/ RecordFailure(t) \/ Clear(t)
      BY <1>8 DEF HandleClient, Client, limiter, ReadClock, Judge, Answer, Quit, Upgrade, Misread,
                  Serving, Stream, StreamEnds, StreamFails, GiveUp, Accept, Write, HangUp
    <2> QED
      BY <1>2, <1>3, <1>4, <1>5, <2>1 DEF TypeOK
  <1> QED
    BY <1>6, <1>7, <1>8 DEF Next

LEMMA StampStep ==
    ASSUME TypeOK, TypeOK', StampsPast, [Next]_vars
    PROVE  StampsPast'
  <1>1. ASSUME stamp' = stamp, now' >= now PROVE StampsPast'
    BY <1>1 DEF StampsPast, TypeOK
  <1>2. ASSUME NEW t \in Thread, now' = now,
               stamp' = [stamp EXCEPT ![t] = now] \/ stamp' = [stamp EXCEPT ![t] = 0]
        PROVE  StampsPast'
    <2>1. now \in Nat /\ now <= now /\ 0 <= now
      BY DEF TypeOK
    <2>2. ASSUME NEW u \in Thread PROVE stamp'[u] <= now'
      <3>1. stamp'[u] \in {stamp[u], now, 0} /\ stamp[u] <= now
        BY <1>2 DEF StampsPast, TypeOK
      <3> QED
        BY <1>2, <2>1, <3>1
    <2> QED
      BY <2>2 DEF StampsPast
  <1>3. CASE UNCHANGED vars
    BY <1>1, <1>3 DEF vars, TypeOK
  <1>4. CASE Tick
    BY <1>1, <1>4 DEF Tick, TypeOK
  <1>5. ASSUME NEW t \in Thread, HandleClient(t) \/ Stream(t) \/ Client(t)
        PROVE  StampsPast'
    <2>1. \/ UNCHANGED <<now, stamp>>
          \/ now' = now /\ stamp' = [stamp EXCEPT ![t] = now]
          \/ now' = now /\ stamp' = [stamp EXCEPT ![t] = 0]
      BY <1>5 DEF HandleClient, Client, ReadClock, CheckLimit, Judge, RecordFailure, Clear,
                  Answer, Quit, Upgrade, Misread, Serving, Stream, StreamEnds, StreamFails,
                  GiveUp, Accept, Write, HangUp
    <2> QED
      BY <1>1, <1>2, <2>1 DEF TypeOK
  <1> QED
    BY <1>3, <1>4, <1>5 DEF Next

LEMMA IInvStep == IInv /\ [Next]_vars => IInv'
  BY TypeStep, BoundStep, HistoryStep, StampStep DEF IInv

THEOREM Inductive == Spec => []IInv
  BY InitIInv, IInvStep, PTL DEF Spec

(* Every variable keeps its type.                                          *)
THEOREM TypeCorrect == Spec => []TypeOK
  <1>1. IInv => TypeOK
    BY DEF IInv
  <1> QED
    BY <1>1, Inductive, PTL

(* However many connections a peer opens and however they interleave, it   *)
(* never has more than MaxFailures - 1 failures plus one per connection.   *)
THEOREM FailureBound == Spec => []FailuresBounded
  <1>1. IInv => FailuresBounded
    BY DEF IInv
  <1> QED
    BY <1>1, Inductive, PTL

(* What is left of the history after pruning covers its recent failures.   *)
LEMMA RecentIsKept ==
    ASSUME NEW s \in Seq(Nat), NEW l \in 0..Len(s), NEW n \in Nat,
           \A i \in 1..l : Expired(s[i], n)
    PROVE  Cardinality(Recent(s, n)) <= Len(s) - l
  <1>1. Recent(s, n) \in SUBSET ((l + 1)..Len(s))
    BY DEF Recent
  <1>2. IsFiniteSet((l + 1)..Len(s)) /\ Cardinality((l + 1)..Len(s)) = Len(s) - l
    <2>1. l + 1 \in Int /\ Len(s) \in Int
      OBVIOUS
    <2>2. /\ IsFiniteSet((l + 1)..Len(s))
          /\ Cardinality((l + 1)..Len(s)) = IF l + 1 > Len(s) THEN 0 ELSE Len(s) - (l + 1) + 1
      BY <2>1, FS_Interval
    <2> QED
      BY <2>2
  <1>3. Cardinality(Recent(s, n)) <= Cardinality((l + 1)..Len(s))
    BY <1>1, <1>2, FS_Subset
  <1> QED
    BY <1>2, <1>3

(* A connection passes the limiter only below the limit, counted over all  *)
(* failures of the peer within the window that ends now.                   *)
THEOREM UnderLimit == Spec => AdmittedUnderLimit
  <1>1. ASSUME IInv, [Next]_vars, NEW t \in Thread, pc[t] = "limit", pc'[t] = "line"
        PROVE  Cardinality(Recent(failed[From[t]], now)) < MaxFailures
    <2>1. CheckLimit(t)
      <3>1. PICK u \in Thread : HandleClient(u) \/ Stream(u) \/ Client(u)
        BY <1>1 DEF Next, vars, Tick
      <3> USE <1>1, <3>1 DEF IInv, TypeOK
      <3>2. u = t
        BY DEF HandleClient, Client, ReadClock, CheckLimit, Judge, RecordFailure, Clear,
               Answer, Quit, Upgrade, Misread, Serving, Stream, StreamEnds, StreamFails,
               GiveUp, Accept, Write, HangUp
      <3> QED
        BY <3>2 DEF HandleClient, Client, ReadClock, Judge, RecordFailure, Clear,
               Answer, Quit, Upgrade, Misread, Serving, Stream, StreamEnds, StreamFails,
               GiveUp, Accept, Write, HangUp
    <2> DEFINE s == failed[From[t]]
    <2>2. s \in Seq(Nat) /\ now \in Nat
      BY <1>1, Constants DEF IInv, TypeOK
    <2>3. PICK l \in 0..Len(s) : /\ Prune(attempts[From[t]], stamp[t]) = Suffix(s, l)
                                 /\ \A i \in 1..l : Expired(s[i], now)
      BY <1>1, Pruned DEF IInv
    <2>4. Len(Suffix(s, l)) < MaxFailures /\ Len(Suffix(s, l)) = Len(s) - l
      <3>1. ~Limited(Prune(attempts[From[t]], stamp[t]))
        BY <1>1, <2>1 DEF CheckLimit, IInv, TypeOK
      <3>2. Len(Suffix(s, l)) = Len(s) - l
        BY <2>2, SuffixProperties
      <3> QED
        BY <2>2, <2>3, <3>1, <3>2, Constants DEF Limited
    <2>5. Cardinality(Recent(s, now)) <= Len(s) - l
      <3> HIDE DEF s
      <3> QED
        BY <2>2, <2>3, RecentIsKept
    <2>6. Cardinality(Recent(s, now)) \in Nat
      <3>1. Recent(s, now) \in SUBSET (1..Len(s)) /\ IsFiniteSet(1..Len(s))
        <4>1. DOMAIN s = 1..Len(s) /\ 1 \in Int /\ Len(s) \in Int
          BY <2>2
        <4> HIDE DEF s
        <4> QED
          BY <4>1, FS_Interval DEF Recent
      <3> QED
        BY <3>1, FS_Subset, FS_CardinalityType
    <2> QED
      BY <2>2, <2>4, <2>5, <2>6, Constants
  <1>2. IInv /\ [Next]_vars
        => [\A t \in Thread : (pc[t] = "limit" /\ pc'[t] = "line")
                => Cardinality(Recent(failed[From[t]], now)) < MaxFailures]_vars
    BY <1>1
  <1> QED
    BY <1>2, Inductive, PTL DEF Spec, AdmittedUnderLimit

(* A connection is refused only for as many failures as the limit, at      *)
(* least one of them within the window that ends at its stamp.             *)
THEOREM RefusalHasReason == Spec => RefusedForAReason
  <1>1. ASSUME IInv, [Next]_vars, NEW t \in Thread, pc[t] = "limit", pc'[t] = "closed"
        PROVE  Len(failed[From[t]]) >= MaxFailures /\ Recent(failed[From[t]], stamp[t]) # {}
    <2>1. CheckLimit(t)
      <3>1. PICK u \in Thread : HandleClient(u) \/ Stream(u) \/ Client(u)
        BY <1>1 DEF Next, vars, Tick
      <3> USE <1>1, <3>1 DEF IInv, TypeOK
      <3>2. u = t
        BY DEF HandleClient, Client, ReadClock, CheckLimit, Judge, RecordFailure, Clear,
               Answer, Quit, Upgrade, Misread, Serving, Stream, StreamEnds, StreamFails,
               GiveUp, Accept, Write, HangUp
      <3>3. ~(ReadClock(t) \/ Judge(t) \/ RecordFailure(t) \/ Clear(t) \/ Answer(t)
              \/ Quit(t) \/ Upgrade(t) \/ Misread(t))
        BY DEF ReadClock, Judge, RecordFailure, Clear, Answer, Quit, Upgrade, Misread, Serving
      <3>4. ~(Stream(t) \/ StreamEnds(t) \/ StreamFails(t) \/ GiveUp(t) \/ Client(t))
        BY DEF Stream, StreamEnds, StreamFails, GiveUp, Client, Accept, Write, HangUp
      <3> QED
        BY <3>2, <3>3, <3>4 DEF HandleClient
    <2> DEFINE s == failed[From[t]]
    <2>2. s \in Seq(Nat) /\ stamp[t] \in Nat
      BY <1>1, Constants DEF IInv, TypeOK
    <2>3. PICK l \in 0..Len(s) : /\ Prune(attempts[From[t]], stamp[t]) = Suffix(s, l)
                                 /\ l < Len(s) => ~Expired(s[l + 1], stamp[t])
      BY <1>1, Pruned DEF IInv
    <2>4. Len(Suffix(s, l)) >= MaxFailures /\ Len(Suffix(s, l)) = Len(s) - l
      <3>1. Limited(Prune(attempts[From[t]], stamp[t]))
        BY <1>1, <2>1 DEF CheckLimit, IInv, TypeOK
      <3>2. Len(Suffix(s, l)) = Len(s) - l
        BY <2>2, SuffixProperties
      <3> QED
        BY <2>2, <2>3, <3>1, <3>2, Constants DEF Limited
    <2>5. l < Len(s) /\ Len(s) >= MaxFailures
      BY <2>2, <2>4, Constants
    <2>6. l + 1 \in Recent(s, stamp[t])
      BY <2>2, <2>3, <2>5 DEF Recent
    <2> QED
      BY <2>5, <2>6
  <1>2. IInv /\ [Next]_vars
        => [\A t \in Thread : (pc[t] = "limit" /\ pc'[t] = "closed")
                => /\ Len(failed[From[t]]) >= MaxFailures
                   /\ Recent(failed[From[t]], stamp[t]) # {}]_vars
    BY <1>1
  <1> QED
    BY <1>2, Inductive, PTL DEF Spec, RefusedForAReason

-----------------------------------------------------------------------------
(* No stream fails while its client is there: none goes back to commands.  *)
StreamsLast == [][\A t \in Thread : pc[t] = "streaming" => pc'[t] # "serving"]_vars

(* Until then a thread that is not streaming has told its client of lines. *)
Framed == \A t \in Thread : channel[t] # "lines" =>
              pc[t] \in {"streaming", "closed"} /\ reply[t] \in {"upgraded", "frame"}

LEMMA FramedStep ==
    TypeOK /\ Framed /\ [Next]_vars
        /\ [\A t \in Thread : pc[t] = "streaming" => pc'[t] # "serving"]_vars => Framed'
  <1> SUFFICES ASSUME TypeOK, Framed, [Next]_vars,
                      [\A t \in Thread : pc[t] = "streaming" => pc'[t] # "serving"]_vars
               PROVE  Framed'
    OBVIOUS
  <1> USE DEF TypeOK, Framed
  <1>1. CASE UNCHANGED vars \/ Tick
    BY <1>1 DEF vars, Tick
  <1>2. ASSUME ~UNCHANGED vars, NEW t \in Thread, HandleClient(t) \/ Stream(t) \/ Client(t)
        PROVE  Framed'
    <2>1. CASE ReadClock(t) \/ CheckLimit(t) \/ Judge(t) \/ RecordFailure(t) \/ Clear(t)
      BY <2>1 DEF ReadClock, CheckLimit, Judge, RecordFailure, Clear
    <2>2. CASE Answer(t) \/ Quit(t) \/ Upgrade(t) \/ Misread(t)
      BY <2>2 DEF Answer, Quit, Upgrade, Misread, Serving
    <2>3. CASE Stream(t) \/ StreamEnds(t) \/ GiveUp(t)
      BY <2>3 DEF Stream, StreamEnds, GiveUp
    <2>4. CASE StreamFails(t)
      <3>1. pc'[t] # "serving"
        BY <1>2, <2>4 DEF StreamFails
      <3> QED
        BY <2>4, <3>1 DEF StreamFails
    <2>5. CASE Client(t)
      BY ZenonT(60), <2>5 DEF Client, Accept, Write, HangUp
    <2> QED
      BY <1>2, <2>1, <2>2, <2>3, <2>4, <2>5 DEF HandleClient
  <1> QED
    BY <1>1, <1>2 DEF Next

(* As long as no stream fails under a client that is there, an upgraded    *)
(* connection carries nothing but frames: the return of a failed stream to *)
(* the command loop is the only way text gets among them, and it is no     *)
(* command, misread frame or refusal (protocol.rs 113-145, 229-318).       *)
THEOREM FramedUnlessFailed == Spec /\ StreamsLast => []UpgradedIsFramed
  <1>1. Init => Framed
    BY DEF Init, Framed
  <1>2. Framed => UpgradedIsFramed
    BY DEF Framed, UpgradedIsFramed
  <1> QED
    BY <1>1, <1>2, FramedStep, TypeCorrect, PTL DEF Spec, StreamsLast
=============================================================================
