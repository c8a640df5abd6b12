------------------------------ MODULE HubProofs ------------------------------
(* Theorems about Hub, for any number of connections and all its bounds.    *)
EXTENDS Hub, SequenceTheorems, TLAPS

\* A connection that is not in the map yet is open.
AcceptedIsOpen == \A c \in Conns : pc[c] = "accepted" => c \in open

\* The inductive invariant of connections.
CInv == TypeOK /\ MapHasTheOpen /\ AcceptedIsOpen

\* What the first reading finds: all alerts of that moment, newest first.
ReadingOK ==
    bc.pc = "length" =>
      /\ bc.at <= raised
      /\ Len(bc.first) = IF bc.at < MaxAlerts THEN bc.at ELSE MaxAlerts
      /\ \A i \in 1 .. Len(bc.first) : bc.first[i] = bc.at + 1 - i

\* The inductive invariant of alerts and snapshots, given CInv.
AInv == NewestSurvive /\ ReadingOK /\ ShowsNewest /\ PanicNeedsShortList

USE HubAssumption DEF hubVars, alertVars
-----------------------------------------------------------------------------
(* Sequences.                                                              *)

\* A list with room gets the new entry at its end (PushTraffic, AddAlert, AddLog).
LEMMA PushedWithRoom ==
    ASSUME NEW s \in Seq(Nat), NEW x \in Nat, NEW max \in Nat, Len(s) < max
    PROVE  Pushed(s, x, max) = Append(s, x)
  <1>1. Len(Append(s, x)) = Len(s) + 1
    OBVIOUS
  <1> QED
    BY <1>1 DEF Pushed

\* A full list loses its oldest entry for it and no other.
LEMMA PushedWhenFull ==
    ASSUME NEW s \in Seq(Nat), NEW x \in Nat, NEW max \in Nat \ {0}, Len(s) = max
    PROVE  /\ Len(Pushed(s, x, max)) = max
           /\ \A i \in 1 .. max : Pushed(s, x, max)[i] = IF i = max THEN x ELSE s[i + 1]
  <1> DEFINE t == Append(s, x)
  <1>1. /\ t \in Seq(Nat) /\ Len(t) = max + 1
        /\ \A j \in 1 .. Len(s) : t[j] = s[j]
        /\ t[max + 1] = x
    BY AppendProperties
  <1>2. Pushed(s, x, max) = SubSeq(t, 2, max + 1)
    BY <1>1 DEF Pushed
  <1> HIDE DEF t
  <1>3. \A i \in 1 .. max : i + 1 \in 1 .. max + 1 /\ (i # max => i + 1 \in 1 .. Len(s))
    OBVIOUS
  <1>4. /\ Len(SubSeq(t, 2, max + 1)) = max
        /\ \A i \in 1 .. max : SubSeq(t, 2, max + 1)[i] = t[i + 1]
    <2>1. PICK k \in Int, n \in Int : k = 2 /\ n = max + 1
      OBVIOUS
    <2>2. \A i \in k .. n : t[i] \in Nat
      BY <1>1, <2>1
    <2>3. /\ Len(SubSeq(t, k, n)) = IF k <= n THEN n - k + 1 ELSE 0
          /\ \A i \in 1 .. n - k + 1 : SubSeq(t, k, n)[i] = t[k + i - 1]
      BY <1>1, <2>2, SubSeqProperties
    <2>4. k <= n /\ n - k + 1 = max /\ \A i \in 1 .. max : k + i - 1 = i + 1
      BY <2>1
    <2> QED
      BY <2>1, <2>3, <2>4
  <1>5. \A i \in 1 .. max : t[i + 1] = IF i = max THEN x ELSE s[i + 1]
    BY <1>1, <1>3
  <1> QED
    BY <1>2, <1>4, <1>5

\* It makes a list of a list.
LEMMA PushedIsSeq ==
    ASSUME NEW s \in Seq(Nat), NEW x \in Nat, NEW max \in Nat \ {0}
    PROVE  Pushed(s, x, max) \in Seq(Nat)
  <1> DEFINE t == Append(s, x)
  <1>1. t \in Seq(Nat) /\ Len(t) \in Nat
    OBVIOUS
  <1> HIDE DEF t
  <1>2. Len(t) > max => SubSeq(t, Len(t) - max + 1, Len(t)) \in Seq(Nat)
    <2> SUFFICES ASSUME Len(t) > max
                 PROVE  SubSeq(t, Len(t) - max + 1, Len(t)) \in Seq(Nat)
      OBVIOUS
    <2>1. PICK n \in Int : n = Len(t)
      BY <1>1
    <2>2. PICK k \in Int : k = n - max + 1
      OBVIOUS
    <2>3. k >= 1
      BY <2>1, <2>2
    <2>4. ASSUME NEW i \in k .. n
          PROVE  t[i] \in Nat
      <3>1. i \in 1 .. Len(t)
        BY <1>1, <2>1, <2>3
      <3> QED
        BY <1>1, <3>1, ElementOfSeq
    <2>5. SubSeq(t, k, n) \in Seq(Nat)
      BY <2>4, SubSeqProperties
    <2> QED
      BY <2>1, <2>2, <2>5
  <1>3. Pushed(s, x, max) = IF Len(t) > max THEN SubSeq(t, Len(t) - max + 1, Len(t)) ELSE t
    BY DEF Pushed, t
  <1> QED
    BY <1>1, <1>2, <1>3

\* Alerts turns the list around.
LEMMA AlertsReversed ==
    ASSUME alerts \in Seq(Nat)
    PROVE  /\ Alerts \in Seq(Nat)
           /\ Len(Alerts) = Len(alerts)
           /\ \A i \in 1 .. Len(alerts) : Alerts[i] = alerts[Len(alerts) + 1 - i]
  BY DEF Alerts

\* The bound is the smaller of the two.
LEMMA BoundIsLeast ==
    ASSUME NEW n \in Nat
    PROVE  Bound(n) \in Nat /\ Bound(n) <= n /\ Bound(n) <= Shown
  BY DEF Bound
-----------------------------------------------------------------------------
(* Connections.                                                            *)

LEMMA InitCInv == Init => CInv
  <1> SUFFICES ASSUME Init
               PROVE  CInv
    OBVIOUS
  <1>1. <<>> \in Seq(Nat) /\ 0 \in Nat /\ {} \in SUBSET Conns
    OBVIOUS
  <1>2. bc \in [pc : {"tick", "length", "lock", "write", "panicked"}, at : Nat,
                first : Seq(Nat), msg : Seq(Nat), todo : SUBSET Conns]
    BY <1>1 DEF Init, Waiting
  <1>3. bc.pc = "tick" /\ bc.todo = {}
    BY DEF Init, Waiting
  <1> QED
    BY <1>1, <1>2, <1>3 DEF Init, CInv, TypeOK, MapHasTheOpen, AcceptedIsOpen, Places

LEMMA StepCInv == CInv /\ [Next]_vars => CInv'
  <1> SUFFICES ASSUME CInv, [Next]_vars
               PROVE  CInv'
    OBVIOUS
  <1> USE DEF CInv, TypeOK, MapHasTheOpen, AcceptedIsOpen, Places
  <1>1. ASSUME NEW c \in Conns, Accept(c) \/ Register(c) \/ ReadFails(c)
        PROVE  CInv'
    <2>1. CASE Accept(c)
      BY <2>1 DEF Accept
    <2>2. CASE Register(c)
      BY <2>2 DEF Register
    <2>3. CASE ReadFails(c)
      BY <2>3 DEF ReadFails
    <2> QED
      BY <1>1, <2>1, <2>2, <2>3
  <1>2. ASSUME NEW c \in Conns, Unregister(c) \/ Close(c)
        PROVE  CInv'
    <2>1. CASE Unregister(c)
      BY <2>1 DEF Unregister
    <2>2. CASE Close(c)
      BY <2>2 DEF Close
    <2> QED
      BY <1>2, <2>1, <2>2
  <1>3. ASSUME NEW c \in Conns, NEW how \in {"ok", "stuck", "gone"}, PeerChanges(c, how)
        PROVE  CInv'
    BY <1>3 DEF PeerChanges
  <1>4. CASE AddAlert
    <2>1. alerts' \in Seq(Nat) /\ raised' \in Nat
      BY <1>4, PushedIsSeq DEF AddAlert
    <2> QED
      BY <1>4, <2>1 DEF AddAlert
  <1>5. CASE Tick
    BY <1>5, AlertsReversed DEF Tick
  <1>6. CASE ReadLength
    <2> DEFINE k == Bound(Len(alerts))
    <2>1. bc.first \in Seq(Nat) /\ k \in Nat /\ <<>> \in Seq(Nat)
      BY BoundIsLeast
    <2>2. k <= Len(bc.first) => SubSeq(bc.first, 1, k) \in Seq(Nat)
      BY <2>1
    <2> HIDE DEF k
    <2>3. bc' = IF k > Len(bc.first)
                THEN [bc EXCEPT !.pc = "panicked"]
                ELSE [bc EXCEPT !.pc = "lock", !.first = <<>>, !.msg = SubSeq(bc.first, 1, k)]
      BY <1>6 DEF ReadLength, k
    <2>4. bc' \in [pc : {"tick", "length", "lock", "write", "panicked"}, at : Nat,
                   first : Seq(Nat), msg : Seq(Nat), todo : SUBSET Conns]
      <3>1. CASE k > Len(bc.first)
        BY <2>3, <3>1
      <3>2. CASE ~(k > Len(bc.first))
        <4>1. SubSeq(bc.first, 1, k) \in Seq(Nat)
          BY <2>1, <2>2, <3>2
        <4> QED
          BY <2>1, <2>3, <3>2, <4>1
      <3> QED
        BY <3>1, <3>2
    <2>5. bc'.pc # "write" /\ bc'.todo = bc.todo
      BY <2>3
    <2> QED
      BY <1>6, <2>4, <2>5 DEF ReadLength
  <1>7. CASE Lock
    BY <1>7 DEF Lock
  <1>7a. CASE Unlock
    <2>1. bc' \in [pc : {"tick", "length", "lock", "write", "panicked"}, at : Nat,
                   first : Seq(Nat), msg : Seq(Nat), todo : SUBSET Conns]
      <3>1. <<>> \in Seq(Nat) /\ {} \in SUBSET Conns
        OBVIOUS
      <3> QED
        BY <1>7a, <3>1 DEF Unlock, Waiting
    <2>2. bc'.pc = "tick" /\ bc'.todo = {}
      BY <1>7a DEF Unlock, Waiting
    <2> QED
      BY <1>7a, <2>1, <2>2 DEF Unlock
  <1>8. ASSUME NEW c \in Conns, WriteSucceeds(c)
        PROVE  CInv'
    BY <1>8 DEF WriteSucceeds
  <1>9. ASSUME NEW c \in Conns, WriteFails(c)
        PROVE  CInv'
    BY <1>9 DEF WriteFails
  <1>10. CASE UNCHANGED vars
    BY <1>10 DEF vars
  <1> QED
    BY <1>1, <1>2, <1>3, <1>4, <1>5, <1>6, <1>7, <1>7a, <1>8, <1>9, <1>10
       DEF Next

\* The types, and with them that the broadcaster only writes to connections
\* that are in the map and read, and only while it holds the lock.
THEOREM HubTypes == Spec => []TypeOK
  <1>1. CInv => TypeOK
    BY DEF CInv
  <1> QED
    BY <1>1, InitCInv, StepCInv, PTL DEF Spec

\* No connection leaks, whichever of reader and broadcaster gives it up first
\* (ServeWS, Broadcast).
THEOREM NoConnectionLeaks == Spec => []MapHasTheOpen
  <1>1. CInv => MapHasTheOpen
    BY DEF CInv
  <1> QED
    BY <1>1, InitCInv, StepCInv, PTL DEF Spec
-----------------------------------------------------------------------------
(* Alerts and snapshots.                                                   *)

LEMMA InitAInv == Init => AInv
  BY DEF Init, AInv, NewestSurvive, ReadingOK, ShowsNewest, PanicNeedsShortList, Waiting

LEMMA AddAlertAInv ==
    ASSUME CInv, AInv, AddAlert
    PROVE  AInv'
  <1> DEFINE n == raised + 1
  <1>1. /\ alerts \in Seq(Nat) /\ raised \in Nat /\ n \in Nat /\ n = raised + 1
        /\ Len(alerts) \in Nat /\ Len(alerts) <= MaxAlerts
        /\ DOMAIN alerts = 1 .. Len(alerts)
    BY DEF CInv, TypeOK, AInv, NewestSurvive
  <1>2. alerts' = Pushed(alerts, n, MaxAlerts) /\ raised' = n /\ bc' = bc
    BY DEF AddAlert
  <1> HIDE DEF n
  <1>2a. MaxAlerts \in Nat \ {0}
    OBVIOUS
  <1>2b. /\ Len(alerts) < MaxAlerts => Pushed(alerts, n, MaxAlerts) = Append(alerts, n)
         /\ Pushed(alerts, n, MaxAlerts) \in Seq(Nat)
    BY <1>1, <1>2a, PushedWithRoom, PushedIsSeq
  <1>2c. Len(alerts) = MaxAlerts =>
           /\ Len(Pushed(alerts, n, MaxAlerts)) = MaxAlerts
           /\ \A i \in 1 .. MaxAlerts : Pushed(alerts, n, MaxAlerts)[i]
                = IF i = MaxAlerts THEN n ELSE alerts[i + 1]
    <2> SUFFICES ASSUME Len(alerts) = MaxAlerts
                 PROVE  /\ Len(Pushed(alerts, n, MaxAlerts)) = MaxAlerts
                        /\ \A i \in 1 .. MaxAlerts : Pushed(alerts, n, MaxAlerts)[i]
                             = IF i = MaxAlerts THEN n ELSE alerts[i + 1]
      OBVIOUS
    <2> QED
      BY <1>1, <1>2a, PushedWhenFull
  <1>3. NewestSurvive' /\ Len(alerts') >= Len(alerts)
    <2>1. CASE Len(alerts) < MaxAlerts
      <3>1. alerts' = Append(alerts, n) /\ Len(alerts) = raised
        <4>1. raised = Len(alerts)
          BY <1>1, <2>1 DEF AInv, NewestSurvive
        <4> QED
          BY <1>2, <1>2b, <2>1, <4>1
      <3> QED
        <4>1. Len(alerts') = n /\ DOMAIN alerts' = 1 .. n
          BY <1>1, <3>1
        <4>2. \A i \in 1 .. n : alerts'[i] = i
          BY <1>1, <3>1 DEF AInv, NewestSurvive
        <4> QED
          BY <1>1, <1>2, <2>1, <3>1, <4>1, <4>2 DEF NewestSurvive
    <2>2. CASE Len(alerts) = MaxAlerts
      <3>1. /\ alerts' \in Seq(Nat) /\ Len(alerts') = MaxAlerts
            /\ \A i \in 1 .. MaxAlerts :
                 alerts'[i] = IF i = MaxAlerts THEN n ELSE alerts[i + 1]
        BY <1>2, <1>2b, <1>2c, <2>2
      <3>2. raised >= MaxAlerts
            /\ \A i \in 1 .. MaxAlerts : alerts[i] = raised - MaxAlerts + i
        BY <1>1, <2>2 DEF AInv, NewestSurvive
      <3> QED
        BY <1>1, <1>2, <2>2, <3>1, <3>2 DEF NewestSurvive
    <2>3. Len(alerts) < MaxAlerts \/ Len(alerts) = MaxAlerts
      <3>1. \A a, b \in Nat : a <= b => a < b \/ a = b
        OBVIOUS
      <3> QED
        BY <1>1, <1>2a, <3>1
    <2> QED
      BY <2>1, <2>2, <2>3
  <1>4. ReadingOK'
    BY <1>1, <1>2 DEF CInv, TypeOK, AInv, ReadingOK
  <1>5. ShowsNewest' /\ PanicNeedsShortList'
    BY <1>2 DEF AInv, ShowsNewest, PanicNeedsShortList
  <1> QED
    BY <1>3, <1>4, <1>5 DEF AInv

LEMMA TickAInv ==
    ASSUME CInv, AInv, Tick
    PROVE  AInv'
  <1>1. /\ alerts \in Seq(Nat) /\ raised \in Nat /\ Len(alerts) \in Nat
        /\ Len(alerts) = IF raised < MaxAlerts THEN raised ELSE MaxAlerts
        /\ \A i \in 1 .. Len(alerts) : alerts[i] = raised - Len(alerts) + i
    <2>1. alerts \in Seq(Nat) /\ raised \in Nat /\ DOMAIN alerts = 1 .. Len(alerts)
      BY DEF CInv, TypeOK
    <2> QED
      BY <2>1 DEF AInv, NewestSurvive
  <1>2. /\ bc'.first = Alerts /\ bc'.at = raised /\ bc'.pc = "length"
        /\ UNCHANGED <<alerts, raised>>
    BY DEF Tick, CInv, TypeOK
  <1>2a. Alerts \in Seq(Nat) /\ Len(Alerts) = Len(alerts)
    BY <1>1, AlertsReversed
  <1>2b. \A i \in 1 .. Len(alerts) : Alerts[i] = raised + 1 - i
    <2> TAKE i \in 1 .. Len(alerts)
    <2>1. Alerts[i] = alerts[Len(alerts) + 1 - i]
      BY <1>1, AlertsReversed
    <2> DEFINE j == Len(alerts) + 1 - i
    <2>2. j \in 1 .. Len(alerts) /\ j = Len(alerts) + 1 - i
      BY <1>1
    <2>3. raised - Len(alerts) + j = raised + 1 - i
      BY <1>1
    <2> HIDE DEF j
    <2>4. alerts[j] = raised - Len(alerts) + j
      BY <1>1, <2>2
    <2> QED
      BY <2>1, <2>2, <2>3, <2>4
  <1>3. ReadingOK'
    BY <1>1, <1>2, <1>2a, <1>2b DEF ReadingOK
  <1> QED
    BY <1>1, <1>2, <1>3 DEF AInv, NewestSurvive, ShowsNewest, PanicNeedsShortList

\* The second reading finds no fewer alerts than the first.  So a bound that does
\* not exceed the first result is what there was to show then.
LEMMA ReadLengthAInv ==
    ASSUME CInv, AInv, ReadLength
    PROVE  AInv'
  <1>1. PICK k, n, at : k = Bound(Len(alerts)) /\ n = Len(bc.first) /\ at = bc.at
    OBVIOUS
  <1>2. /\ bc.pc = "length" /\ bc.first \in Seq(Nat) /\ Len(alerts) \in Nat
        /\ n \in Nat /\ at \in Nat /\ raised \in Nat /\ at <= raised
        /\ n = IF at < MaxAlerts THEN at ELSE MaxAlerts
        /\ \A i \in 1 .. n : bc.first[i] = at + 1 - i
        /\ Len(alerts) = IF raised < MaxAlerts THEN raised ELSE MaxAlerts
    BY <1>1 DEF CInv, TypeOK, AInv, ReadingOK, NewestSurvive, ReadLength
  <1>3. /\ k \in Nat /\ k <= Shown /\ n <= Len(alerts)
        /\ k = IF Len(alerts) < Shown THEN Len(alerts) ELSE Shown
    BY <1>1, <1>2 DEF Bound
  <1>4. NewestSurvive' /\ ReadingOK'
    BY DEF CInv, TypeOK, AInv, ReadLength, NewestSurvive, ReadingOK
  <1>5. CASE k > n
    <2>1. bc'.pc = "panicked" /\ bc'.first = bc.first
      BY <1>1, <1>5 DEF ReadLength, CInv, TypeOK
    <2>2. n < Shown
      <3>1. n \in Nat /\ k \in Nat /\ Shown \in Nat /\ k <= Shown /\ k > n
        BY <1>2, <1>3, <1>5
      <3> QED
        BY <3>1
    <2>3. Len(bc'.first) = n
      BY <1>1, <2>1
    <2> QED
      BY <1>4, <2>1, <2>2, <2>3 DEF AInv, ShowsNewest, PanicNeedsShortList
  <1>6. CASE k <= n
    <2>1. bc'.msg = SubSeq(bc.first, 1, k) /\ bc'.pc = "lock" /\ bc'.at = at
      BY <1>1, <1>2, <1>3, <1>6 DEF ReadLength, CInv, TypeOK
    <2>2. Len(bc'.msg) = k /\ \A i \in 1 .. k : bc'.msg[i] = bc.first[i]
      BY <1>1, <1>2, <1>3, <1>6, <2>1
    <2>3. k \in {Shown, MaxAlerts, at} /\ k <= MaxAlerts /\ k <= at
      BY <1>2, <1>3, <1>6
    <2>4. \A i \in 1 .. k : bc'.msg[i] = at + 1 - i
      BY <1>2, <1>3, <1>6, <2>2
    <2> QED
      BY <1>3, <1>4, <2>1, <2>2, <2>3, <2>4 DEF AInv, ShowsNewest, PanicNeedsShortList
  <1> QED
    BY <1>2, <1>3, <1>5, <1>6

LEMMA StepAInv == CInv /\ AInv /\ [Next]_vars => AInv'
  <1> SUFFICES ASSUME CInv, AInv, [Next]_vars
               PROVE  AInv'
    OBVIOUS
  <1>1. CASE AddAlert \/ Tick \/ ReadLength
    BY <1>1, AddAlertAInv, TickAInv, ReadLengthAInv
  <1>2. ASSUME UNCHANGED <<alerts, raised>>,
               \/ UNCHANGED <<bc.pc, bc.at, bc.first, bc.msg>>
               \/ bc'.pc = "tick"
               \/ bc.pc = "lock" /\ bc'.pc = "write" /\ UNCHANGED <<bc.at, bc.msg>>
        PROVE  AInv'
    BY <1>2 DEF AInv, NewestSurvive, ReadingOK, ShowsNewest, PanicNeedsShortList
  <1>3. CASE Lock
    BY <1>2, <1>3 DEF Lock, CInv, TypeOK
  <1>3a. CASE Unlock
    BY <1>2, <1>3a DEF Unlock, Waiting
  <1>4. ASSUME NEW c \in Conns, WriteSucceeds(c) \/ WriteFails(c)
        PROVE  AInv'
    BY <1>2, <1>4 DEF WriteSucceeds, WriteFails, CInv, TypeOK
  <1>5. ASSUME NEW c \in Conns,
               \/ Accept(c) \/ Register(c) \/ ReadFails(c) \/ Unregister(c) \/ Close(c)
               \/ \E how \in {"ok", "stuck", "gone"} : PeerChanges(c, how)
        PROVE  AInv'
    BY <1>2, <1>5 DEF Accept, Register, ReadFails, Unregister, Close, PeerChanges
  <1>6. CASE UNCHANGED vars
    BY <1>2, <1>6 DEF vars
  <1> QED
    BY <1>1, <1>3, <1>3a, <1>4, <1>5, <1>6 DEF Next

LEMMA AInvHolds == Spec => []AInv
  BY InitCInv, StepCInv, InitAInv, StepAInv, PTL DEF Spec

\* The buffers keep the newest entries, however many are pushed.
THEOREM NewestKept == Spec => []NewestSurvive
  <1>1. AInv => NewestSurvive
    BY DEF AInv
  <1> QED
    BY <1>1, AInvHolds, PTL

\* Whatever is raised while a snapshot is made and waits for the lock, it shows
\* the newest alerts of its first reading, as many as there were and no others
\* (StartBroadcaster).
THEOREM SnapshotsShowNewest == Spec => []ShowsNewest
  <1>1. AInv => ShowsNewest
    BY DEF AInv
  <1> QED
    BY <1>1, AInvHolds, PTL

\* With as many alerts as a snapshot shows the broadcaster cannot panic.
THEOREM PanicsEarlyOnly == Spec => []PanicNeedsShortList
  <1>1. AInv => PanicNeedsShortList
    BY DEF AInv
  <1> QED
    BY <1>1, AInvHolds, PTL
==============================================================================
