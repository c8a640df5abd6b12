--------------------------- MODULE RefinementProofs ---------------------------
(* ConfigStoreSerial implements AtomicConfig, for all values of the          *)
(* constants.                                                                *)
EXTENDS ServerListProofs

Alone(h) == \A g \in Handlers \ {h} : ~Busy(g)

\* The document that AtomicConfig calls live.
LiveDoc == IF up THEN Contents(heap, Current) ELSE Default

\* The inductive invariant: one request at a time, which has the store's own
\* configuration until it has made its edit.
RInv ==
    /\ IInv
    /\ \A g, h \in Handlers : Busy(g) /\ Busy(h) => g = h
    /\ \A h \in Handlers : Busy(h) /\ req[h].pc # "save" => req[h].cfg = cfg
    /\ \A h \in Handlers :
         Busy(h) /\ req[h].pc = "put" =>
           heap[req[h].cfg.rules.arr][req[h].at].id = req[h].arg.id
-----------------------------------------------------------------------------
(* Which configuration is the current one.                                   *)

LEMMA CurrentSaving ==
    ASSUME NEW h \in Handlers, req[h].pc = "save", Alone(h)
    PROVE  Current = req[h].cfg
  <1>1. \A g \in Handlers : req[g].pc = "save" => g = h
    BY DEF Alone, Busy, Idle
  <1> QED
    BY <1>1 DEF Current

LEMMA CurrentSavingNext ==
    ASSUME NEW h \in Handlers, req'[h].pc = "save", Alone(h)'
    PROVE  Current' = req'[h].cfg
  <1>1. \A g \in Handlers : req'[g].pc = "save" => g = h
    BY DEF Alone, Busy, Idle
  <1> QED
    BY <1>1 DEF Current

LEMMA CurrentStored ==
    ASSUME \A h \in Handlers : Busy(h) => req[h].pc # "save"
    PROVE  Current = cfg
  BY DEF Current, Busy, Idle

LEMMA CurrentStoredNext ==
    ASSUME \A h \in Handlers : Busy(h)' => req'[h].pc # "save"
    PROVE  Current' = cfg'
  BY DEF Current, Busy, Idle
-----------------------------------------------------------------------------
(* The rules of a handler's copy.                                            *)

LEMMA RulesNow ==
    ASSUME IInv, NEW h \in Handlers, Busy(h), NEW s, s = req[h].cfg.rules
    PROVE  /\ Elements(heap, s) \in Seq(Rule) /\ Len(Elements(heap, s)) = s.len
           /\ DOMAIN Elements(heap, s) = 1 .. s.len
           /\ \A i \in 1 .. s.len : Elements(heap, s)[i] = heap[s.arr][i]
  <1>1. SliceOK(heap, s, Rule)
    BY BusyFacts DEF RequestOK, ConfigOK
  <1> QED
    BY <1>1, ElementsKind, LenProperties

LEMMA RulesNext ==
    ASSUME IInv', NEW h \in Handlers, Busy(h)', NEW s, s = req'[h].cfg.rules
    PROVE  /\ Elements(heap', s) \in Seq(Rule) /\ Len(Elements(heap', s)) = s.len
           /\ DOMAIN Elements(heap', s) = 1 .. s.len
           /\ \A i \in 1 .. s.len : Elements(heap', s)[i] = heap'[s.arr][i]
  <1>1. SliceOK(heap', s, Rule)
    BY DEF IInv, TypeOK, RequestOK, ConfigOK
  <1>2. PICK mem : mem = heap'
    OBVIOUS
  <1>3. /\ Elements(mem, s) \in Seq(Rule) /\ Len(Elements(mem, s)) = s.len
        /\ \A i \in 1 .. s.len : Elements(mem, s)[i] = mem[s.arr][i]
    BY <1>1, <1>2, ElementsKind
  <1> QED
    BY <1>2, <1>3, LenProperties

\* append in place: the new element is behind the ones that were there.
LEMMA AppendInPlaceList ==
    ASSUME IInv, NEW h \in Handlers, AppendRule(h), IInv', Busy(h)',
           NEW s, s = req[h].cfg.rules, s.len # Len(heap[s.arr])
    PROVE  /\ Elements(heap', req'[h].cfg.rules) = Append(Elements(heap, s), req[h].arg)
           /\ req'[h].cfg.setting = req[h].cfg.setting
           /\ req'[h].pc = "save"
  <1> DEFINE a == s.arr
             n == s.len
  <1>1. PICK r : r = req[h]
    OBVIOUS
  <1>2. /\ Busy(h) /\ DOMAIN req = Handlers /\ r \in Request /\ r.cfg \in Config
        /\ a \in Arrays /\ n \in Nat /\ heap[a] \in Seq(Slot) /\ Len(heap[a]) \in Nat
        /\ n <= Len(heap[a])
    BY <1>1, BusyFacts DEF AppendRule
  <1>3. r.arg \in Rule
    BY <1>1, <1>2, BusyFacts DEF RequestOK, Args, AppendRule
  <1>4. /\ heap' = [heap EXCEPT ![a] = [heap[a] EXCEPT ![n + 1] = r.arg]]
        /\ req'[h] = [r EXCEPT !.pc = "save", !.cfg.rules.len = n + 1]
    BY <1>1, <1>2 DEF AppendRule
  <1>5. /\ req'[h].cfg.rules = [arr |-> a, len |-> n + 1]
        /\ req'[h].cfg.setting = req[h].cfg.setting
        /\ req'[h].pc = "save"
    <2>1. PICK c : c = r.cfg
      OBVIOUS
    <2>2. c \in Config /\ c.rules = [arr |-> a, len |-> n]
      BY <1>1, <1>2, <2>1 DEF Config, Slice
    <2>3. req'[h].cfg = [c EXCEPT !.rules.len = n + 1] /\ req'[h].pc = "save"
      BY <1>2, <1>4, <2>1 DEF Request
    <2>4. /\ [c EXCEPT !.rules.len = n + 1].rules = [arr |-> a, len |-> n + 1]
          /\ [c EXCEPT !.rules.len = n + 1].setting = c.setting
      BY <2>2 DEF Config
    <2> QED
      BY <1>1, <2>1, <2>3, <2>4
  <1>6. n + 1 \in 1 .. Len(heap[a]) /\ r.arg \in Slot
    BY <1>2, <1>3 DEF Slot
  <1>7. \A j \in 1 .. Len(heap[a]) :
           [heap[a] EXCEPT ![n + 1] = r.arg][j] = IF j = n + 1 THEN r.arg ELSE heap[a][j]
    BY <1>2, <1>6, SlotWritten
  <1>8. heap'[a] = [heap[a] EXCEPT ![n + 1] = r.arg]
    BY <1>2, <1>4, InUseFacts DEF HeapOK
  <1>9. PICK t, old, new : /\ t = req'[h].cfg.rules
                           /\ old = Elements(heap, s) /\ new = Elements(heap', t)
    OBVIOUS
  <1>10. /\ old \in Seq(Rule) /\ Len(old) = n /\ \A i \in 1 .. n : old[i] = heap[a][i]
         /\ new \in Seq(Rule) /\ Len(new) = n + 1
         /\ \A i \in 1 .. n + 1 : new[i] = heap'[a][i]
    <2>1. old \in Seq(Rule) /\ Len(old) = n /\ \A i \in 1 .. n : old[i] = heap[a][i]
      BY <1>2, <1>9, RulesNow
    <2>2. t.arr = a /\ t.len = n + 1
      BY <1>5, <1>9
    <2>3. /\ Elements(heap', t) \in Seq(Rule) /\ Len(Elements(heap', t)) = t.len
          /\ \A i \in 1 .. t.len : Elements(heap', t)[i] = heap'[t.arr][i]
      BY <1>9, RulesNext
    <2> QED
      BY <1>9, <2>1, <2>2, <2>3
  <1>11. PICK more : more = Append(old, r.arg)
    OBVIOUS
  <1>12. /\ more \in Seq(Rule) /\ Len(more) = n + 1
         /\ \A i \in 1 .. n : more[i] = old[i]
         /\ more[n + 1] = r.arg
    BY <1>3, <1>10, <1>11, AppendProperties
  <1>13. \A i \in 1 .. n + 1 : new[i] = more[i]
    <2>1. \A i \in 1 .. n + 1 : i \in 1 .. n \/ i = n + 1
      BY <1>2
    <2>2. \A i \in 1 .. n : i \in 1 .. Len(heap[a]) /\ i # n + 1 /\ i \in 1 .. n + 1
      BY <1>2
    <2>3. PICK q : q = heap'[a]
      OBVIOUS
    <2>4. /\ \A i \in 1 .. n + 1 : new[i] = q[i]
          /\ \A i \in 1 .. Len(heap[a]) : q[i] = IF i = n + 1 THEN r.arg ELSE heap[a][i]
      BY <1>7, <1>8, <1>10, <2>3
    <2>5. ASSUME NEW i \in 1 .. n
          PROVE  new[i] = more[i]
      <3>1. new[i] = q[i] /\ q[i] = heap[a][i]
        BY <2>2, <2>4
      <3>2. heap[a][i] = old[i] /\ old[i] = more[i]
        BY <1>10, <1>12
      <3> QED
        BY <3>1, <3>2
    <2>6. new[n + 1] = more[n + 1]
      <3>1. new[n + 1] = q[n + 1]
        BY <1>2, <2>4
      <3>2. q[n + 1] = r.arg
        BY <1>6, <2>4
      <3> QED
        BY <1>12, <3>1, <3>2
    <2> QED
      BY <2>1, <2>5, <2>6
  <1>14. new = more
    <2>1. Len(new) = Len(more) /\ \A i \in 1 .. Len(new) : new[i] = more[i]
      BY <1>10, <1>12, <1>13
    <2> QED
      BY <1>10, <1>12, <2>1, SeqEqual
  <1> QED
    BY <1>1, <1>5, <1>9, <1>11, <1>14

\* append into a new array: the same list, if nobody shifts what it copies.
LEMMA AppendGrownList ==
    ASSUME IInv, NEW h \in Handlers, AppendRule(h), IInv', Busy(h)',
           \A g \in Handlers : req[g].pc # "shift",
           NEW s, s = req[h].cfg.rules, s.len = Len(heap[s.arr])
    PROVE  /\ Elements(heap', req'[h].cfg.rules) = Append(Elements(heap, s), req[h].arg)
           /\ req'[h].cfg.setting = req[h].cfg.setting
           /\ req'[h].pc = "save"
  <1>1. PICK r, n, old : r = req[h] /\ n = s.len /\ old = Elements(heap, s)
    OBVIOUS
  <1>2. /\ Busy(h) /\ DOMAIN req = Handlers /\ r \in Request /\ r.cfg \in Config
        /\ n \in Nat
    BY <1>1, BusyFacts DEF AppendRule
  <1>3. r.arg \in Rule /\ Free # {} /\ Fresh \in Arrays
    BY <1>1, <1>2, BusyFacts, FreshIsFree DEF RequestOK, Args, AppendRule
  <1>4. /\ req'[h] = [r EXCEPT !.pc = "save", !.cfg.rules = [arr |-> Fresh, len |-> n + 1]]
        /\ \E c \in Capacities : \E list \in Readings(heap, s) :
             /\ IsCapacityFor(c, n + 1)
             /\ heap' = [heap EXCEPT ![Fresh] = ArrayOf(Append(list, r.arg), c)]
    BY <1>1, <1>2 DEF AppendRule
  <1>5. PICK more : more = Append(old, r.arg)
    OBVIOUS
  <1>6. PICK c \in Capacities :
           IsCapacityFor(c, n + 1) /\ heap' = [heap EXCEPT ![Fresh] = ArrayOf(more, c)]
    BY <1>1, <1>4, <1>5, QuietReading
  <1>7. /\ req'[h].cfg.rules = [arr |-> Fresh, len |-> n + 1]
        /\ req'[h].cfg.setting = req[h].cfg.setting
        /\ req'[h].pc = "save"
    BY <1>1, <1>2, <1>4 DEF Request, Config
  <1>8. old \in Seq(Rule) /\ Len(old) = n
    BY <1>1, <1>2, RulesNow
  <1>9. more \in Seq(Rule) /\ Len(more) = n + 1
    BY <1>3, <1>5, <1>8, AppendProperties
  <1>10. more \in Seq(Slot) /\ c \in Nat /\ n + 1 <= c /\ Blank \in Slot
    BY <1>6, <1>9, SeqMonotonic, ConstantsAssumption DEF IsCapacityFor, Slot
  <1>11. \A j \in 1 .. n + 1 : ArrayOf(more, c)[j] = more[j]
    BY <1>9, <1>10, ArrayMade
  <1>12. heap'[Fresh] = ArrayOf(more, c)
    BY <1>3, <1>6, InUseFacts DEF HeapOK
  <1>13. PICK t, new : t = req'[h].cfg.rules /\ new = Elements(heap', t)
    OBVIOUS
  <1>14. /\ new \in Seq(Rule) /\ Len(new) = n + 1
         /\ \A i \in 1 .. n + 1 : new[i] = heap'[Fresh][i]
    <2>1. t.arr = Fresh /\ t.len = n + 1
      BY <1>7, <1>13
    <2>2. /\ Elements(heap', t) \in Seq(Rule) /\ Len(Elements(heap', t)) = t.len
          /\ \A i \in 1 .. t.len : Elements(heap', t)[i] = heap'[t.arr][i]
      BY <1>13, RulesNext
    <2> QED
      BY <1>13, <2>1, <2>2
  <1>15. new = more
    <2>1. Len(new) = Len(more) /\ \A i \in 1 .. Len(new) : new[i] = more[i]
      BY <1>9, <1>11, <1>12, <1>14
    <2> QED
      BY <1>9, <1>14, <2>1, SeqEqual
  <1> QED
    BY <1>1, <1>5, <1>7, <1>13, <1>15

\* The assignment of a PUT.
LEMMA PutRuleList ==
    ASSUME IInv, NEW h \in Handlers, PutRule(h), IInv', Busy(h)',
           NEW s, s = req[h].cfg.rules
    PROVE  /\ req[h].at \in DOMAIN Elements(heap, s) /\ req[h].arg \in Rule
           /\ Elements(heap', req'[h].cfg.rules) =
                [Elements(heap, s) EXCEPT ![req[h].at] = req[h].arg]
           /\ req'[h].cfg = req[h].cfg
           /\ req'[h].pc = "save"
  <1>1. PICK r, n, a, i, old : /\ r = req[h] /\ n = s.len /\ a = s.arr /\ i = r.at
                               /\ old = Elements(heap, s)
    OBVIOUS
  <1>2. /\ Busy(h) /\ DOMAIN req = Handlers /\ r \in Request
        /\ a \in Arrays /\ n \in Nat /\ heap[a] \in Seq(Slot) /\ Len(heap[a]) \in Nat
        /\ n <= Len(heap[a])
    BY <1>1, BusyFacts DEF PutRule
  <1>3. i \in 1 .. n /\ r.arg \in Rule
    BY <1>1, <1>2, BusyFacts DEF RequestOK, Args, PutRule
  <1>4. /\ heap' = [heap EXCEPT ![a] = [heap[a] EXCEPT ![i] = r.arg]]
        /\ req'[h] = [r EXCEPT !.pc = "save", !.at = 0]
    BY <1>1, <1>2 DEF PutRule
  <1>5. req'[h].cfg = r.cfg /\ req'[h].pc = "save"
    BY <1>2, <1>4 DEF Request
  <1>6. \A j \in 1 .. n : heap'[a][j] = IF j = i THEN r.arg ELSE heap[a][j]
    <2>1. i \in 1 .. Len(heap[a]) /\ r.arg \in Slot
      BY <1>2, <1>3 DEF Slot
    <2>2. \A j \in 1 .. Len(heap[a]) :
             [heap[a] EXCEPT ![i] = r.arg][j] = IF j = i THEN r.arg ELSE heap[a][j]
      BY <1>2, <2>1, SlotWritten
    <2>3. heap'[a] = [heap[a] EXCEPT ![i] = r.arg]
      BY <1>2, <1>4, InUseFacts DEF HeapOK
    <2>4. \A j \in 1 .. n : j \in 1 .. Len(heap[a])
      BY <1>2
    <2> QED
      BY <2>2, <2>3, <2>4
  <1>7. /\ old \in Seq(Rule) /\ Len(old) = n /\ DOMAIN old = 1 .. n
        /\ \A j \in 1 .. n : old[j] = heap[a][j]
    BY <1>1, <1>2, RulesNow
  <1>8. PICK new : new = Elements(heap', s)
    OBVIOUS
  <1>9. /\ new \in Seq(Rule) /\ Len(new) = n
        /\ \A j \in 1 .. n : new[j] = heap'[a][j]
    <2>1. s = req'[h].cfg.rules
      BY <1>1, <1>5
    <2>2. /\ Elements(heap', s) \in Seq(Rule) /\ Len(Elements(heap', s)) = s.len
          /\ \A j \in 1 .. s.len : Elements(heap', s)[j] = heap'[s.arr][j]
      BY <2>1, RulesNext
    <2> QED
      BY <1>1, <1>8, <2>2
  <1>10. PICK put : put = [old EXCEPT ![i] = r.arg]
    OBVIOUS
  <1>11. /\ put \in Seq(Rule) /\ Len(put) = n
         /\ \A j \in 1 .. n : put[j] = IF j = i THEN r.arg ELSE old[j]
    BY <1>3, <1>7, <1>10, ExceptSeq
  <1>12. new = put
    <2>1. Len(new) = Len(put) /\ \A j \in 1 .. Len(new) : new[j] = put[j]
      BY <1>6, <1>7, <1>9, <1>11
    <2> QED
      BY <1>9, <1>11, <2>1, SeqEqual
  <1> QED
    BY <1>1, <1>3, <1>5, <1>7, <1>8, <1>10, <1>12

\* The memmove of a DELETE and the cut.
LEMMA ShiftRulesList ==
    ASSUME IInv, NEW h \in Handlers, ShiftRules(h), IInv', Busy(h)',
           NEW s, s = req[h].cfg.rules
    PROVE  /\ req[h].at \in DOMAIN Elements(heap, s)
           /\ Elements(heap', req'[h].cfg.rules) = WithoutAt(Elements(heap, s), req[h].at)
           /\ req'[h].cfg.setting = req[h].cfg.setting
           /\ req'[h].pc = "save"
  <1>1. PICK r, n, a, i, old : /\ r = req[h] /\ n = s.len /\ a = s.arr /\ i = r.at
                               /\ old = Elements(heap, s)
    OBVIOUS
  <1>2. /\ Busy(h) /\ DOMAIN req = Handlers /\ r \in Request /\ r.cfg \in Config
        /\ a \in Arrays /\ n \in Nat /\ heap[a] \in Seq(Slot) /\ Len(heap[a]) \in Nat
        /\ n <= Len(heap[a])
    BY <1>1, BusyFacts DEF ShiftRules
  <1>3. i \in 1 .. n
    BY <1>1, <1>2, BusyFacts DEF RequestOK, ShiftRules
  <1>4. PICK m \in Nat : m = n - 1
    BY <1>2, <1>3
  <1>5. /\ heap' = [heap EXCEPT ![a] = ShiftedArray(heap[a], i, n)]
        /\ req'[h] = [r EXCEPT !.pc = "save", !.at = 0, !.cfg.rules.len = m]
    BY <1>1, <1>2, <1>4 DEF ShiftRules
  <1>6. /\ req'[h].cfg.rules = [arr |-> a, len |-> m]
        /\ req'[h].cfg.setting = r.cfg.setting
        /\ req'[h].pc = "save"
    <2>1. PICK c : c = r.cfg
      OBVIOUS
    <2>2. c \in Config /\ c.rules = [arr |-> a, len |-> n]
      BY <1>1, <1>2, <2>1 DEF Config, Slice
    <2>3. req'[h].cfg = [c EXCEPT !.rules.len = m] /\ req'[h].pc = "save"
      BY <1>2, <1>5, <2>1 DEF Request
    <2>4. /\ [c EXCEPT !.rules.len = m].rules = [arr |-> a, len |-> m]
          /\ [c EXCEPT !.rules.len = m].setting = c.setting
      BY <2>2 DEF Config
    <2> QED
      BY <2>1, <2>3, <2>4
  <1>7. \A j \in 1 .. m : heap'[a][j] = heap[a][IF j < i THEN j ELSE j + 1]
    <2>0. i \in Nat /\ 1 <= i
      BY <1>2, <1>3
    <2>1. \A j \in 1 .. Len(heap[a]) : ShiftedArray(heap[a], i, n)[j] =
             IF i <= j /\ j < n THEN heap[a][j + 1] ELSE heap[a][j]
      BY <1>2, <2>0, ArrayShifted
    <2>2. heap'[a] = ShiftedArray(heap[a], i, n)
      BY <1>2, <1>5, InUseFacts DEF HeapOK
    <2>3. \A j \in 1 .. m : j \in 1 .. Len(heap[a]) /\ j < n /\ (i <= j <=> ~(j < i))
      BY <1>2, <1>3, <1>4
    <2> QED
      BY <2>1, <2>2, <2>3
  <1>8. /\ old \in Seq(Rule) /\ Len(old) = n /\ DOMAIN old = 1 .. n
        /\ \A j \in 1 .. n : old[j] = heap[a][j]
    BY <1>1, <1>2, RulesNow
  <1>9. PICK t, new : t = req'[h].cfg.rules /\ new = Elements(heap', t)
    OBVIOUS
  <1>10. new = [j \in 1 .. m |-> heap'[a][j]]
    BY <1>6, <1>9 DEF Elements
  <1>11. new = WithoutAt(old, i)
    <2>1. \A j \in 1 .. m : (IF j < i THEN j ELSE j + 1) \in 1 .. n
      BY <1>2, <1>3, <1>4
    <2>2. \A j \in 1 .. m : heap'[a][j] = old[IF j < i THEN j ELSE j + 1]
      BY <1>7, <1>8, <2>1
    <2>3. new = [j \in 1 .. m |-> old[IF j < i THEN j ELSE j + 1]]
      BY <1>10, <2>2
    <2> QED
      BY <1>4, <1>8, <2>3 DEF WithoutAt
  <1> QED
    BY <1>1, <1>3, <1>6, <1>8, <1>9, <1>11

-----------------------------------------------------------------------------
(* Start, end and store calls as steps of AtomicConfig.                      *)

LEMMA InitAtomic ==
    ASSUME Init
    PROVE  RInv /\ Atomic!Init
  <1>1. IInv /\ \A h \in Handlers : ~Busy(h)
    BY InitIInv DEF Init, Busy
  <1>2. up = FALSE /\ disk \in Backups \cup {NoFile}
    BY DEF Init
  <1>3. Atomic!Init
    BY <1>2 DEF Atomic!Init
  <1> QED
    BY <1>1, <1>3 DEF RInv

LEMMA StartAtomic ==
    ASSUME RInv, NewDefault \/ NewFromFile
    PROVE  RInv' /\ Atomic!Next
  <1>1. IInv' /\ disk' = Contents(heap', cfg')
    BY NewDefaultIInv, NewFromFileIInv DEF RInv
  <1>2. up = FALSE /\ up' = TRUE
    BY DEF RInv, IInv, TypeOK, NewDefault, NewFromFile
  <1>3. \A h \in Handlers : ~Busy(h)'
    BY DEF RInv, IInv, NewDefault, NewFromFile, Busy
  <1>4. Current' = cfg'
    BY <1>3, CurrentStoredNext
  <1>5. LiveDoc' = disk'
    BY <1>1, <1>2, <1>4 DEF LiveDoc
  <1>6. disk' = IF disk = NoFile THEN Default ELSE disk
    BY DEF NewDefault, NewFromFile
  <1>7. Atomic!Start
    BY <1>2, <1>5, <1>6 DEF Atomic!Start, LiveDoc
  <1> QED
    BY <1>1, <1>3, <1>7 DEF RInv, Atomic!Next

LEMMA CrashAtomic ==
    ASSUME RInv, Crash
    PROVE  RInv' /\ Atomic!Next
  <1>1. IInv'
    BY CrashIInv DEF RInv
  <1>2. \A h \in Handlers : ~Busy(h)'
    BY DEF Crash, Busy
  <1>3. up /\ up' = FALSE /\ disk' = disk
    BY DEF Crash
  <1>4. Atomic!Stop
    BY <1>3 DEF Atomic!Stop
  <1> QED
    BY <1>1, <1>2, <1>4 DEF RInv, Atomic!Next

\* A write while no memmove is in progress leaves the old file or the memory.
LEMMA QuietPersist ==
    ASSUME NEW mem, NEW c, persist(mem, c), \A h \in Handlers : req[h].pc # "shift"
    PROVE  disk' = disk \/ disk' = Contents(mem, c)
  <1>1. CASE disk' \in Marshalled(mem, c)
    <2>1. PICK r \in Readings(mem, c.rules) :
             disk' = [servers |-> Elements(mem, c.servers), rules |-> r,
                      setting |-> c.setting]
      BY <1>1 DEF Marshalled
    <2>2. r = Elements(mem, c.rules)
      BY QuietReading
    <2> QED
      BY <2>1, <2>2 DEF Contents
  <1> QED
    BY <1>1 DEF persist

\* What the store calls have in common.
LEMMA StoreCallMoves ==
    ASSUME RInv, AllIdle, up, IInv', UNCHANGED <<up, req>>, persist(heap', cfg')
    PROVE  /\ RInv'
           /\ LiveDoc = Contents(heap, cfg)
           /\ LiveDoc' = Contents(heap', cfg')
           /\ disk' \in {disk, LiveDoc'}
  <1>1. \A h \in Handlers : ~Busy(h) /\ ~Busy(h)' /\ req[h].pc # "shift"
    BY DEF AllIdle, Busy, Idle
  <1>2. Current = cfg /\ Current' = cfg'
    BY <1>1, CurrentStored, CurrentStoredNext
  <1>3. disk' = disk \/ disk' = Contents(heap', cfg')
    BY <1>1, QuietPersist
  <1> QED
    BY <1>1, <1>2, <1>3 DEF RInv, LiveDoc

\* The document after a call that changes the list of servers only.
LEMMA ServersOfDocument ==
    ASSUME RestStays
    PROVE  Contents(heap', cfg') = [Contents(heap, cfg) EXCEPT !.servers = ServerList']
  BY DEF RestStays, Contents, ServerList

LEMMA StoreCallAtomic ==
    ASSUME RInv, AllIdle, StoreCall
    PROVE  RInv' /\ Atomic!Next
  <1>2. ASSUME NEW srv \in Server, AddServer(srv)
        PROVE  RInv' /\ Atomic!Next
    <2>1. /\ IInv' /\ up /\ UNCHANGED <<up, req>> /\ persist(heap', cfg')
      BY <1>2, AddInPlaceIInv, AddGrownIInv DEF RInv, AddServer, AppendServer
    <2>2. /\ RInv' /\ disk' \in {disk, LiveDoc'}
          /\ LiveDoc = Contents(heap, cfg) /\ LiveDoc' = Contents(heap', cfg')
      BY <2>1, StoreCallMoves
    <2>3. /\ srv.id \notin Ids(ServerList) /\ ServerList' = Append(ServerList, srv)
          /\ RestStays
      BY <1>2, AddServerList DEF RInv
    <2>4. LiveDoc.servers = ServerList
      BY <2>2 DEF Contents, ServerList
    <2>5. LiveDoc' = [LiveDoc EXCEPT !.servers = Append(@, srv)]
      BY <2>2, <2>3, <2>4, ServersOfDocument
    <2>6. Atomic!AddServer(srv)
      BY <2>1, <2>2, <2>3, <2>4, <2>5
      DEF Atomic!AddServer, Atomic!Change, Atomic!IdsOf, Ids, LiveDoc
    <2> QED
      BY <2>2, <2>6 DEF Atomic!Next
  <1>3. ASSUME NEW srv \in Server, UpdateServer(srv)
        PROVE  RInv' /\ Atomic!Next
    <2>1. /\ IInv' /\ up /\ UNCHANGED <<up, req>> /\ persist(heap', cfg')
      BY <1>3, UpdateServerIInv DEF RInv, UpdateServer
    <2>2. /\ RInv' /\ disk' \in {disk, LiveDoc'}
          /\ LiveDoc = Contents(heap, cfg) /\ LiveDoc' = Contents(heap', cfg')
      BY <2>1, StoreCallMoves
    <2>3. RestStays /\ \E i \in DOMAIN ServerList :
                          /\ ServerList[i].id = srv.id
                          /\ ServerList' = [ServerList EXCEPT ![i] = srv]
      BY <1>3, UpdateServerList DEF RInv
    <2>4. LiveDoc.servers = ServerList
      BY <2>2 DEF Contents, ServerList
    <2>5. PICK i \in DOMAIN ServerList :
             ServerList[i].id = srv.id /\ ServerList' = [ServerList EXCEPT ![i] = srv]
      BY <2>3
    <2>6. LiveDoc' = [LiveDoc EXCEPT !.servers[i] = srv]
      BY <2>2, <2>3, <2>4, <2>5, ServersOfDocument
    <2>7. Atomic!UpdateServer(srv)
      BY <2>1, <2>2, <2>4, <2>5, <2>6 DEF Atomic!UpdateServer, Atomic!Change, LiveDoc
    <2> QED
      BY <2>2, <2>7 DEF Atomic!Next
  <1>4. ASSUME NEW id \in ServerIds, DeleteServer(id)
        PROVE  RInv' /\ Atomic!Next
    <2>1. /\ IInv' /\ up /\ UNCHANGED <<up, req>> /\ persist(heap', cfg')
      BY <1>4, DeleteServerIInv DEF RInv, DeleteServer
    <2>2. /\ RInv' /\ disk' \in {disk, LiveDoc'}
          /\ LiveDoc = Contents(heap, cfg) /\ LiveDoc' = Contents(heap', cfg')
      BY <2>1, StoreCallMoves
    <2>3. RestStays /\ \E i \in DOMAIN ServerList : ServerList' = WithoutAt(ServerList, i)
      BY <1>4, DeleteServerList DEF RInv
    <2>4. LiveDoc.servers = ServerList
      BY <2>2 DEF Contents, ServerList
    <2>5. PICK i \in DOMAIN ServerList : ServerList' = WithoutAt(ServerList, i)
      BY <2>3
    <2>6. WithoutAt(ServerList, i) = Atomic!Without(ServerList, i)
      BY DEF WithoutAt, Atomic!Without
    <2>7. LiveDoc' = [LiveDoc EXCEPT !.servers = Atomic!Without(@, i)]
      BY <2>2, <2>3, <2>4, <2>5, <2>6, ServersOfDocument
    <2>8. Atomic!DeleteServer(i) /\ i \in DOMAIN LiveDoc.servers
      BY <2>1, <2>2, <2>4, <2>7 DEF Atomic!DeleteServer, Atomic!Change, LiveDoc
    <2> QED
      BY <2>2, <2>8 DEF Atomic!Next, LiveDoc
  <1>5. ASSUME NEW doc \in Backups, Import(doc)
        PROVE  RInv' /\ Atomic!Next
    <2>1. /\ IInv' /\ up /\ UNCHANGED <<up, req>> /\ persist(heap', cfg')
      BY <1>5, ImportIInv DEF RInv, Import
    <2>2. /\ RInv' /\ disk' \in {disk, LiveDoc'} /\ LiveDoc' = Contents(heap', cfg')
      BY <2>1, StoreCallMoves
    <2>3. LiveDoc' = doc
      BY <1>5, <2>2, ImportDocument DEF RInv
    <2>4. Atomic!Restore(doc)
      BY <2>1, <2>2, <2>3 DEF Atomic!Restore, Atomic!Change, LiveDoc
    <2> QED
      BY <2>2, <2>4 DEF Atomic!Next
  <1> QED
    BY <1>2, <1>3, <1>4, <1>5 DEF StoreCall

-----------------------------------------------------------------------------
(* The steps of the one request in progress.                                 *)

\* Who moves, and who does not.
LEMMA OneMoves ==
    ASSUME RInv, NEW h \in Handlers, Alone(h), HandlerStep(h)
    PROVE  /\ IInv /\ IInv' /\ up /\ up' = up
           /\ \A g \in Handlers \ {h} : req'[g] = req[g]
           /\ Alone(h)'
           /\ \A g \in Handlers : req[g].pc = "shift" => g = h
  <1>1. IInv /\ IInv'
    BY HandlerStepIInv DEF RInv
  <1>2. DOMAIN req = Handlers
    BY <1>1 DEF IInv, TypeOK
  <1>3. up /\ up' = up
    BY <1>1 DEF IInv, HandlerStep, Begin, BadRequest, EditSetting, AppendRule,
                PutRule, FindRule, ShiftRules, RuleNotFound, SaveConfig
  <1>4. \A g \in Handlers \ {h} : req'[g] = req[g]
    BY <1>2 DEF HandlerStep, Begin, BadRequest, EditSetting, AppendRule,
                PutRule, FindRule, ShiftRules, RuleNotFound, SaveConfig
  <1>5. Alone(h)'
    BY <1>4 DEF Alone, Busy
  <1>6. \A g \in Handlers : req[g].pc = "shift" => g = h
    BY DEF Alone, Busy, Idle
  <1> QED
    BY <1>1, <1>3, <1>4, <1>5, <1>6

\* A step after which no edit has been made yet, or is not made any more.
LEMMA NoEdit ==
    ASSUME RInv, NEW h \in Handlers, Alone(h), HandlerStep(h),
           Busy(h) => req[h].pc # "save",
           UNCHANGED <<heap, cfg, disk>>,
           \/ ~Busy(h)'
           \/ /\ req'[h].pc \in {"decode", "put", "shift"} /\ req'[h].cfg = cfg
              /\ req'[h].pc = "put" =>
                   heap[cfg.rules.arr][req'[h].at].id = req'[h].arg.id
    PROVE  RInv' /\ UNCHANGED <<up, LiveDoc, disk>>
  <1>1. IInv' /\ up' = up /\ Alone(h)'
    BY OneMoves
  <1>2. \A g \in Handlers : Busy(g) => req[g].pc # "save"
    BY DEF Alone
  <1>3. \A g \in Handlers : Busy(g)' => req'[g].pc # "save"
    BY <1>1 DEF Alone
  <1>4. Current = cfg /\ Current' = cfg'
    BY <1>2, <1>3, CurrentStored, CurrentStoredNext
  <1>5. RInv'
    BY <1>1 DEF Alone, RInv
  <1> QED
    BY <1>1, <1>4, <1>5 DEF LiveDoc

\* A step that makes the edit: the handler's copy becomes the current document.
LEMMA EditMade ==
    ASSUME RInv, NEW h \in Handlers, Alone(h), HandlerStep(h), ~SaveConfig(h),
           Busy(h), req[h].pc # "save", req'[h].pc = "save", disk' = disk
    PROVE  /\ RInv' /\ up /\ up' = up
           /\ req[h].cfg = cfg /\ LiveDoc = Contents(heap, cfg)
           /\ LiveDoc' = [servers |-> LiveDoc.servers,
                          rules   |-> Elements(heap', req'[h].cfg.rules),
                          setting |-> req'[h].cfg.setting]
  <1>1. IInv /\ IInv' /\ up /\ up' = up /\ Alone(h)'
    BY OneMoves
  <1>2. Busy(h)'
    BY DEF Busy, Idle
  <1>3. req[h].cfg = cfg
    BY DEF RInv
  <1>4. Current = cfg
    <2>1. \A g \in Handlers : Busy(g) => req[g].pc # "save"
      BY DEF Alone
    <2> QED
      BY <2>1, CurrentStored
  <1>5. Current' = req'[h].cfg
    BY <1>1, CurrentSavingNext
  <1>6. Elements(heap', req'[h].cfg.servers) = ServerList
    <2>1. ServerList' = ServerList /\ cfg' = cfg
      BY <1>1, HandlerLeavesServers
    <2>2. req'[h].cfg.servers = cfg.servers
      BY <1>1, <1>2, <1>3, CopyKeepsServers
    <2> QED
      BY <2>1, <2>2 DEF ServerList
  <1>7. LiveDoc = Contents(heap, cfg) /\ LiveDoc.servers = ServerList
    BY <1>1, <1>4 DEF LiveDoc, Contents, ServerList
  <1>8. LiveDoc' = Contents(heap', req'[h].cfg)
    BY <1>1, <1>5 DEF LiveDoc
  <1>9. RInv'
    BY <1>1 DEF Alone, RInv
  <1> QED
    BY <1>1, <1>3, <1>6, <1>7, <1>8, <1>9 DEF Contents

LEMMA UneventfulStep ==
    ASSUME RInv, NEW h \in Handlers, Alone(h),
           Begin(h) \/ BadRequest(h) \/ RuleNotFound(h) \/ FindRule(h)
    PROVE  RInv' /\ UNCHANGED <<up, LiveDoc, disk>>
  <1>1. HandlerStep(h) /\ DOMAIN req = Handlers /\ UNCHANGED <<heap, cfg, disk>>
    BY DEF RInv, IInv, TypeOK, HandlerStep, Begin, BadRequest, RuleNotFound, FindRule
  <1>2. Busy(h) => req[h].pc = "decode"
    BY DEF Begin, BadRequest, RuleNotFound, FindRule
  <1>3. CASE Begin(h)
    <2>1. req'[h].pc = "decode" /\ req'[h].cfg = cfg
      BY <1>1, <1>3 DEF Begin
    <2> QED
      BY <1>1, <1>2, <2>1, NoEdit
  <1>4. CASE BadRequest(h) \/ RuleNotFound(h)
    <2>1. ~Busy(h)'
      BY <1>1, <1>4 DEF BadRequest, RuleNotFound, Busy
    <2> QED
      BY <1>1, <1>2, <2>1, NoEdit
  <1>5. CASE FindRule(h)
    <2>1. PICK r, s : r = req[h] /\ s = r.cfg.rules
      OBVIOUS
    <2>2. /\ Busy(h) /\ r \in Request /\ r.cfg = cfg /\ r.pc = "decode"
      BY <1>5, <2>1, BusyFacts DEF RInv, FindRule
    <2>3. PICK list \in Readings(heap, s), i \in 1 .. s.len :
             /\ FoundAt(list, IF r.op = "putRule" THEN r.arg.id ELSE r.arg, i)
             /\ req' = [req EXCEPT ![h].pc = IF req[h].op = "putRule"
                                               THEN "put" ELSE "shift",
                                   ![h].at = i]
      BY <1>5, <2>1 DEF FindRule
    <2>4. req'[h] = [r EXCEPT !.pc = IF r.op = "putRule" THEN "put" ELSE "shift",
                              !.at = i]
      BY <1>1, <2>1, <2>3
    <2>5. /\ req'[h].pc = IF r.op = "putRule" THEN "put" ELSE "shift"
          /\ req'[h].cfg = cfg /\ req'[h].at = i /\ req'[h].arg = r.arg
      BY <2>2, <2>4 DEF Request
    <2>6. \A g \in Handlers : req[g].pc # "shift"
      BY <1>1, <2>1, <2>2, OneMoves
    <2>7. list = Elements(heap, s)
      BY <2>6, QuietReading
    <2>8. req'[h].pc = "put" => heap[cfg.rules.arr][req'[h].at].id = req'[h].arg.id
      <3> SUFFICES ASSUME req'[h].pc = "put"
                   PROVE  heap[cfg.rules.arr][i].id = r.arg.id
        BY <2>5
      <3>1. r.op = "putRule"
        BY <2>5
      <3>2. list[i].id = r.arg.id
        BY <2>3, <3>1 DEF FoundAt
      <3>3. list[i] = heap[cfg.rules.arr][i]
        BY <2>1, <2>2, <2>3, <2>7 DEF Elements
      <3> QED
        BY <3>2, <3>3
    <2> QED
      BY <1>1, <1>2, <2>5, <2>8, NoEdit
  <1> QED
    BY <1>3, <1>4, <1>5

LEMMA EditSettingAtomic ==
    ASSUME RInv, NEW h \in Handlers, Alone(h), EditSetting(h)
    PROVE  RInv' /\ Atomic!Next
  <1>1. PICK r : r = req[h]
    OBVIOUS
  <1>2. /\ Busy(h) /\ DOMAIN req = Handlers /\ r \in Request /\ r.cfg \in Config
        /\ r.arg \in Settings /\ heap' = heap /\ disk' = disk
    BY <1>1, BusyFacts DEF RInv, EditSetting, RequestOK, Args
  <1>3. /\ HandlerStep(h) /\ ~SaveConfig(h) /\ req[h].pc # "save"
    BY DEF HandlerStep, EditSetting, SaveConfig
  <1>4. req'[h] = [r EXCEPT !.pc = "save", !.cfg.setting = r.arg]
    BY <1>1, <1>2 DEF EditSetting
  <1>5. /\ req'[h].pc = "save" /\ req'[h].cfg.rules = r.cfg.rules
        /\ req'[h].cfg.setting = r.arg
    BY <1>2, <1>4 DEF Request, Config
  <1>6. /\ RInv' /\ up /\ up' = up /\ r.cfg = cfg /\ LiveDoc = Contents(heap, cfg)
        /\ LiveDoc' = [servers |-> LiveDoc.servers, rules |-> Elements(heap', req'[h].cfg.rules),
                       setting |-> req'[h].cfg.setting]
    BY <1>1, <1>2, <1>3, <1>5, EditMade
  <1>7. LiveDoc' = [LiveDoc EXCEPT !.setting = r.arg]
    BY <1>2, <1>5, <1>6 DEF Contents
  <1>8. Atomic!Set(r.arg)
    BY <1>2, <1>6, <1>7 DEF Atomic!Set, Atomic!Change, LiveDoc
  <1> QED
    BY <1>2, <1>6, <1>8 DEF Atomic!Next

LEMMA AppendRuleAtomic ==
    ASSUME RInv, NEW h \in Handlers, Alone(h), AppendRule(h)
    PROVE  RInv' /\ Atomic!Next
  <1>1. PICK r, s, old : r = req[h] /\ s = req[h].cfg.rules /\ old = Elements(heap, s)
    OBVIOUS
  <1>2. /\ Busy(h) /\ req[h].pc = "decode" /\ r.arg \in Rule /\ disk' = disk
    BY <1>1, BusyFacts DEF RInv, AppendRule, RequestOK, Args
  <1>3. HandlerStep(h) /\ ~SaveConfig(h) /\ req[h].pc # "save"
    BY <1>2 DEF HandlerStep, SaveConfig
  <1>4. IInv /\ IInv' /\ \A g \in Handlers : req[g].pc # "shift"
    BY <1>2, <1>3, OneMoves
  <1>5. req'[h].pc = "save"
    <2>1. req[h] \in Request /\ DOMAIN req = Handlers
      BY <1>2, <1>4, BusyFacts
    <2> QED
      BY <1>1, <2>1 DEF AppendRule, Request
  <1>6. Busy(h)'
    BY <1>5 DEF Busy, Idle
  <1>7. /\ Elements(heap', req'[h].cfg.rules) = Append(old, r.arg)
        /\ req'[h].cfg.setting = r.cfg.setting
    BY <1>1, <1>4, <1>6, AppendInPlaceList, AppendGrownList
  <1>8. /\ RInv' /\ up /\ up' = up /\ r.cfg = cfg /\ LiveDoc = Contents(heap, cfg)
        /\ LiveDoc' = [servers |-> LiveDoc.servers, rules |-> Elements(heap', req'[h].cfg.rules),
                       setting |-> req'[h].cfg.setting]
    BY <1>1, <1>2, <1>3, <1>5, EditMade
  <1>9. LiveDoc' = [LiveDoc EXCEPT !.rules = Append(@, r.arg)]
    <2>1. PICK more : more = Append(old, r.arg)
      OBVIOUS
    <2>2. LiveDoc.rules = old /\ LiveDoc.setting = r.cfg.setting
      BY <1>1, <1>8 DEF Contents
    <2>3. LiveDoc' = [servers |-> LiveDoc.servers, rules |-> more, setting |-> r.cfg.setting]
      BY <1>7, <1>8, <2>1
    <2>4. LiveDoc' = [LiveDoc EXCEPT !.rules = more]
      BY <1>8, <2>2, <2>3 DEF Contents
    <2> QED
      BY <2>1, <2>2, <2>4
  <1>10. Atomic!AddRule(r.arg)
    BY <1>2, <1>8, <1>9 DEF Atomic!AddRule, Atomic!Change, LiveDoc
  <1> QED
    BY <1>2, <1>8, <1>10 DEF Atomic!Next

LEMMA PutRuleAtomic ==
    ASSUME RInv, NEW h \in Handlers, Alone(h), PutRule(h)
    PROVE  RInv' /\ Atomic!Next
  <1>1. PICK r, s, old : r = req[h] /\ s = req[h].cfg.rules /\ old = Elements(heap, s)
    OBVIOUS
  <1>2. Busy(h) /\ req[h].pc = "put" /\ disk' = disk /\ req[h] \in Request /\ DOMAIN req = Handlers
    BY BusyFacts DEF RInv, PutRule
  <1>3. HandlerStep(h) /\ ~SaveConfig(h) /\ req[h].pc # "save"
    BY <1>2 DEF HandlerStep, SaveConfig
  <1>4. IInv /\ IInv'
    BY <1>3, OneMoves
  <1>5. req'[h].pc = "save"
    BY <1>2 DEF PutRule, Request
  <1>6. Busy(h)'
    BY <1>5 DEF Busy, Idle
  <1>7. /\ r.at \in DOMAIN old /\ r.arg \in Rule
        /\ Elements(heap', req'[h].cfg.rules) = [old EXCEPT ![r.at] = r.arg]
        /\ req'[h].cfg = r.cfg
    BY <1>1, <1>4, <1>6, PutRuleList
  <1>8. /\ RInv' /\ up /\ up' = up /\ r.cfg = cfg /\ LiveDoc = Contents(heap, cfg)
        /\ LiveDoc' = [servers |-> LiveDoc.servers, rules |-> Elements(heap', req'[h].cfg.rules),
                       setting |-> req'[h].cfg.setting]
    BY <1>1, <1>2, <1>3, <1>5, EditMade
  <1>9. LiveDoc.rules = old
    BY <1>1, <1>8 DEF Contents
  <1>10. LiveDoc' = [LiveDoc EXCEPT !.rules[r.at] = r.arg]
    BY <1>1, <1>7, <1>8 DEF Contents
  <1>11. LiveDoc.rules[r.at].id = r.arg.id
    <2>1. old[r.at] = heap[cfg.rules.arr][r.at]
      BY <1>1, <1>7, <1>8 DEF Elements
    <2>2. heap[req[h].cfg.rules.arr][req[h].at].id = req[h].arg.id
      BY <1>2 DEF RInv
    <2> QED
      BY <1>1, <1>8, <1>9, <2>1, <2>2
  <1>12. Atomic!UpdateRule(r.at, r.arg) /\ r.at \in DOMAIN LiveDoc.rules
    BY <1>2, <1>7, <1>8, <1>9, <1>10, <1>11 DEF Atomic!UpdateRule, Atomic!Change, LiveDoc
  <1> QED
    BY <1>7, <1>8, <1>12 DEF Atomic!Next, LiveDoc

LEMMA ShiftRulesAtomic ==
    ASSUME RInv, NEW h \in Handlers, Alone(h), ShiftRules(h)
    PROVE  RInv' /\ Atomic!Next
  <1>1. PICK r, s, old : r = req[h] /\ s = req[h].cfg.rules /\ old = Elements(heap, s)
    OBVIOUS
  <1>2. Busy(h) /\ req[h].pc = "shift" /\ disk' = disk /\ req[h] \in Request /\ DOMAIN req = Handlers
    BY BusyFacts DEF RInv, ShiftRules
  <1>3. HandlerStep(h) /\ ~SaveConfig(h) /\ req[h].pc # "save"
    BY <1>2 DEF HandlerStep, SaveConfig
  <1>4. IInv /\ IInv'
    BY <1>3, OneMoves
  <1>5. req'[h].pc = "save"
    BY <1>2 DEF ShiftRules, Request
  <1>6. Busy(h)'
    BY <1>5 DEF Busy, Idle
  <1>7. /\ r.at \in DOMAIN old
        /\ Elements(heap', req'[h].cfg.rules) = WithoutAt(old, r.at)
        /\ req'[h].cfg.setting = r.cfg.setting
    BY <1>1, <1>4, <1>6, ShiftRulesList
  <1>8. /\ RInv' /\ up /\ up' = up /\ r.cfg = cfg /\ LiveDoc = Contents(heap, cfg)
        /\ LiveDoc' = [servers |-> LiveDoc.servers, rules |-> Elements(heap', req'[h].cfg.rules),
                       setting |-> req'[h].cfg.setting]
    BY <1>1, <1>2, <1>3, <1>5, EditMade
  <1>9. LiveDoc.rules = old
    BY <1>1, <1>8 DEF Contents
  <1>10. WithoutAt(old, r.at) = Atomic!Without(old, r.at)
    BY DEF WithoutAt, Atomic!Without
  <1>11. LiveDoc' = [LiveDoc EXCEPT !.rules = Atomic!Without(@, r.at)]
    BY <1>1, <1>7, <1>8, <1>10 DEF Contents
  <1>12. Atomic!DeleteRule(r.at) /\ r.at \in DOMAIN LiveDoc.rules
    BY <1>2, <1>7, <1>8, <1>9, <1>11 DEF Atomic!DeleteRule, Atomic!Change, LiveDoc
  <1> QED
    BY <1>8, <1>12 DEF Atomic!Next, LiveDoc

\* SaveConfig makes the copy the store's and writes the file, or fails to.
LEMMA SaveConfigAtomic ==
    ASSUME RInv, NEW h \in Handlers, Alone(h), SaveConfig(h)
    PROVE  RInv' /\ (Atomic!Next \/ UNCHANGED <<up, LiveDoc, disk>>)
  <1>1. /\ Busy(h) /\ req[h].pc = "save" /\ cfg' = req[h].cfg /\ heap' = heap
        /\ persist(heap, cfg') /\ req' = [req EXCEPT ![h] = Idle] /\ HandlerStep(h)
    BY DEF SaveConfig, HandlerStep
  <1>2. IInv' /\ up /\ up' = up /\ Alone(h)' /\ \A g \in Handlers : req[g].pc # "shift"
    BY <1>1, OneMoves
  <1>3. ~Busy(h)'
    BY <1>1 DEF RInv, IInv, TypeOK, Busy
  <1>4. \A g \in Handlers : ~Busy(g)'
    BY <1>2, <1>3 DEF Alone
  <1>5. Current = req[h].cfg /\ Current' = cfg'
    BY <1>1, <1>4, CurrentSaving, CurrentStoredNext
  <1>6. LiveDoc = Contents(heap, cfg') /\ LiveDoc' = LiveDoc
    BY <1>1, <1>2, <1>5 DEF LiveDoc
  <1>7. disk' = disk \/ disk' = LiveDoc
    BY <1>1, <1>2, <1>6, QuietPersist
  <1>8. RInv'
    BY <1>2, <1>4 DEF RInv
  <1>9. CASE disk' = disk
    BY <1>2, <1>6, <1>8, <1>9
  <1>10. CASE disk' = LiveDoc
    <2>1. Atomic!Write
      BY <1>2, <1>6, <1>10 DEF Atomic!Write, LiveDoc
    <2> QED
      BY <1>8, <2>1 DEF Atomic!Next
  <1> QED
    BY <1>7, <1>9, <1>10

\* While requests do not overlap, the store, with its slices, shared arrays,
\* handlers that edit in several steps, failing writes and crashes, implements
\* one atomic document with a file (store.go, handlers.go).
THEOREM SerialImplementsAtomic == SerialSpec => ImplementsAtomic
  <1>1. Init => RInv /\ Atomic!Init
    BY InitAtomic
  <1>2. RInv /\ [SerialNext]_vars => RInv' /\ [Atomic!Next]_(Atomic!vars)
    <2> SUFFICES ASSUME RInv, [SerialNext]_vars
                 PROVE  RInv' /\ (Atomic!Next \/ UNCHANGED <<up, LiveDoc, disk>>)
      BY DEF Atomic!vars, LiveDoc
    <2>1. CASE NewDefault \/ NewFromFile
      BY <2>1, StartAtomic
    <2>2. CASE Crash
      BY <2>2, CrashAtomic
    <2>3. CASE AllIdle /\ StoreCall
      BY <2>3, StoreCallAtomic
    <2>4. ASSUME NEW h \in Handlers, \A g \in Handlers \ {h} : ~Busy(g), HandlerStep(h)
          PROVE  RInv' /\ (Atomic!Next \/ UNCHANGED <<up, LiveDoc, disk>>)
      <3>1. Alone(h)
        BY <2>4 DEF Alone
      <3> QED
        BY <2>4, <3>1, UneventfulStep, EditSettingAtomic, AppendRuleAtomic,
           PutRuleAtomic, ShiftRulesAtomic, SaveConfigAtomic DEF HandlerStep
    <2>5. CASE UNCHANGED vars
      <3>1. IInv'
        BY <2>5, UnchangedIInv DEF RInv
      <3> QED
        BY <2>5, <3>1 DEF vars, RInv, LiveDoc, Current, Contents, Elements, Busy
    <2> QED
      BY <2>1, <2>2, <2>3, <2>4, <2>5 DEF SerialNext
  <1> QED
    BY <1>1, <1>2, PTL DEF SerialSpec, ImplementsAtomic, Atomic!Spec
=============================================================================
