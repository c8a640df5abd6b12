--------------------------- MODULE ConfigStoreProofs ---------------------------
(* Theorems about ConfigStore, for all values of its constants.             *)
EXTENDS ConfigStore, SequenceTheorems, TLAPS

Slot == Server \cup Rule \cup {Blank}

HeapOK(mem) == mem \in [Arrays -> Seq(Slot)]

\* The configurations somebody holds.
InUse == {cfg} \cup {req[h].cfg : h \in {g \in Handlers : Busy(g)}}

\* No array holds servers for one and rules for another.
Separate == \A c, d \in InUse : c.servers.arr # d.rules.arr

\* The inductive invariant.
IInv ==
    /\ TypeOK
    /\ \A h \in Handlers : Busy(h) => up
    /\ up => Separate
-----------------------------------------------------------------------------
(* Sequences and slices.                                                   *)

\* An array written in one slot keeps its length and its kind.
LEMMA SlotWritten ==
    ASSUME NEW S, NEW q \in Seq(S), NEW i \in 1 .. Len(q), NEW e \in S
    PROVE  /\ [q EXCEPT ![i] = e] \in Seq(S)
           /\ Len([q EXCEPT ![i] = e]) = Len(q)
           /\ \A j \in 1 .. Len(q) : [q EXCEPT ![i] = e][j] = IF j = i THEN e ELSE q[j]
  BY ExceptSeq

\* The memmove of a deletion keeps length and kind.
LEMMA ArrayShifted ==
    ASSUME NEW S, NEW q \in Seq(S), NEW i \in Nat, NEW n \in Nat, n <= Len(q), 1 <= i
    PROVE  /\ ShiftedArray(q, i, n) \in Seq(S)
           /\ Len(ShiftedArray(q, i, n)) = Len(q)
           /\ \A j \in 1 .. Len(q) : ShiftedArray(q, i, n)[j] =
                 IF i <= j /\ j < n THEN q[j + 1] ELSE q[j]
  <1>1. DOMAIN q = 1 .. Len(q) /\ Len(q) \in Nat
    BY LenProperties
  <1>2. \A j \in 1 .. Len(q) : q[j] \in S
    BY ElementOfSeq
  <1>3. \A j \in 1 .. Len(q) : i <= j /\ j < n => j + 1 \in 1 .. Len(q)
    BY <1>1
  <1>4. ShiftedArray(q, i, n) \in [1 .. Len(q) -> S]
    BY <1>1, <1>2, <1>3 DEF ShiftedArray
  <1>5. ShiftedArray(q, i, n) \in Seq(S) /\ Len(ShiftedArray(q, i, n)) = Len(q)
    BY <1>1, <1>4, SeqDef, LenProperties
  <1> QED
    BY <1>1, <1>5 DEF ShiftedArray

\* A new array has the capacity asked for and starts with the given elements.
LEMMA ArrayMade ==
    ASSUME NEW S, Blank \in S, NEW list \in Seq(S), NEW c \in Nat, Len(list) <= c
    PROVE  /\ ArrayOf(list, c) \in Seq(S)
           /\ Len(ArrayOf(list, c)) = c
           /\ \A j \in 1 .. Len(list) : ArrayOf(list, c)[j] = list[j]
  <1>1. DOMAIN list = 1 .. Len(list) /\ Len(list) \in Nat
    BY LenProperties
  <1>2. \A j \in 1 .. Len(list) : list[j] \in S
    BY ElementOfSeq
  <1>3. ArrayOf(list, c) \in [1 .. c -> S]
    BY <1>1, <1>2 DEF ArrayOf
  <1>4. ArrayOf(list, c) \in Seq(S) /\ Len(ArrayOf(list, c)) = c
    BY <1>3, SeqDef, LenProperties
  <1> QED
    BY <1>1, <1>4 DEF ArrayOf

\* A slice is still in order if what it covers is unchanged or of its kind.
LEMMA SliceKept ==
    ASSUME NEW mem, NEW mem2, NEW s, NEW Kind, SliceOK(mem, s, Kind),
           Len(mem2[s.arr]) = Len(mem[s.arr]),
           \A i \in 1 .. s.len : mem2[s.arr][i] = mem[s.arr][i] \/ mem2[s.arr][i] \in Kind
    PROVE  SliceOK(mem2, s, Kind)
  BY DEF SliceOK

\* The elements a slice covers form a list of its kind.
LEMMA ElementsKind ==
    ASSUME NEW mem, NEW s, NEW Kind, SliceOK(mem, s, Kind)
    PROVE  /\ Elements(mem, s) \in Seq(Kind)
           /\ Len(Elements(mem, s)) = s.len
           /\ \A i \in 1 .. s.len : Elements(mem, s)[i] = mem[s.arr][i]
  <1>1. s.len \in Nat
    BY DEF SliceOK, Slice
  <1>2. Elements(mem, s) \in [1 .. s.len -> Kind]
    BY DEF Elements, SliceOK
  <1>3. Elements(mem, s) \in Seq(Kind) /\ Len(Elements(mem, s)) = s.len
    BY <1>1, <1>2, SeqDef, LenProperties
  <1> QED
    BY <1>3 DEF Elements
-----------------------------------------------------------------------------
(* What the invariant says of the configurations in use.                    *)

LEMMA InUseFacts ==
    ASSUME IInv
    PROVE  /\ HeapOK(heap)
           /\ cfg \in InUse
           /\ \A h \in Handlers : Busy(h) => req[h].cfg \in InUse
           /\ \A c \in InUse : /\ c \in Config
                               /\ ConfigOK(heap, c)
                               /\ c.servers.arr \in Live
                               /\ c.rules.arr \in Live
  <1>1. HeapOK(heap) /\ ConfigOK(heap, cfg)
    BY DEF IInv, TypeOK, HeapOK, Slot
  <1>2. \A h \in Handlers : Busy(h) => ConfigOK(heap, req[h].cfg)
    BY DEF IInv, TypeOK, RequestOK
  <1>3. \A c \in InUse : c.servers.arr \in Live /\ c.rules.arr \in Live
    <2>1. cfg.servers.arr \in Live /\ cfg.rules.arr \in Live
      BY DEF Live
    <2>2. ASSUME NEW h \in Handlers, Busy(h)
          PROVE  req[h].cfg.servers.arr \in Live /\ req[h].cfg.rules.arr \in Live
      BY <2>2 DEF Live
    <2> QED
      BY <2>1, <2>2 DEF InUse
  <1> QED
    BY <1>1, <1>2, <1>3 DEF InUse, ConfigOK

LEMMA LiveArrays ==
    ASSUME IInv
    PROVE  Live \subseteq Arrays
  <1>1. \A c \in InUse : c.servers.arr \in Arrays /\ c.rules.arr \in Arrays
    BY InUseFacts DEF Config, Slice
  <1> QED
    BY <1>1 DEF Live, InUse

LEMMA FreshIsFree ==
    ASSUME Free # {}
    PROVE  Fresh \in Arrays /\ Fresh \notin Live
  BY DEF Fresh, Free

LEMMA FreshPairIsFree ==
    ASSUME RoomForTwo
    PROVE  /\ FreshPair[1] \in Arrays /\ FreshPair[1] \notin Live
           /\ FreshPair[2] \in Arrays /\ FreshPair[2] \notin Live
           /\ FreshPair[1] # FreshPair[2]
  <1>1. PICK a \in Free, b \in Free : a # b
    BY DEF RoomForTwo
  <1>2. <<a, b>> \in Free \X Free /\ <<a, b>>[1] = a /\ <<a, b>>[2] = b
    OBVIOUS
  <1>3. \E p \in Free \X Free : p[1] # p[2]
    BY <1>1, <1>2
  <1>4. FreshPair \in Free \X Free /\ FreshPair[1] # FreshPair[2]
    BY <1>3 DEF FreshPair
  <1> QED
    BY <1>4 DEF Free

\* A write to an array that nobody points to disturbs no configuration.
LEMMA FreshArrayWritten ==
    ASSUME IInv, NEW mem2, \A b \in Live : mem2[b] = heap[b]
    PROVE  \A c \in InUse : ConfigOK(mem2, c)
  <1> TAKE c \in InUse
  <1>1. ConfigOK(heap, c) /\ c.servers.arr \in Live /\ c.rules.arr \in Live
    BY InUseFacts
  <1> QED
    BY <1>1, SliceKept DEF ConfigOK

\* A write of servers to the array of the store's server list, whoever shares
\* it, disturbs no configuration.
LEMMA ServerArrayWritten ==
    ASSUME IInv, up, NEW mem2,
           \A b \in Arrays \ {cfg.servers.arr} : mem2[b] = heap[b],
           Len(mem2[cfg.servers.arr]) = Len(heap[cfg.servers.arr]),
           \A j \in 1 .. Len(heap[cfg.servers.arr]) :
              \/ mem2[cfg.servers.arr][j] = heap[cfg.servers.arr][j]
              \/ mem2[cfg.servers.arr][j] \in Server
    PROVE  \A c \in InUse : ConfigOK(mem2, c)
  <1> TAKE c \in InUse
  <1>1. ConfigOK(heap, c) /\ cfg \in InUse /\ HeapOK(heap)
    BY InUseFacts
  <1>2. c.rules.arr # cfg.servers.arr
    BY <1>1 DEF IInv, Separate
  <1>3. c.servers \in Slice /\ c.rules \in Slice
    BY <1>1 DEF ConfigOK, Config
  <1>4. SliceOK(mem2, c.rules, Rule)
    BY <1>1, <1>2, <1>3, SliceKept DEF ConfigOK, Slice
  <1>5. c.servers.len \in Nat /\ c.servers.len <= Len(heap[c.servers.arr])
    BY <1>1, <1>3 DEF ConfigOK, SliceOK, Slice
  <1>6. Len(heap[c.servers.arr]) \in Nat
    BY <1>1, <1>3, LenProperties DEF HeapOK, Slice
  <1>7. \A i \in 1 .. c.servers.len : i \in 1 .. Len(heap[c.servers.arr])
    BY <1>5, <1>6
  <1>8. SliceOK(mem2, c.servers, Server)
    BY <1>1, <1>3, <1>7, SliceKept DEF ConfigOK, Slice
  <1> QED
    BY <1>1, <1>4, <1>8 DEF ConfigOK

\* The same for rules, written by the handler h to the array of its copy.
LEMMA RuleArrayWritten ==
    ASSUME IInv, NEW h \in Handlers, Busy(h), NEW mem2,
           \A b \in Arrays \ {req[h].cfg.rules.arr} : mem2[b] = heap[b],
           Len(mem2[req[h].cfg.rules.arr]) = Len(heap[req[h].cfg.rules.arr]),
           \A j \in 1 .. Len(heap[req[h].cfg.rules.arr]) :
              \/ mem2[req[h].cfg.rules.arr][j] = heap[req[h].cfg.rules.arr][j]
              \/ mem2[req[h].cfg.rules.arr][j] \in Rule
    PROVE  \A c \in InUse : ConfigOK(mem2, c)
  <1> DEFINE a == req[h].cfg.rules.arr
  <1> TAKE c \in InUse
  <1>1. ConfigOK(heap, c) /\ req[h].cfg \in InUse /\ HeapOK(heap)
    BY InUseFacts
  <1>2. c.servers.arr # a
    BY <1>1 DEF IInv, Separate
  <1>3. c.servers \in Slice /\ c.rules \in Slice
    BY <1>1 DEF ConfigOK, Config
  <1>4. SliceOK(mem2, c.servers, Server)
    BY <1>1, <1>2, <1>3, SliceKept DEF ConfigOK, Slice
  <1>5. c.rules.len \in Nat /\ c.rules.len <= Len(heap[c.rules.arr])
    BY <1>1, <1>3 DEF ConfigOK, SliceOK, Slice
  <1>6. Len(heap[c.rules.arr]) \in Nat
    BY <1>1, <1>3, LenProperties DEF HeapOK, Slice
  <1>7. \A i \in 1 .. c.rules.len : i \in 1 .. Len(heap[c.rules.arr])
    BY <1>5, <1>6
  <1>8. SliceOK(mem2, c.rules, Rule)
    BY <1>1, <1>3, <1>7, SliceKept DEF ConfigOK, Slice
  <1> QED
    BY <1>1, <1>4, <1>8 DEF ConfigOK
-----------------------------------------------------------------------------
(* Reading next to the handlers, and writing the file.                      *)

\* Even in the middle of a memmove a reader finds rules in every slot.
LEMMA ReadingsKind ==
    ASSUME IInv, NEW mem, NEW s, SliceOK(mem, s, Rule),
           \A g \in Handlers : Busy(g) => ConfigOK(mem, req[g].cfg),
           NEW list \in Readings(mem, s)
    PROVE  list \in Seq(Rule) /\ Len(list) = s.len
  <1>1. s.len \in Nat
    BY DEF SliceOK, Slice
  <1>2. PICK new \in SUBSET {i \in 1 .. s.len : \E h \in Handlers : Shifting(h, s.arr, i)} :
           list = [i \in 1 .. s.len |->
                     IF i \in new THEN mem[s.arr][i + 1] ELSE mem[s.arr][i]]
    BY DEF Readings
  <1>3. ASSUME NEW i \in 1 .. s.len, i \in new
        PROVE  mem[s.arr][i + 1] \in Rule
    <2>1. PICK h \in Handlers : Shifting(h, s.arr, i)
      BY <1>2, <1>3
    <2>2. Busy(h)
      BY <2>1 DEF Shifting, Busy, Idle
    <2>3. ConfigOK(mem, req[h].cfg)
      BY <2>2
    <2>4. PICK r : r = req[h].cfg.rules
      OBVIOUS
    <2>5. r \in Slice /\ \A j \in 1 .. r.len : mem[r.arr][j] \in Rule
      BY <2>3, <2>4 DEF ConfigOK, SliceOK, Config
    <2>6. r.arr = s.arr /\ i \in 1 .. r.len /\ i < r.len
      <3>1. req[h].cfg.rules.arr = s.arr /\ i < req[h].cfg.rules.len
        BY <2>1 DEF Shifting
      <3>2. r.arr = s.arr /\ i < r.len
        BY <2>4, <3>1
      <3> QED
        BY <2>5, <3>2 DEF Slice
    <2>7. i + 1 \in 1 .. r.len
      BY <2>5, <2>6 DEF Slice
    <2> QED
      BY <2>5, <2>6, <2>7
  <1>4. \A i \in 1 .. s.len : mem[s.arr][i] \in Rule
    BY DEF SliceOK
  <1>5. list \in [1 .. s.len -> Rule]
    BY <1>2, <1>3, <1>4
  <1> QED
    BY <1>1, <1>5, SeqDef, LenProperties

\* Without a memmove in progress a reader finds what is there.
LEMMA QuietReading ==
    ASSUME NEW mem, NEW s, \A h \in Handlers : req[h].pc # "shift",
           NEW list \in Readings(mem, s)
    PROVE  list = Elements(mem, s)
  BY DEF Readings, Elements, Shifting

LEMMA PersistType ==
    ASSUME IInv, NEW mem, NEW c, ConfigOK(mem, c),
           \A g \in Handlers : Busy(g) => ConfigOK(mem, req[g].cfg),
           persist(mem, c)
    PROVE  disk' \in Document \cup {NoFile} /\ unsaved' \in 0 .. MaxUnsaved
  <1>1. CASE disk' \in Marshalled(mem, c) /\ unsaved' = 0
    <2>1. PICK r \in Readings(mem, c.rules) :
             disk' = [servers |-> Elements(mem, c.servers), rules |-> r,
                      setting |-> c.setting]
      BY <1>1 DEF Marshalled
    <2>2. r \in Seq(Rule)
      BY ReadingsKind DEF ConfigOK
    <2>3. Elements(mem, c.servers) \in Seq(Server)
      BY ElementsKind DEF ConfigOK
    <2>4. c.setting \in Settings
      BY DEF ConfigOK, Config
    <2>5. disk' \in Document
      BY <2>1, <2>2, <2>3, <2>4 DEF Document
    <2> QED
      BY <2>5, <1>1, ConstantsAssumption
  <1>2. CASE unsaved < MaxUnsaved /\ UNCHANGED disk /\ unsaved' = unsaved + 1
    BY <1>2, ConstantsAssumption DEF IInv, TypeOK
  <1> QED
    BY <1>1, <1>2 DEF persist
-----------------------------------------------------------------------------
(* The invariant holds at first and is kept by every step.                  *)

LEMMA InitIInv == Init => IInv
  <1> SUFFICES ASSUME Init PROVE IInv
    OBVIOUS
  <1>1. Empty \in Slice /\ Empty.len = 0
    BY ConstantsAssumption DEF Empty, Slice
  <1>2. Unloaded \in Config
    BY <1>1, ConstantsAssumption DEF Unloaded, Config, Document
  <1>3. ConfigOK(heap, cfg)
    BY <1>1, <1>2, ConstantsAssumption DEF Init, ConfigOK, SliceOK, Unloaded, Slice
  <1>4. HeapOK(heap)
    BY EmptySeq DEF Init, HeapOK
  <1>5. \A h \in Handlers : ~Busy(h)
    BY DEF Init, Busy
  <1>6. /\ up \in BOOLEAN
        /\ metrics \in SUBSET ServerIds
        /\ unsaved \in 0 .. MaxUnsaved
    <2>1. up \in BOOLEAN
      BY DEF Init
    <2>2. metrics \in SUBSET ServerIds
      BY DEF Init
    <2>3. unsaved \in 0 .. MaxUnsaved
      <3>1. MaxUnsaved \in Nat
        BY ConstantsAssumption DEF ConstantsAssumption
      <3> QED
        BY <3>1 DEF Init
    <2> QED
      BY <2>1, <2>2, <2>3
  <1>7. disk \in Document \cup {NoFile}
    BY ConstantsAssumption DEF Init
  <1>8. DOMAIN req = Handlers /\ up = FALSE
    BY DEF Init
  <1>9. heap \in [Arrays -> Seq(Server \cup Rule \cup {Blank})]
    BY <1>4 DEF HeapOK, Slot
  <1>10. TypeOK
    BY <1>3, <1>5, <1>6, <1>7, <1>8, <1>9 DEF TypeOK
  <1> QED
    BY <1>5, <1>8, <1>10 DEF IInv

\* How each step lemma ends: types, and who holds what.
LEMMA Assemble ==
    ASSUME HeapOK(heap'), up' \in BOOLEAN, ConfigOK(heap', cfg'),
           metrics' \in SUBSET ServerIds, disk' \in Document \cup {NoFile},
           unsaved' \in 0 .. MaxUnsaved, DOMAIN req' = Handlers,
           \A h \in Handlers : req'[h] # Idle => up' /\ RequestOK(heap', req'[h]),
           up' => Separate'
    PROVE  IInv'
  <1>1. heap' \in [Arrays -> Seq(Server \cup Rule \cup {Blank})]
    BY DEF HeapOK, Slot
  <1>2. \A h \in Handlers : Busy(h)' => up' /\ RequestOK(heap, req[h])'
    BY DEF Busy
  <1>3. TypeOK'
    BY <1>1, <1>2 DEF TypeOK
  <1> QED
    BY <1>2, <1>3 DEF IInv

\* A request that did not move is still in order if the memory is.
LEMMA RequestKept ==
    ASSUME IInv, NEW h \in Handlers, Busy(h), ConfigOK(heap', req[h].cfg)
    PROVE  RequestOK(heap', req[h])
  BY DEF IInv, TypeOK, RequestOK

\* One handler moved; the memory still suits everybody.
LEMMA HandlerMoved ==
    ASSUME IInv, up, NEW h \in Handlers, UNCHANGED <<up, metrics>>,
           DOMAIN req' = Handlers, \A g \in Handlers \ {h} : req'[g] = req[g],
           req'[h] = Idle \/ RequestOK(heap', req'[h]),
           HeapOK(heap'), ConfigOK(heap', cfg'),
           \A c \in InUse : ConfigOK(heap', c),
           disk' \in Document \cup {NoFile}, unsaved' \in 0 .. MaxUnsaved,
           Separate'
    PROVE  IInv'
  <1>1. ASSUME NEW g \in Handlers, req'[g] # Idle
        PROVE  up' /\ RequestOK(heap', req'[g])
    <2>1. CASE g = h
      BY <2>1, <1>1
    <2>2. CASE g # h
      <3>1. req'[g] = req[g] /\ Busy(g)
        BY <2>2, <1>1 DEF Busy
      <3>2. ConfigOK(heap', req[g].cfg)
        BY <3>1, InUseFacts
      <3> QED
        BY <3>1, <3>2, RequestKept
    <2> QED
      BY <2>1, <2>2
  <1>2. up' \in BOOLEAN /\ metrics' \in SUBSET ServerIds
    BY DEF IInv, TypeOK
  <1> QED
    BY <1>1, <1>2, Assemble

\* Arrays of servers and arrays of rules stay apart: what is in use after a
\* step is what was in use before, or a new array a of servers or b of rules.
LEMMA SeparateKept ==
    ASSUME IInv, up, NEW a, NEW b, a # b, a \notin Live, b \notin Live,
           \A c \in InUse' :
              /\ c.servers.arr = a \/ \E d \in InUse : c.servers.arr = d.servers.arr
              /\ c.rules.arr = b \/ \E d \in InUse : c.rules.arr = d.rules.arr
    PROVE  Separate'
  <1>1. ASSUME NEW c \in InUse', NEW e \in InUse'
        PROVE  c.servers.arr # e.rules.arr
    <2>1. CASE c.servers.arr = a /\ e.rules.arr = b
      BY <2>1
    <2>2. CASE c.servers.arr = a /\ \E d \in InUse : e.rules.arr = d.rules.arr
      BY <2>2, InUseFacts
    <2>3. CASE (\E d \in InUse : c.servers.arr = d.servers.arr) /\ e.rules.arr = b
      BY <2>3, InUseFacts
    <2>4. CASE /\ \E d \in InUse : c.servers.arr = d.servers.arr
               /\ \E d \in InUse : e.rules.arr = d.rules.arr
      BY <2>4 DEF IInv, Separate
    <2> QED
      BY <2>1, <2>2, <2>3, <2>4
  <1> QED
    BY <1>1 DEF Separate

\* The same with a new array of servers only.
LEMMA SeparateServers ==
    ASSUME IInv, up, NEW a, a \notin Live,
           \A c \in InUse' :
              /\ c.servers.arr = a \/ \E d \in InUse : c.servers.arr = d.servers.arr
              /\ \E d \in InUse : c.rules.arr = d.rules.arr
    PROVE  Separate'
  <1>1. ASSUME NEW c \in InUse', NEW e \in InUse'
        PROVE  c.servers.arr # e.rules.arr
    <2>1. CASE c.servers.arr = a
      BY <2>1, InUseFacts
    <2>2. CASE \E d \in InUse : c.servers.arr = d.servers.arr
      BY <2>2 DEF IInv, Separate
    <2> QED
      BY <2>1, <2>2
  <1> QED
    BY <1>1 DEF Separate

\* The same with a new array of rules only.
LEMMA SeparateRules ==
    ASSUME IInv, up, NEW b, b \notin Live,
           \A c \in InUse' :
              /\ \E d \in InUse : c.servers.arr = d.servers.arr
              /\ c.rules.arr = b \/ \E d \in InUse : c.rules.arr = d.rules.arr
    PROVE  Separate'
  <1>1. ASSUME NEW c \in InUse', NEW e \in InUse'
        PROVE  c.servers.arr # e.rules.arr
    <2>1. CASE e.rules.arr = b
      BY <2>1, InUseFacts
    <2>2. CASE \E d \in InUse : e.rules.arr = d.rules.arr
      BY <2>2 DEF IInv, Separate
    <2> QED
      BY <2>1, <2>2
  <1> QED
    BY <1>1 DEF Separate

\* What is in use after a step, if one handler moved and the store did not.
LEMMA InUseAfter ==
    ASSUME NEW h \in Handlers, DOMAIN req' = Handlers,
           \A g \in Handlers \ {h} : req'[g] = req[g],
           NEW c \in InUse'
    PROVE  c = cfg' \/ (req'[h] # Idle /\ c = req'[h].cfg) \/ c \in InUse
  BY DEF InUse, Busy
-----------------------------------------------------------------------------
(* The steps of a handler.                                                  *)

\* A step that touches nothing but the handler's own record.
LEMMA PrivateStep ==
    ASSUME IInv, up, NEW h \in Handlers,
           UNCHANGED <<up, heap, cfg, metrics, disk, unsaved>>,
           DOMAIN req' = Handlers, \A g \in Handlers \ {h} : req'[g] = req[g],
           \/ req'[h] = Idle
           \/ /\ RequestOK(heap, req'[h])
              /\ \E d \in InUse : /\ req'[h].cfg.servers = d.servers
                                  /\ req'[h].cfg.rules = d.rules
    PROVE  IInv'
  <1>1. HeapOK(heap') /\ ConfigOK(heap', cfg') /\ \A c \in InUse : ConfigOK(heap', c)
    BY InUseFacts
  <1>2. disk' \in Document \cup {NoFile} /\ unsaved' \in 0 .. MaxUnsaved
    BY DEF IInv, TypeOK
  <1>3. \A c \in InUse' : \E d \in InUse : /\ c.servers.arr = d.servers.arr
                                         /\ c.rules.arr = d.rules.arr
    BY InUseFacts, InUseAfter
  <1>4. Separate'
    BY <1>3 DEF IInv, Separate
  <1>5. req'[h] = Idle \/ RequestOK(heap', req'[h])
    OBVIOUS
  <1> QED
    BY <1>1, <1>2, <1>4, <1>5, HandlerMoved

LEMMA BeginIInv ==
    ASSUME IInv, NEW h \in Handlers, Begin(h)
    PROVE  IInv'
  <1>0. PICK op \in RMWOps : \E arg \in Args(op) :
           req' = [req EXCEPT ![h] = [pc |-> "decode", op |-> op, arg |-> arg,
                                      cfg |-> cfg, at |-> 0]]
    BY DEF Begin
  <1>1. PICK arg \in Args(op) :
           req' = [req EXCEPT ![h] = [pc |-> "decode", op |-> op, arg |-> arg,
                                      cfg |-> cfg, at |-> 0]]
    BY <1>0
  <1>2. DOMAIN req = Handlers /\ ConfigOK(heap, cfg) /\ cfg \in InUse
    BY InUseFacts DEF IInv, TypeOK
  <1>3. arg \in Arg
    BY DEF Args, Arg
  <1>4. RequestOK(heap, req'[h]) /\ req'[h].cfg = cfg
    BY <1>1, <1>2, <1>3 DEF RequestOK, Request, ConfigOK
  <1> QED
    BY <1>1, <1>2, <1>4, PrivateStep DEF Begin

LEMMA RefusedIInv ==
    ASSUME IInv, NEW h \in Handlers, BadRequest(h) \/ RuleNotFound(h)
    PROVE  IInv'
  <1>1. up /\ DOMAIN req = Handlers
    BY DEF IInv, TypeOK, BadRequest, RuleNotFound
  <1> QED
    BY <1>1, PrivateStep DEF BadRequest, RuleNotFound

LEMMA EditSettingIInv ==
    ASSUME IInv, NEW h \in Handlers, EditSetting(h)
    PROVE  IInv'
  <1>1. up /\ DOMAIN req = Handlers /\ RequestOK(heap, req[h]) /\ req[h].cfg \in InUse
    BY InUseFacts DEF IInv, TypeOK, EditSetting
  <1>2. req[h].arg \in Settings
    BY <1>1 DEF EditSetting, RequestOK, Args
  <1>3. /\ req'[h].cfg = [req[h].cfg EXCEPT !.setting = req[h].arg]
        /\ req'[h] = [req[h] EXCEPT !.pc = "save", !.cfg.setting = req[h].arg]
    BY <1>1 DEF EditSetting, RequestOK, Request
  <1>4. /\ req'[h].cfg \in Config
        /\ req'[h].cfg.servers = req[h].cfg.servers
        /\ req'[h].cfg.rules = req[h].cfg.rules
    BY <1>1, <1>2, <1>3 DEF RequestOK, ConfigOK, Config
  <1>5. RequestOK(heap, req'[h])
    BY <1>1, <1>3, <1>4 DEF RequestOK, Request, ConfigOK
  <1> QED
    BY <1>1, <1>4, <1>5, PrivateStep DEF EditSetting

LEMMA FindRuleIInv ==
    ASSUME IInv, NEW h \in Handlers, FindRule(h)
    PROVE  IInv'
  <1>1. up /\ DOMAIN req = Handlers /\ RequestOK(heap, req[h]) /\ req[h].cfg \in InUse
    BY InUseFacts DEF IInv, TypeOK, FindRule
  <1>2. PICK i \in 1 .. req[h].cfg.rules.len :
           req' = [req EXCEPT ![h].pc = IF req[h].op = "putRule"
                                          THEN "put" ELSE "shift",
                              ![h].at = i]
    BY DEF FindRule
  <1>3. i \in Nat /\ req[h].op \in {"putRule", "deleteRule"}
    BY <1>1 DEF FindRule, RequestOK, Request, Config, Slice
  <1>4. req'[h] = [req[h] EXCEPT !.pc = IF req[h].op = "putRule" THEN "put" ELSE "shift",
                                 !.at = i]
    BY <1>1, <1>2
  <1>5. RequestOK(heap, req'[h]) /\ req'[h].cfg = req[h].cfg
    BY <1>1, <1>3, <1>4 DEF RequestOK, Request
  <1> QED
    BY <1>1, <1>2, <1>5, PrivateStep DEF FindRule

\* The facts about a busy handler the steps below start from.
LEMMA BusyFacts ==
    ASSUME IInv, NEW h \in Handlers, Busy(h)
    PROVE  /\ up /\ DOMAIN req = Handlers
           /\ RequestOK(heap, req[h]) /\ req[h] \in Request
           /\ req[h].cfg \in InUse /\ req[h].cfg \in Config
           /\ req[h].cfg.rules.arr \in Arrays /\ req[h].cfg.rules.len \in Nat
           /\ heap[req[h].cfg.rules.arr] \in Seq(Slot)
           /\ Len(heap[req[h].cfg.rules.arr]) \in Nat
           /\ req[h].cfg.rules.len <= Len(heap[req[h].cfg.rules.arr])
           /\ \A i \in 1 .. req[h].cfg.rules.len : heap[req[h].cfg.rules.arr][i] \in Rule
           /\ disk \in Document \cup {NoFile} /\ unsaved \in 0 .. MaxUnsaved
  <1>1. up /\ DOMAIN req = Handlers /\ RequestOK(heap, req[h]) /\ req[h].cfg \in InUse
    BY InUseFacts DEF IInv, TypeOK
  <1>2. req[h].cfg \in Config /\ SliceOK(heap, req[h].cfg.rules, Rule) /\ req[h] \in Request
    BY <1>1 DEF RequestOK, ConfigOK
  <1>3. req[h].cfg.rules.arr \in Arrays /\ req[h].cfg.rules.len \in Nat
    BY <1>2 DEF Config, Slice
  <1>4. heap[req[h].cfg.rules.arr] \in Seq(Slot)
    BY <1>3, InUseFacts DEF HeapOK
  <1>5. Len(heap[req[h].cfg.rules.arr]) \in Nat
    BY <1>4, LenProperties
  <1> QED
    BY <1>1, <1>2, <1>3, <1>4, <1>5 DEF SliceOK, IInv, TypeOK

\* A request record that goes on to save, with the copy c of the configuration.
LEMMA RequestSaves ==
    ASSUME NEW h, req[h] \in Request, NEW c, c \in Config,
           \/ req'[h] = [req[h] EXCEPT !.pc = "save", !.at = 0, !.cfg = c]
           \/ req'[h] = [req[h] EXCEPT !.pc = "save", !.cfg = c]
    PROVE  /\ req'[h] \in Request /\ req'[h].pc = "save"
           /\ req'[h].op = req[h].op /\ req'[h].arg = req[h].arg
           /\ req'[h].cfg = c
  <1>1. PICK r : r = req[h]
    OBVIOUS
  <1>2. PICK w : w = req'[h]
    OBVIOUS
  <1>3. /\ r \in Request
        /\ \/ w = [r EXCEPT !.pc = "save", !.at = 0, !.cfg = c]
           \/ w = [r EXCEPT !.pc = "save", !.cfg = c]
    BY <1>1, <1>2
  <1>4. w \in Request
    <2>1. CASE w = [r EXCEPT !.pc = "save", !.at = 0, !.cfg = c]
      BY <1>3, <2>1 DEF Request
    <2>2. CASE w = [r EXCEPT !.pc = "save", !.cfg = c]
      BY <1>3, <2>2 DEF Request
    <2> QED
      BY <1>3, <2>1, <2>2
  <1>5. w.pc = "save" /\ w.op = r.op /\ w.arg = r.arg /\ w.cfg = c
    <2>1. CASE w = [r EXCEPT !.pc = "save", !.at = 0, !.cfg = c]
      BY <1>3, <2>1 DEF Request
    <2>2. CASE w = [r EXCEPT !.pc = "save", !.cfg = c]
      BY <1>3, <2>2 DEF Request
    <2> QED
      BY <1>3, <2>1, <2>2
  <1> QED
    BY <1>1, <1>2, <1>4, <1>5

\* The same where only the rule slice of the copy is cut or grown.
LEMMA RequestResizes ==
    ASSUME NEW h, req[h] \in Request, req[h].cfg \in Config, NEW n \in Nat,
           \/ req'[h] = [req[h] EXCEPT !.pc = "save", !.at = 0, !.cfg.rules.len = n]
           \/ req'[h] = [req[h] EXCEPT !.pc = "save", !.cfg.rules.len = n]
    PROVE  /\ req'[h] \in Request /\ req'[h].pc = "save"
           /\ req'[h].op = req[h].op /\ req'[h].arg = req[h].arg
           /\ req'[h].cfg.servers = req[h].cfg.servers
           /\ req'[h].cfg.rules = [arr |-> req[h].cfg.rules.arr, len |-> n]
  <1>0. PICK c : c = req[h].cfg
    OBVIOUS
  <1>1. PICK d : d = [c EXCEPT !.rules.len = n]
    OBVIOUS
  <1>2. /\ d \in Config /\ d.servers = c.servers
        /\ d.rules = [arr |-> c.rules.arr, len |-> n]
    <2>1. c \in Config /\ c.rules \in Slice
      BY <1>0 DEF Config
    <2>2. [c.rules EXCEPT !.len = n] = [arr |-> c.rules.arr, len |-> n]
      BY <2>1 DEF Slice
    <2>3. [arr |-> c.rules.arr, len |-> n] \in Slice
      BY <2>1 DEF Slice
    <2> QED
      BY <1>1, <2>1, <2>2, <2>3 DEF Config
  <1>3. \/ req'[h] = [req[h] EXCEPT !.pc = "save", !.at = 0, !.cfg = d]
        \/ req'[h] = [req[h] EXCEPT !.pc = "save", !.cfg = d]
    BY <1>0, <1>1, Zenon
  <1>4. /\ req'[h] \in Request /\ req'[h].pc = "save"
        /\ req'[h].op = req[h].op /\ req'[h].arg = req[h].arg
        /\ req'[h].cfg = d
    BY <1>2, <1>3, RequestSaves, Zenon
  <1> QED
    BY <1>0, <1>2, <1>4

\* A handler has written its array of rules in place and goes on to save.
LEMMA RuleWriteStep ==
    ASSUME IInv, NEW h \in Handlers, Busy(h), NEW q \in Seq(Slot), NEW n \in Nat,
           UNCHANGED <<up, cfg, metrics, disk, unsaved>>,
           heap' = [heap EXCEPT ![req[h].cfg.rules.arr] = q],
           Len(q) = Len(heap[req[h].cfg.rules.arr]),
           \A j \in 1 .. Len(q) :
              q[j] = heap[req[h].cfg.rules.arr][j] \/ q[j] \in Rule,
           n <= Len(q), \A i \in 1 .. n : q[i] \in Rule,
           DOMAIN req' = Handlers, \A g \in Handlers \ {h} : req'[g] = req[g],
           req'[h] \in Request, req'[h].pc = "save",
           req'[h].op = req[h].op, req'[h].arg = req[h].arg,
           req'[h].cfg.servers = req[h].cfg.servers,
           req'[h].cfg.rules = [arr |-> req[h].cfg.rules.arr, len |-> n]
    PROVE  IInv'
  <1> DEFINE a == req[h].cfg.rules.arr
             r == req'[h]
  <1>1. HeapOK(heap)
    BY InUseFacts
  <1>2. HeapOK(heap')
    BY <1>1 DEF HeapOK
  <1>3. heap'[a] = q /\ \A b \in Arrays \ {a} : heap'[b] = heap[b]
    BY <1>1, BusyFacts DEF HeapOK
  <1>4. \A c \in InUse : ConfigOK(heap', c)
    <2>1. /\ Len(heap'[a]) = Len(heap[a])
          /\ \A j \in 1 .. Len(heap[a]) : heap'[a][j] = heap[a][j] \/ heap'[a][j] \in Rule
      BY <1>3
    <2> QED
      BY <1>3, <2>1, RuleArrayWritten
  <1>5. ConfigOK(heap', req[h].cfg)
    BY <1>4, BusyFacts
  <1>6. ConfigOK(heap', r.cfg)
    <2>1. SliceOK(heap', req[h].cfg.servers, Server) /\ SliceOK(heap', req[h].cfg.rules, Rule)
      BY <1>5 DEF ConfigOK
    <2>2. r.cfg \in Config /\ r.cfg.rules \in Slice
      BY DEF Request, Config
    <2>3. r.cfg.rules.arr = a /\ r.cfg.rules.len = n
      OBVIOUS
    <2>4. SliceOK(heap', r.cfg.rules, Rule)
      BY <1>3, <2>2, <2>3 DEF SliceOK
    <2> QED
      BY <2>1, <2>2, <2>4 DEF ConfigOK
  <1>7. RequestOK(heap', r)
    BY <1>6, BusyFacts DEF RequestOK
  <1>8. \A c \in InUse' : \E d \in InUse : /\ c.servers.arr = d.servers.arr
                                         /\ c.rules.arr = d.rules.arr
    BY BusyFacts, InUseFacts, InUseAfter
  <1>9. Separate'
    BY <1>8, BusyFacts DEF IInv, Separate
  <1>10. ConfigOK(heap', cfg')
    BY <1>4, InUseFacts
  <1> QED
    BY <1>2, <1>4, <1>7, <1>9, <1>10, BusyFacts, HandlerMoved

LEMMA PutRuleIInv ==
    ASSUME IInv, NEW h \in Handlers, PutRule(h)
    PROVE  IInv'
  <1> DEFINE a == req[h].cfg.rules.arr
             i == req[h].at
             q == [heap[a] EXCEPT ![i] = req[h].arg]
             n == req[h].cfg.rules.len
  <1>1. Busy(h) /\ req[h].pc = "put"
    BY DEF PutRule
  <1>2. i \in 1 .. n /\ req[h].arg \in Rule
    BY <1>1, BusyFacts DEF RequestOK, Args
  <1>3. i \in 1 .. Len(heap[a]) /\ req[h].arg \in Slot
    BY <1>1, <1>2, BusyFacts DEF Slot
  <1>4. /\ q \in Seq(Slot) /\ Len(q) = Len(heap[a])
        /\ \A j \in 1 .. Len(heap[a]) : q[j] = IF j = i THEN req[h].arg ELSE heap[a][j]
    BY <1>1, <1>3, BusyFacts, SlotWritten
  <1>5. heap' = [heap EXCEPT ![a] = q]
    BY <1>1, BusyFacts DEF PutRule
  <1>6. req'[h] = [req[h] EXCEPT !.pc = "save", !.at = 0, !.cfg = req[h].cfg]
    <2>1. req[h] \in Request
      BY <1>1, BusyFacts
    <2>2. [req[h] EXCEPT !.pc = "save", !.at = 0] =
             [req[h] EXCEPT !.pc = "save", !.at = 0, !.cfg = req[h].cfg]
      BY <2>1 DEF Request
    <2> QED
      BY <1>1, <2>2, BusyFacts DEF PutRule
  <1>7. /\ req'[h] \in Request /\ req'[h].pc = "save"
        /\ req'[h].op = req[h].op /\ req'[h].arg = req[h].arg
        /\ req'[h].cfg = req[h].cfg
    <2>1. req[h] \in Request /\ req[h].cfg \in Config
      BY <1>1, BusyFacts
    <2> QED
      BY <1>6, <2>1, RequestSaves, Zenon
  <1>8. req[h].cfg.rules = [arr |-> a, len |-> n] /\ n \in Nat /\ n <= n
    BY <1>1, BusyFacts DEF Config, Slice
  <1>9. DOMAIN req' = Handlers /\ \A g \in Handlers \ {h} : req'[g] = req[g]
    BY <1>1, BusyFacts DEF PutRule
  <1>10. \A j \in 1 .. Len(q) : q[j] = heap[a][j] \/ q[j] \in Rule
    BY <1>2, <1>4
  <1>11. /\ q \in Seq(Slot) /\ Len(q) = Len(heap[a]) /\ n <= Len(q)
         /\ \A j \in 1 .. n : q[j] \in Rule
    <2>1. \A j \in 1 .. n : heap[a][j] \in Rule /\ j \in 1 .. Len(heap[a])
      BY <1>1, BusyFacts
    <2>2. n <= Len(heap[a])
      BY <1>1, BusyFacts
    <2> QED
      BY <1>2, <1>4, <2>1, <2>2
  <1>12. UNCHANGED <<up, cfg, metrics, disk, unsaved>>
    BY DEF PutRule
  <1>13. req'[h].cfg.servers = req[h].cfg.servers /\ req'[h].cfg.rules = [arr |-> a, len |-> n]
    BY <1>7, <1>8
  <1> HIDE DEF q, n
  <1> QED
    BY <1>1, <1>5, <1>7, <1>8, <1>9, <1>10, <1>11, <1>12, <1>13, RuleWriteStep DEF n

LEMMA ShiftRulesIInv ==
    ASSUME IInv, NEW h \in Handlers, ShiftRules(h)
    PROVE  IInv'
  <1> DEFINE a == req[h].cfg.rules.arr
             i == req[h].at
             n == req[h].cfg.rules.len
             q == ShiftedArray(heap[a], i, n)
  <1>1. Busy(h) /\ req[h].pc = "shift"
    BY DEF ShiftRules
  <1>2. i \in 1 .. n /\ n \in Nat
    BY <1>1, BusyFacts DEF RequestOK
  <1>3. /\ q \in Seq(Slot) /\ Len(q) = Len(heap[a])
        /\ \A j \in 1 .. Len(heap[a]) :
             q[j] = IF i <= j /\ j < n THEN heap[a][j + 1] ELSE heap[a][j]
    <2>1. i \in Nat /\ 1 <= i /\ n <= Len(heap[a]) /\ heap[a] \in Seq(Slot)
      BY <1>1, <1>2, BusyFacts
    <2>2. PICK s \in Seq(Slot), k \in Nat, m \in Nat : s = heap[a] /\ k = i /\ m = n
      BY <1>2, <2>1
    <2>3. 1 <= k /\ m <= Len(s)
      BY <2>1, <2>2
    <2>4. /\ ShiftedArray(s, k, m) \in Seq(Slot)
          /\ Len(ShiftedArray(s, k, m)) = Len(s)
          /\ \A j \in 1 .. Len(s) : ShiftedArray(s, k, m)[j] =
                IF k <= j /\ j < m THEN s[j + 1] ELSE s[j]
      BY <2>3, ArrayShifted
    <2> QED
      BY <2>2, <2>4
  <1> HIDE DEF q
  <1>4. \A j \in 1 .. Len(q) : q[j] = heap[a][j] \/ q[j] \in Rule
    BY <1>1, <1>2, <1>3, BusyFacts
  <1>5. heap' = [heap EXCEPT ![a] = q]
    BY <1>1, BusyFacts DEF ShiftRules, q
  <1>6. n - 1 \in Nat /\ n - 1 <= n
    BY <1>2
  <1>7. req'[h] = [req[h] EXCEPT !.pc = "save", !.at = 0, !.cfg.rules.len = n - 1]
    BY <1>1, BusyFacts DEF ShiftRules
  <1>8. PICK m \in Nat : m = n - 1
    BY <1>6
  <1>9. req'[h] = [req[h] EXCEPT !.pc = "save", !.at = 0, !.cfg.rules.len = m]
    BY <1>7, <1>8
  <1>10. req[h] \in Request /\ req[h].cfg \in Config
    BY <1>1, BusyFacts
  <1>11. /\ req'[h] \in Request /\ req'[h].pc = "save"
         /\ req'[h].op = req[h].op /\ req'[h].arg = req[h].arg
         /\ req'[h].cfg.servers = req[h].cfg.servers
         /\ req'[h].cfg.rules = [arr |-> a, len |-> m]
    BY <1>9, <1>10, RequestResizes, Zenon
  <1>12. DOMAIN req' = Handlers /\ \A g \in Handlers \ {h} : req'[g] = req[g]
    BY <1>1, BusyFacts DEF ShiftRules
  <1> QED
    <2>1. UNCHANGED <<up, cfg, metrics, disk, unsaved>>
      BY DEF ShiftRules
    <2>2. /\ q \in Seq(Slot) /\ Len(q) = Len(heap[a]) /\ m <= Len(q)
          /\ \A j \in 1 .. m : q[j] \in Rule
      <3>0. PICK k : k = Len(heap[a])
        OBVIOUS
      <3>1. n <= k /\ k \in Nat /\ \A j \in 1 .. n : heap[a][j] \in Rule
        BY <1>1, <3>0, BusyFacts
      <3>2. \A j \in 1 .. m : j \in 1 .. n /\ j + 1 \in 1 .. n /\ j \in 1 .. k
        BY <1>2, <1>8, <3>1
      <3>3. /\ q \in Seq(Slot) /\ Len(q) = k
            /\ \A j \in 1 .. k :
                 q[j] = IF i <= j /\ j < n THEN heap[a][j + 1] ELSE heap[a][j]
        BY <1>3, <3>0
      <3>4. m <= k
        BY <1>2, <1>8, <3>1
      <3> QED
        BY <3>0, <3>1, <3>2, <3>3, <3>4
    <2> QED
      BY <1>1, <1>4, <1>5, <1>11, <1>12, <2>1, <2>2, RuleWriteStep

\* An AppendRule that finds spare capacity.
LEMMA AppendInPlaceIInv ==
    ASSUME IInv, NEW h \in Handlers, AppendRule(h),
           req[h].cfg.rules.len # Len(heap[req[h].cfg.rules.arr])
    PROVE  IInv'
  <1> DEFINE a == req[h].cfg.rules.arr
             n == req[h].cfg.rules.len
             q == [heap[a] EXCEPT ![n + 1] = req[h].arg]
  <1>1. Busy(h) /\ req[h].op = "addRule"
    BY DEF AppendRule
  <1>2. req[h].arg \in Rule /\ req[h].arg \in Slot
    BY <1>1, BusyFacts DEF RequestOK, Args, Slot
  <1>3. n + 1 \in 1 .. Len(heap[a])
    BY <1>1, BusyFacts
  <1>4. /\ q \in Seq(Slot) /\ Len(q) = Len(heap[a])
        /\ \A j \in 1 .. Len(heap[a]) : q[j] = IF j = n + 1 THEN req[h].arg ELSE heap[a][j]
    <2>1. PICK s \in Seq(Slot), k \in Int, e \in Slot :
             s = heap[a] /\ k = n + 1 /\ e = req[h].arg
      BY <1>1, <1>2, BusyFacts
    <2>2. k \in 1 .. Len(s)
      BY <1>3, <2>1
    <2>3. /\ [s EXCEPT ![k] = e] \in Seq(Slot) /\ Len([s EXCEPT ![k] = e]) = Len(s)
          /\ \A j \in 1 .. Len(s) : [s EXCEPT ![k] = e][j] = IF j = k THEN e ELSE s[j]
      BY <2>2, SlotWritten
    <2> QED
      BY <2>1, <2>3
  <1>5. /\ heap' = [heap EXCEPT ![a] = q]
        /\ req' = [req EXCEPT ![h].pc = "save", ![h].cfg.rules.len = n + 1]
        /\ UNCHANGED <<up, cfg, metrics, disk, unsaved>>
    BY <1>1, BusyFacts DEF AppendRule
  <1> HIDE DEF q
  <1>6. PICK m \in Nat : m = n + 1
    BY <1>1, BusyFacts
  <1>7. req'[h] = [req[h] EXCEPT !.pc = "save", !.cfg.rules.len = m]
    BY <1>1, <1>5, <1>6, BusyFacts
  <1>8. /\ req'[h] \in Request /\ req'[h].pc = "save"
        /\ req'[h].op = req[h].op /\ req'[h].arg = req[h].arg
        /\ req'[h].cfg.servers = req[h].cfg.servers
        /\ req'[h].cfg.rules = [arr |-> a, len |-> m]
    <2>1. req[h] \in Request /\ req[h].cfg \in Config
      BY <1>1, BusyFacts
    <2> QED
      BY <1>7, <2>1, RequestResizes, Zenon
  <1>9. DOMAIN req' = Handlers /\ \A g \in Handlers \ {h} : req'[g] = req[g]
    BY <1>1, <1>5, BusyFacts
  <1>10. m <= Len(q) /\ \A j \in 1 .. m : q[j] \in Rule
    <2>1. n \in Nat /\ \A j \in 1 .. n : heap[a][j] \in Rule
      BY <1>1, BusyFacts
    <2>2. \A j \in 1 .. m : j \in 1 .. Len(heap[a]) /\ (j # m => j \in 1 .. n)
      BY <1>3, <1>6, <2>1
    <2>3. m <= Len(q)
      BY <1>3, <1>4, <1>6
    <2> QED
      BY <1>2, <1>4, <1>6, <2>1, <2>2, <2>3
  <1>11. \A j \in 1 .. Len(q) : q[j] = heap[a][j] \/ q[j] \in Rule
    BY <1>2, <1>4
  <1> QED
    BY <1>1, <1>4, <1>5, <1>8, <1>9, <1>10, <1>11, RuleWriteStep

\* A list appended to, copied to a new array.
LEMMA GrownArray ==
    ASSUME NEW K, K \subseteq Slot, NEW list \in Seq(K), NEW e \in K,
           NEW c \in Nat, Len(list) + 1 <= c
    PROVE  /\ ArrayOf(Append(list, e), c) \in Seq(Slot)
           /\ Len(ArrayOf(Append(list, e), c)) = c
           /\ \A j \in 1 .. Len(list) + 1 : ArrayOf(Append(list, e), c)[j] \in K
  <1> DEFINE new == Append(list, e)
  <1>1. new \in Seq(K) /\ Len(new) = Len(list) + 1
    BY AppendProperties
  <1>2. new \in Seq(Slot)
    BY <1>1, SeqDef, LenProperties
  <1>3. Blank \in Slot
    BY DEF Slot
  <1>4. \A j \in 1 .. Len(new) : new[j] \in K
    BY <1>1, ElementOfSeq
  <1> HIDE DEF new
  <1>5. /\ ArrayOf(new, c) \in Seq(Slot) /\ Len(ArrayOf(new, c)) = c
        /\ \A j \in 1 .. Len(new) : ArrayOf(new, c)[j] = new[j]
    BY <1>1, <1>2, <1>3, ArrayMade
  <1> QED
    BY <1>1, <1>4, <1>5 DEF new

\* An AppendRule that finds its array full.
LEMMA AppendGrownIInv ==
    ASSUME IInv, NEW h \in Handlers, AppendRule(h),
           req[h].cfg.rules.len = Len(heap[req[h].cfg.rules.arr])
    PROVE  IInv'
  <1> DEFINE s == req[h].cfg.rules
             n == s.len
  <1>1. Busy(h) /\ req[h].op = "addRule" /\ Fresh \in Arrays /\ Fresh \notin Live
    BY FreshIsFree DEF AppendRule
  <1>2. req[h].arg \in Rule /\ SliceOK(heap, s, Rule) /\ n \in Nat
    BY <1>1, BusyFacts DEF RequestOK, Args, ConfigOK
  <1>3. PICK c \in Capacities, list \in Readings(heap, s) :
           /\ IsCapacityFor(c, n + 1)
           /\ heap' = [heap EXCEPT ![Fresh] = ArrayOf(Append(list, req[h].arg), c)]
    BY DEF AppendRule
  <1>4. /\ req' = [req EXCEPT ![h].pc = "save",
                              ![h].cfg.rules = [arr |-> Fresh, len |-> n + 1]]
        /\ UNCHANGED <<up, cfg, metrics, disk, unsaved>>
    BY DEF AppendRule
  <1>5. list \in Seq(Rule) /\ Len(list) = n
    <2>1. \A g \in Handlers : Busy(g) => ConfigOK(heap, req[g].cfg)
      BY InUseFacts
    <2> QED
      BY <1>2, <1>3, <2>1, ReadingsKind
  <1> DEFINE q == ArrayOf(Append(list, req[h].arg), c)
  <1>6. q \in Seq(Slot) /\ Len(q) = c /\ n + 1 <= c /\ \A j \in 1 .. n + 1 : q[j] \in Rule
    <2>1. c \in Nat /\ n + 1 <= c
      BY <1>3, ConstantsAssumption DEF IsCapacityFor
    <2>2. Rule \subseteq Slot
      BY DEF Slot
    <2> QED
      BY <1>2, <1>5, <2>1, <2>2, GrownArray
  <1> HIDE DEF q
  <1>7. heap' = [heap EXCEPT ![Fresh] = q]
    BY <1>3 DEF q
  <1>8. HeapOK(heap') /\ heap'[Fresh] = q /\ \A b \in Live : heap'[b] = heap[b]
    <2>1. HeapOK(heap) /\ Live \subseteq Arrays
      BY LiveArrays, InUseFacts
    <2> QED
      BY <1>1, <1>6, <1>7, <2>1 DEF HeapOK
  <1>9. \A d \in InUse : ConfigOK(heap', d)
    BY <1>8, FreshArrayWritten
  <1>10. PICK d : d = [req[h].cfg EXCEPT !.rules = [arr |-> Fresh, len |-> n + 1]]
    OBVIOUS
  <1>11. /\ d \in Config /\ d.servers = req[h].cfg.servers
         /\ d.rules = [arr |-> Fresh, len |-> n + 1]
    <2>1. PICK e : e = req[h].cfg
      OBVIOUS
    <2>2. [arr |-> Fresh, len |-> n + 1] \in Slice /\ e \in Config
      BY <1>1, <1>2, <2>1, BusyFacts DEF Slice
    <2>3. d = [e EXCEPT !.rules = [arr |-> Fresh, len |-> n + 1]]
      BY <1>10, <2>1
    <2>4. d \in Config /\ d.servers = e.servers /\ d.rules = [arr |-> Fresh, len |-> n + 1]
      BY <2>2, <2>3 DEF Config
    <2> QED
      BY <2>1, <2>4
  <1>12. req'[h] = [req[h] EXCEPT !.pc = "save", !.cfg = d]
    <2>1. req'[h] = [req[h] EXCEPT !.pc = "save",
                                   !.cfg.rules = [arr |-> Fresh, len |-> n + 1]]
      BY <1>1, <1>4, BusyFacts
    <2> QED
      BY <1>10, <2>1, Zenon
  <1>13. /\ req'[h] \in Request /\ req'[h].pc = "save"
         /\ req'[h].op = req[h].op /\ req'[h].arg = req[h].arg
         /\ req'[h].cfg = d
    <2>1. req[h] \in Request /\ d \in Config
      BY <1>1, <1>11, BusyFacts
    <2> HIDE DEF s, n
    <2> QED
      BY <1>12, <2>1, RequestSaves, ZenonT(30)
  <1>14. ConfigOK(heap', d)
    <2>1. SliceOK(heap', d.servers, Server)
      BY <1>1, <1>9, <1>11, BusyFacts DEF ConfigOK
    <2>2. SliceOK(heap', d.rules, Rule)
      BY <1>1, <1>2, <1>6, <1>8, <1>11 DEF SliceOK, Slice
    <2> QED
      BY <1>11, <2>1, <2>2 DEF ConfigOK
  <1>15. RequestOK(heap', req'[h])
    BY <1>1, <1>13, <1>14, BusyFacts DEF RequestOK
  <1>16. DOMAIN req' = Handlers /\ \A g \in Handlers \ {h} : req'[g] = req[g]
    BY <1>1, <1>4, BusyFacts
  <1>17. Separate'
    <2>1. ASSUME NEW k \in InUse'
          PROVE  /\ \E e \in InUse : k.servers.arr = e.servers.arr
                 /\ k.rules.arr = Fresh \/ \E e \in InUse : k.rules.arr = e.rules.arr
      <3>1. k = cfg \/ k = d \/ k \in InUse
        BY <1>4, <1>13, <1>16, InUseAfter
      <3> QED
        <4>1. req[h].cfg \in InUse /\ cfg \in InUse
          BY <1>1, BusyFacts, InUseFacts
        <4>2. CASE k = d
          BY <1>11, <4>1, <4>2
        <4>3. CASE k \in InUse
          BY <4>3
        <4>4. CASE k = cfg
          BY <4>1, <4>4
        <4> QED
          BY <3>1, <4>2, <4>3, <4>4
    <2>2. up /\ Fresh \notin Live
      BY <1>1, BusyFacts
    <2> HIDE DEF s, n
    <2> QED
      BY <2>1, <2>2, SeparateRules
  <1>18. ConfigOK(heap', cfg') /\ up
    BY <1>1, <1>4, <1>9, InUseFacts, BusyFacts
  <1>19. disk' \in Document \cup {NoFile} /\ unsaved' \in 0 .. MaxUnsaved
    BY <1>1, <1>4, BusyFacts
  <1> QED
    BY <1>4, <1>8, <1>9, <1>15, <1>16, <1>17, <1>18, <1>19, HandlerMoved

LEMMA SaveConfigIInv ==
    ASSUME IInv, NEW h \in Handlers, SaveConfig(h)
    PROVE  IInv'
  <1>1. /\ Busy(h) /\ cfg' = req[h].cfg /\ req' = [req EXCEPT ![h] = Idle]
        /\ UNCHANGED <<up, heap, metrics>> /\ persist(heap, cfg')
    BY DEF SaveConfig
  <1>2. HeapOK(heap') /\ ConfigOK(heap', cfg') /\ \A c \in InUse : ConfigOK(heap', c)
    BY <1>1, InUseFacts
  <1>3. disk' \in Document \cup {NoFile} /\ unsaved' \in 0 .. MaxUnsaved
    <2>1. ConfigOK(heap, cfg') /\ \A g \in Handlers : Busy(g) => ConfigOK(heap, req[g].cfg)
      BY <1>1, InUseFacts
    <2> QED
      BY <1>1, <2>1, PersistType
  <1>4. DOMAIN req' = Handlers /\ req'[h] = Idle /\ \A g \in Handlers \ {h} : req'[g] = req[g]
    BY <1>1, BusyFacts
  <1>5. \A c \in InUse' : c \in InUse
    BY <1>1, <1>4, InUseAfter, BusyFacts
  <1>6. Separate' /\ up
    BY <1>1, <1>5, BusyFacts DEF IInv, Separate
  <1> QED
    BY <1>1, <1>2, <1>3, <1>4, <1>6, HandlerMoved

LEMMA HandlerStepIInv ==
    ASSUME IInv, NEW h \in Handlers, HandlerStep(h)
    PROVE  IInv'
  <1>1. CASE Begin(h)
    BY <1>1, BeginIInv
  <1>2. CASE BadRequest(h) \/ RuleNotFound(h)
    BY <1>2, RefusedIInv
  <1>3. CASE EditSetting(h)
    BY <1>3, EditSettingIInv
  <1>4. CASE AppendRule(h)
    BY <1>4, AppendInPlaceIInv, AppendGrownIInv
  <1>5. CASE FindRule(h)
    BY <1>5, FindRuleIInv
  <1>6. CASE PutRule(h)
    BY <1>6, PutRuleIInv
  <1>7. CASE ShiftRules(h)
    BY <1>7, ShiftRulesIInv
  <1>8. CASE SaveConfig(h)
    BY <1>8, SaveConfigIInv
  <1> QED
    BY <1>1, <1>2, <1>3, <1>4, <1>5, <1>6, <1>7, <1>8 DEF HandlerStep
-----------------------------------------------------------------------------
(* The calls under Store.mu.                                                *)

\* The store has a new configuration; no handler moved.
LEMMA StoreMoved ==
    ASSUME IInv, up, UNCHANGED <<up, req>>, HeapOK(heap'), ConfigOK(heap', cfg'),
           \A c \in InUse : ConfigOK(heap', c),
           metrics' \in SUBSET ServerIds, persist(heap', cfg'), Separate'
    PROVE  IInv'
  <1>1. \A h \in Handlers : Busy(h) => ConfigOK(heap', req[h].cfg)
    BY InUseFacts
  <1>2. disk' \in Document \cup {NoFile} /\ unsaved' \in 0 .. MaxUnsaved
    BY <1>1, PersistType
  <1>3. DOMAIN req' = Handlers /\ up' \in BOOLEAN
    BY DEF IInv, TypeOK
  <1>4. \A h \in Handlers : req'[h] # Idle => up' /\ RequestOK(heap', req'[h])
    BY <1>1, RequestKept DEF Busy
  <1> QED
    BY <1>2, <1>3, <1>4, Assemble

LEMMA StoreInUse ==
    ASSUME UNCHANGED req, NEW c \in InUse'
    PROVE  c = cfg' \/ c \in InUse
  BY DEF InUse, Busy

\* The facts about the server list the steps below start from.
LEMMA ServerFacts ==
    ASSUME IInv
    PROVE  /\ cfg \in Config /\ cfg \in InUse /\ SliceOK(heap, cfg.servers, Server)
           /\ SliceOK(heap, cfg.rules, Rule) /\ cfg.servers \in Slice /\ cfg.rules \in Slice
           /\ cfg.servers.arr \in Arrays /\ cfg.servers.len \in Nat
           /\ heap[cfg.servers.arr] \in Seq(Slot)
           /\ Len(heap[cfg.servers.arr]) \in Nat
           /\ cfg.servers.len <= Len(heap[cfg.servers.arr])
           /\ \A i \in 1 .. cfg.servers.len : heap[cfg.servers.arr][i] \in Server
           /\ metrics \in SUBSET ServerIds
  <1>1. cfg \in Config /\ cfg \in InUse /\ ConfigOK(heap, cfg) /\ HeapOK(heap)
    BY InUseFacts
  <1>2. cfg.servers \in Slice /\ cfg.rules \in Slice
    BY <1>1 DEF Config
  <1>3. cfg.servers.arr \in Arrays /\ cfg.servers.len \in Nat
    BY <1>2 DEF Slice
  <1>4. heap[cfg.servers.arr] \in Seq(Slot)
    BY <1>1, <1>3 DEF HeapOK
  <1>5. Len(heap[cfg.servers.arr]) \in Nat
    BY <1>4, LenProperties
  <1> QED
    BY <1>1, <1>2, <1>3, <1>4, <1>5 DEF ConfigOK, SliceOK, IInv, TypeOK

\* A configuration with the server slice cut or grown in its array.
LEMMA ServersResized ==
    ASSUME NEW c, NEW d, NEW n \in Nat, c \in Config, d = [c EXCEPT !.servers.len = n]
    PROVE  /\ d \in Config /\ d.servers = [arr |-> c.servers.arr, len |-> n]
           /\ d.rules = c.rules /\ d.setting = c.setting
  <1>1. c.servers \in Slice
    BY DEF Config
  <1>2. [c.servers EXCEPT !.len = n] = [arr |-> c.servers.arr, len |-> n]
    BY <1>1 DEF Slice
  <1>3. [arr |-> c.servers.arr, len |-> n] \in Slice
    BY <1>1 DEF Slice
  <1>4. d = [c EXCEPT !.servers = [arr |-> c.servers.arr, len |-> n]]
    BY <1>2
  <1> QED
    BY <1>3, <1>4 DEF Config

\* The store has written its array of servers in place.
LEMMA ServerWriteStep ==
    ASSUME IInv, up, NEW q \in Seq(Slot), NEW n \in Nat,
           UNCHANGED <<up, req>>, metrics' \in SUBSET ServerIds,
           heap' = [heap EXCEPT ![cfg.servers.arr] = q],
           Len(q) = Len(heap[cfg.servers.arr]),
           \A j \in 1 .. Len(q) : q[j] = heap[cfg.servers.arr][j] \/ q[j] \in Server,
           n <= Len(q), \A i \in 1 .. n : q[i] \in Server,
           cfg' \in Config, cfg'.rules = cfg.rules,
           cfg'.servers = [arr |-> cfg.servers.arr, len |-> n],
           persist(heap', cfg')
    PROVE  IInv'
  <1>1. HeapOK(heap)
    BY InUseFacts
  <1>2. HeapOK(heap')
    BY <1>1 DEF HeapOK
  <1>3. /\ heap'[cfg.servers.arr] = q
        /\ \A b \in Arrays \ {cfg.servers.arr} : heap'[b] = heap[b]
    BY <1>1, ServerFacts DEF HeapOK
  <1>4. \A c \in InUse : ConfigOK(heap', c)
    BY <1>3, ServerArrayWritten
  <1>5. ConfigOK(heap', cfg')
    <2>1. SliceOK(heap', cfg'.rules, Rule)
      BY <1>4, ServerFacts DEF ConfigOK
    <2>2. SliceOK(heap', cfg'.servers, Server)
      BY <1>3, ServerFacts DEF SliceOK, Slice
    <2> QED
      BY <2>1, <2>2 DEF ConfigOK
  <1>6. Separate'
    <2>1. \A c \in InUse' : \E d \in InUse : /\ c.servers.arr = d.servers.arr
                                           /\ c.rules.arr = d.rules.arr
      BY ServerFacts, StoreInUse
    <2> QED
      BY <2>1 DEF IInv, Separate
  <1> QED
    BY <1>2, <1>4, <1>5, <1>6, StoreMoved

LEMMA UpdateServerIInv ==
    ASSUME IInv, NEW srv \in Server, UpdateServer(srv)
    PROVE  IInv'
  <1> DEFINE a == cfg.servers.arr
             n == cfg.servers.len
  <1>1. PICK i \in 1 .. n : heap' = [heap EXCEPT ![a][i] = srv]
    BY DEF UpdateServer
  <1> DEFINE q == [heap[a] EXCEPT ![i] = srv]
  <1>2. i \in 1 .. Len(heap[a]) /\ srv \in Slot
    BY ServerFacts DEF Slot
  <1>3. /\ q \in Seq(Slot) /\ Len(q) = Len(heap[a])
        /\ \A j \in 1 .. Len(heap[a]) : q[j] = IF j = i THEN srv ELSE heap[a][j]
    BY <1>2, ServerFacts, SlotWritten
  <1>4. heap' = [heap EXCEPT ![a] = q]
    BY <1>1, ServerFacts
  <1> HIDE DEF q
  <1>5. /\ n <= Len(q) /\ \A j \in 1 .. n : q[j] \in Server
        /\ \A j \in 1 .. Len(q) : q[j] = heap[a][j] \/ q[j] \in Server
    BY <1>3, ServerFacts
  <1>6. up /\ UNCHANGED <<up, req, cfg>> /\ metrics' \in SUBSET ServerIds /\ persist(heap', cfg')
    BY ServerFacts DEF UpdateServer
  <1>7. cfg.servers = [arr |-> a, len |-> n] /\ n \in Nat
    BY ServerFacts DEF Slice
  <1>8. cfg' \in Config /\ cfg'.rules = cfg.rules /\ cfg'.servers = [arr |-> a, len |-> n]
    BY <1>6, <1>7, ServerFacts
  <1> QED
    BY <1>3, <1>4, <1>5, <1>6, <1>7, <1>8, ServerWriteStep

LEMMA DeleteServerIInv ==
    ASSUME IInv, NEW id \in ServerIds, DeleteServer(id)
    PROVE  IInv'
  <1> DEFINE a == cfg.servers.arr
             n == cfg.servers.len
  <1>1. PICK i \in 1 .. n : heap' = [heap EXCEPT ![a] = ShiftedArray(@, i, n)]
    BY DEF DeleteServer
  <1> DEFINE q == ShiftedArray(heap[a], i, n)
  <1>2. i \in Nat /\ 1 <= i /\ n \in Nat /\ n <= Len(heap[a]) /\ heap[a] \in Seq(Slot)
    BY ServerFacts
  <1>3. /\ q \in Seq(Slot) /\ Len(q) = Len(heap[a])
        /\ \A j \in 1 .. Len(heap[a]) :
             q[j] = IF i <= j /\ j < n THEN heap[a][j + 1] ELSE heap[a][j]
    BY <1>2, ArrayShifted
  <1>4. heap' = [heap EXCEPT ![a] = q]
    BY <1>1, ServerFacts
  <1> HIDE DEF q
  <1>5. PICK m \in Nat : m = n - 1
    BY <1>1, <1>2
  <1>6. /\ m <= Len(q) /\ \A j \in 1 .. m : q[j] \in Server
        /\ \A j \in 1 .. Len(q) : q[j] = heap[a][j] \/ q[j] \in Server
    <2>1. \A j \in 1 .. n : heap[a][j] \in Server
      BY ServerFacts
    <2>2. \A j \in 1 .. m : j \in 1 .. n /\ j + 1 \in 1 .. n /\ j \in 1 .. Len(heap[a])
      BY <1>2, <1>5, ServerFacts
    <2>3. \A j \in 1 .. Len(q) : i <= j /\ j < n => j + 1 \in 1 .. n
      BY <1>2
    <2>4. m <= Len(q)
      BY <1>2, <1>3, <1>5, ServerFacts
    <2> QED
      BY <1>3, <2>1, <2>2, <2>3, <2>4
  <1>7. /\ up /\ UNCHANGED <<up, req>> /\ metrics' \in SUBSET ServerIds
        /\ persist(heap', cfg') /\ cfg' = [cfg EXCEPT !.servers.len = n - 1]
    BY ServerFacts DEF DeleteServer
  <1>8. cfg' \in Config /\ cfg'.rules = cfg.rules /\ cfg'.servers = [arr |-> a, len |-> m]
    <2>1. cfg' = [cfg EXCEPT !.servers.len = m]
      BY <1>5, <1>7
    <2>2. PICK c, d : c = cfg /\ d = cfg'
      OBVIOUS
    <2>3. c \in Config /\ d = [c EXCEPT !.servers.len = m]
      BY <2>1, <2>2, ServerFacts
    <2>4. d \in Config /\ d.servers = [arr |-> c.servers.arr, len |-> m] /\ d.rules = c.rules
      BY <2>3, ServersResized
    <2> QED
      BY <2>2, <2>4
  <1> QED
    BY <1>3, <1>4, <1>6, <1>7, <1>8, ServerWriteStep

\* An AddServer that finds room in the array.
LEMMA AddInPlaceIInv ==
    ASSUME IInv, NEW srv \in Server, AddServer(srv),
           cfg.servers.len # Len(heap[cfg.servers.arr])
    PROVE  IInv'
  <1> DEFINE a == cfg.servers.arr
             n == cfg.servers.len
  <1>1. /\ heap' = [heap EXCEPT ![a][n + 1] = srv]
        /\ cfg' = [cfg EXCEPT !.servers.len = n + 1]
        /\ metrics' = metrics \cup {srv.id}
        /\ up /\ UNCHANGED <<up, req>> /\ persist(heap', cfg')
    BY DEF AddServer, AppendServer
  <1> DEFINE q == [heap[a] EXCEPT ![n + 1] = srv]
  <1>2. n + 1 \in 1 .. Len(heap[a]) /\ srv \in Slot
    BY ServerFacts DEF Slot
  <1>3. /\ q \in Seq(Slot) /\ Len(q) = Len(heap[a])
        /\ \A j \in 1 .. Len(heap[a]) : q[j] = IF j = n + 1 THEN srv ELSE heap[a][j]
    BY <1>2, ServerFacts, SlotWritten
  <1>4. heap' = [heap EXCEPT ![a] = q]
    BY <1>1, ServerFacts
  <1> HIDE DEF q
  <1>5. PICK m \in Nat : m = n + 1
    BY ServerFacts
  <1>6. /\ m <= Len(q) /\ \A j \in 1 .. m : q[j] \in Server
        /\ \A j \in 1 .. Len(q) : q[j] = heap[a][j] \/ q[j] \in Server
    BY <1>2, <1>3, <1>5, ServerFacts
  <1>7. cfg' \in Config /\ cfg'.rules = cfg.rules /\ cfg'.servers = [arr |-> a, len |-> m]
    <2>1. cfg' = [cfg EXCEPT !.servers.len = m]
      BY <1>1, <1>5
    <2>2. PICK c, d : c = cfg /\ d = cfg'
      OBVIOUS
    <2>3. c \in Config /\ d = [c EXCEPT !.servers.len = m]
      BY <2>1, <2>2, ServerFacts
    <2>4. d \in Config /\ d.servers = [arr |-> c.servers.arr, len |-> m] /\ d.rules = c.rules
      BY <2>3, ServersResized
    <2> QED
      BY <2>2, <2>4
  <1>8. metrics' \in SUBSET ServerIds
    BY <1>1, ServerFacts DEF Server
  <1> QED
    BY <1>1, <1>3, <1>4, <1>6, <1>7, <1>8, ServerWriteStep

\* An AddServer that finds its array full.
LEMMA AddGrownIInv ==
    ASSUME IInv, NEW srv \in Server, AddServer(srv),
           cfg.servers.len = Len(heap[cfg.servers.arr])
    PROVE  IInv'
  <1> DEFINE s == cfg.servers
             n == s.len
  <1>1. /\ Fresh \in Arrays /\ Fresh \notin Live
        /\ cfg' = [cfg EXCEPT !.servers = [arr |-> Fresh, len |-> n + 1]]
        /\ metrics' = metrics \cup {srv.id}
        /\ up /\ UNCHANGED <<up, req>> /\ persist(heap', cfg')
    BY FreshIsFree DEF AddServer, AppendServer
  <1>2. PICK c \in Capacities :
           /\ IsCapacityFor(c, n + 1)
           /\ heap' = [heap EXCEPT ![Fresh] = ArrayOf(Append(Elements(heap, s), srv), c)]
    BY DEF AddServer, AppendServer
  <1> DEFINE q == ArrayOf(Append(Elements(heap, s), srv), c)
  <1>3. q \in Seq(Slot) /\ Len(q) = c /\ n + 1 <= c /\ \A j \in 1 .. n + 1 : q[j] \in Server
    <2>1. c \in Nat /\ n + 1 <= c
      BY <1>2, ConstantsAssumption DEF IsCapacityFor
    <2>2. Server \subseteq Slot
      BY DEF Slot
    <2>3. Elements(heap, s) \in Seq(Server) /\ Len(Elements(heap, s)) = n
      BY ServerFacts, ElementsKind
    <2> QED
      BY <2>1, <2>2, <2>3, GrownArray
  <1> HIDE DEF q
  <1>4. heap' = [heap EXCEPT ![Fresh] = q]
    BY <1>2 DEF q
  <1>5. HeapOK(heap') /\ heap'[Fresh] = q /\ \A b \in Live : heap'[b] = heap[b]
    <2>1. HeapOK(heap) /\ Live \subseteq Arrays
      BY LiveArrays, InUseFacts
    <2> QED
      BY <1>1, <1>3, <1>4, <2>1 DEF HeapOK
  <1>6. \A d \in InUse : ConfigOK(heap', d)
    BY <1>5, FreshArrayWritten
  <1>7. cfg' \in Config /\ cfg'.rules = cfg.rules /\ cfg'.servers = [arr |-> Fresh, len |-> n + 1]
    <2>1. [arr |-> Fresh, len |-> n + 1] \in Slice /\ cfg \in Config
      BY <1>1, ServerFacts DEF Slice
    <2> QED
      BY <1>1, <2>1 DEF Config
  <1>8. ConfigOK(heap', cfg')
    <2>1. SliceOK(heap', cfg'.rules, Rule)
      BY <1>6, <1>7, ServerFacts DEF ConfigOK
    <2>2. SliceOK(heap', cfg'.servers, Server)
      BY <1>1, <1>3, <1>5, <1>7, ServerFacts DEF SliceOK, Slice
    <2> QED
      BY <1>7, <2>1, <2>2 DEF ConfigOK
  <1>9. Separate'
    <2>1. ASSUME NEW k \in InUse'
          PROVE  /\ k.servers.arr = Fresh \/ \E e \in InUse : k.servers.arr = e.servers.arr
                 /\ \E e \in InUse : k.rules.arr = e.rules.arr
      <3>1. k = cfg' \/ k \in InUse
        BY <1>1, StoreInUse
      <3>2. cfg'.servers.arr = Fresh /\ cfg'.rules.arr = cfg.rules.arr /\ cfg \in InUse
        BY <1>7, ServerFacts
      <3> QED
        BY <3>1, <3>2
    <2>2. up /\ Fresh \notin Live
      BY <1>1
    <2> HIDE DEF s, n
    <2> QED
      BY <2>1, <2>2, SeparateServers
  <1>10. metrics' \in SUBSET ServerIds
    BY <1>1, ServerFacts DEF Server
  <1> QED
    BY <1>1, <1>5, <1>6, <1>8, <1>9, <1>10, StoreMoved
-----------------------------------------------------------------------------
(* Documents loaded into new arrays.                                        *)

\* Loading fills two new arrays and nothing else, and the new configuration
\* is in order and reads back as the document.
LEMMA LoadFacts ==
    ASSUME HeapOK(heap), NEW doc \in Document, NEW a \in Arrays, NEW b \in Arrays,
           a # b, Load(doc, a, b)
    PROVE  /\ HeapOK(heap') /\ ConfigOK(heap', cfg')
           /\ cfg'.servers.arr = a /\ cfg'.rules.arr = b
           /\ Contents(heap', cfg') = doc
           /\ \A d \in Arrays \ {a, b} : heap'[d] = heap[d]
  <1>1. PICK c, d \in Capacities :
           /\ IsCapacityFor(c, Len(doc.servers))
           /\ IsCapacityFor(d, Len(doc.rules))
           /\ heap' = [heap EXCEPT ![a] = ArrayOf(doc.servers, c),
                                   ![b] = ArrayOf(doc.rules, d)]
           /\ cfg' = Decoded(doc, a, b)
    BY DEF Load
  <1>2. doc.servers \in Seq(Server) /\ doc.rules \in Seq(Rule) /\ doc.setting \in Settings
    BY DEF Document
  <1>3. doc.servers \in Seq(Slot) /\ doc.rules \in Seq(Slot) /\ Blank \in Slot
    BY <1>2, SeqDef, LenProperties DEF Slot
  <1>4. /\ c \in Nat /\ Len(doc.servers) <= c /\ Len(doc.servers) \in Nat
        /\ d \in Nat /\ Len(doc.rules) <= d /\ Len(doc.rules) \in Nat
    BY <1>1, <1>2, ConstantsAssumption, LenProperties DEF IsCapacityFor
  <1> DEFINE p == ArrayOf(doc.servers, c)
             q == ArrayOf(doc.rules, d)
  <1>5. /\ p \in Seq(Slot) /\ Len(p) = c
        /\ \A j \in 1 .. Len(doc.servers) : p[j] = doc.servers[j]
    BY <1>3, <1>4, ArrayMade
  <1>6. /\ q \in Seq(Slot) /\ Len(q) = d
        /\ \A j \in 1 .. Len(doc.rules) : q[j] = doc.rules[j]
    BY <1>3, <1>4, ArrayMade
  <1>7. heap' = [heap EXCEPT ![a] = p, ![b] = q]
    BY <1>1
  <1> HIDE DEF p, q
  <1>8. /\ HeapOK(heap') /\ heap'[a] = p /\ heap'[b] = q
        /\ \A e \in Arrays \ {a, b} : heap'[e] = heap[e]
    BY <1>5, <1>6, <1>7 DEF HeapOK
  <1>9. /\ cfg' \in Config
        /\ cfg'.servers = [arr |-> a, len |-> Len(doc.servers)]
        /\ cfg'.rules = [arr |-> b, len |-> Len(doc.rules)]
        /\ cfg'.setting = doc.setting
    BY <1>1, <1>2, <1>4 DEF Decoded, Config, Slice
  <1>10. SliceOK(heap', cfg'.servers, Server)
    <2>1. \A j \in 1 .. Len(doc.servers) : doc.servers[j] \in Server
      BY <1>2, ElementOfSeq
    <2> QED
      BY <1>4, <1>5, <1>8, <1>9, <2>1 DEF SliceOK, Slice
  <1>11. SliceOK(heap', cfg'.rules, Rule)
    <2>1. \A j \in 1 .. Len(doc.rules) : doc.rules[j] \in Rule
      BY <1>2, ElementOfSeq
    <2> QED
      BY <1>4, <1>6, <1>8, <1>9, <2>1 DEF SliceOK, Slice
  <1>12. Elements(heap', cfg'.servers) = doc.servers
    <2>1. doc.servers = [j \in 1 .. Len(doc.servers) |-> doc.servers[j]]
      BY <1>2, LenProperties, SeqDef
    <2>2. PICK cells : cells = heap'[cfg'.servers.arr]
      OBVIOUS
    <2>3. Elements(heap', cfg'.servers) = [j \in 1 .. Len(doc.servers) |-> cells[j]]
      BY <1>9, <2>2 DEF Elements
    <2>4. \A j \in 1 .. Len(doc.servers) : cells[j] = doc.servers[j]
      BY <1>5, <1>8, <1>9, <2>2
    <2>5. [j \in 1 .. Len(doc.servers) |-> cells[j]] = [j \in 1 .. Len(doc.servers) |-> doc.servers[j]]
      BY <2>4
    <2> QED
      BY <2>1, <2>3, <2>5
  <1>13. Elements(heap', cfg'.rules) = doc.rules
    <2>1. doc.rules = [j \in 1 .. Len(doc.rules) |-> doc.rules[j]]
      BY <1>2, LenProperties, SeqDef
    <2>2. Elements(heap', cfg'.rules) = [j \in 1 .. Len(doc.rules) |-> q[j]]
      BY <1>8, <1>9 DEF Elements
    <2>3. [j \in 1 .. Len(doc.rules) |-> q[j]] = [j \in 1 .. Len(doc.rules) |-> doc.rules[j]]
      BY <1>6
    <2> QED
      BY <2>1, <2>2, <2>3
  <1>14. Contents(heap', cfg') = doc
    BY <1>9, <1>12, <1>13 DEF Contents, Document
  <1> QED
    BY <1>8, <1>9, <1>10, <1>11, <1>14 DEF ConfigOK

\* A start: nobody serves a request yet, and the two lists are in arrays of
\* their own.
LEMMA StartIInv ==
    ASSUME IInv, ~up, NEW doc \in Document, RoomForTwo,
           Load(doc, FreshPair[1], FreshPair[2]), up' = TRUE, UNCHANGED req,
           metrics' \in SUBSET ServerIds, disk' = doc, unsaved' = 0
    PROVE  IInv' /\ disk' = Contents(heap', cfg')
  <1>1. /\ HeapOK(heap') /\ ConfigOK(heap', cfg')
        /\ cfg'.servers.arr # cfg'.rules.arr
        /\ Contents(heap', cfg') = doc
    BY FreshPairIsFree, InUseFacts, LoadFacts
  <1>2. \A h \in Handlers : req'[h] = Idle
    BY DEF IInv, Busy
  <1>3. InUse' = {cfg'}
    BY <1>2 DEF InUse, Busy
  <1>4. Separate'
    BY <1>1, <1>3 DEF Separate
  <1>5. up' \in BOOLEAN /\ disk' \in Document \cup {NoFile} /\ DOMAIN req' = Handlers
    BY DEF IInv, TypeOK
  <1>6. unsaved' \in 0 .. MaxUnsaved
    BY ConstantsAssumption
  <1>7. \A h \in Handlers : req'[h] # Idle => up' /\ RequestOK(heap', req'[h])
    BY <1>2
  <1> QED
    BY <1>1, <1>4, <1>5, <1>6, <1>7, Assemble

LEMMA NewDefaultIInv ==
    ASSUME IInv, NewDefault
    PROVE  IInv' /\ disk' = Contents(heap', cfg')
  <1>1. Default \in Document /\ metrics' \in SUBSET ServerIds
    BY ConstantsAssumption DEF NewDefault, IInv, TypeOK
  <1> QED
    BY <1>1, StartIInv DEF NewDefault

LEMMA NewFromFileIInv ==
    ASSUME IInv, NewFromFile
    PROVE  IInv' /\ disk' = Contents(heap', cfg')
  <1>1. disk \in Document
    BY DEF NewFromFile, IInv, TypeOK
  <1>2. disk.servers \in Seq(Server)
    BY <1>1 DEF Document
  <1>3. \A i \in DOMAIN disk.servers : disk.servers[i].id \in ServerIds
    <2>1. DOMAIN disk.servers = 1 .. Len(disk.servers)
      BY <1>2, LenProperties
    <2>2. \A i \in 1 .. Len(disk.servers) : disk.servers[i] \in Server
      BY <1>2, ElementOfSeq
    <2> QED
      BY <2>1, <2>2 DEF Server
  <1>4. metrics' \in SUBSET ServerIds
    BY <1>3 DEF NewFromFile, Ids
  <1> QED
    BY <1>1, <1>4, StartIInv DEF NewFromFile

LEMMA ImportIInv ==
    ASSUME IInv, NEW doc \in Backups, Import(doc)
    PROVE  IInv'
  <1>1. doc \in Document
    BY ConstantsAssumption
  <1>2. /\ up /\ UNCHANGED <<up, req, metrics>> /\ persist(heap', cfg')
        /\ FreshPair[1] \in Arrays /\ FreshPair[1] \notin Live
        /\ FreshPair[2] \in Arrays /\ FreshPair[2] \notin Live
        /\ FreshPair[1] # FreshPair[2]
        /\ Load(doc, FreshPair[1], FreshPair[2])
    BY FreshPairIsFree DEF Import
  <1>3. PICK a \in Arrays, b \in Arrays : a = FreshPair[1] /\ b = FreshPair[2]
    BY <1>2
  <1>4. /\ HeapOK(heap') /\ ConfigOK(heap', cfg')
        /\ cfg'.servers.arr = a /\ cfg'.rules.arr = b
        /\ \A d \in Arrays \ {a, b} : heap'[d] = heap[d]
    BY <1>1, <1>2, <1>3, InUseFacts, LoadFacts
  <1>5. \A c \in InUse : ConfigOK(heap', c)
    <2>1. \A d \in Live : heap'[d] = heap[d]
      BY <1>2, <1>3, <1>4, LiveArrays
    <2> QED
      BY <2>1, FreshArrayWritten
  <1>6. Separate'
    <2>1. up /\ a # b /\ a \notin Live /\ b \notin Live
      BY <1>2, <1>3
    <2>2. ASSUME NEW k \in InUse'
          PROVE  /\ k.servers.arr = a \/ \E e \in InUse : k.servers.arr = e.servers.arr
                 /\ k.rules.arr = b \/ \E e \in InUse : k.rules.arr = e.rules.arr
      <3>1. k = cfg' \/ k \in InUse
        BY <1>2, StoreInUse
      <3> QED
        BY <1>4, <3>1
    <2> QED
      BY <2>1, <2>2, SeparateKept
  <1>7. metrics' \in SUBSET ServerIds
    BY <1>2, ServerFacts
  <1> QED
    BY <1>2, <1>4, <1>5, <1>6, <1>7, StoreMoved

LEMMA CrashIInv ==
    ASSUME IInv, Crash
    PROVE  IInv'
  <1>1. Empty \in Slice /\ Empty.len = 0
    BY ConstantsAssumption DEF Empty, Slice
  <1>2. Unloaded \in Config
    BY <1>1, ConstantsAssumption DEF Unloaded, Config, Document
  <1>3. ConfigOK(heap', cfg')
    BY <1>1, <1>2, ConstantsAssumption DEF Crash, ConfigOK, SliceOK, Unloaded, Slice
  <1>4. HeapOK(heap')
    BY EmptySeq DEF Crash, HeapOK
  <1>5. \A h \in Handlers : req'[h] = Idle
    BY DEF Crash
  <1>6. up' = FALSE /\ metrics' = {} /\ DOMAIN req' = Handlers
    BY DEF Crash
  <1>7. unsaved' \in 0 .. MaxUnsaved
    <2>1. MaxUnsaved \in Nat /\ unsaved' = 0
      BY ConstantsAssumption DEF ConstantsAssumption, Crash
    <2> QED
      BY <2>1
  <1>8. disk' \in Document \cup {NoFile}
    BY DEF Crash, IInv, TypeOK
  <1>9. metrics' \in SUBSET ServerIds /\ up' \in BOOLEAN
    BY <1>6
  <1>10. \A h \in Handlers : req'[h] # Idle => up' /\ RequestOK(heap', req'[h])
    BY <1>5
  <1>11. up' => Separate'
    BY <1>6
  <1> QED
    BY <1>3, <1>4, <1>6, <1>7, <1>8, <1>9, <1>10, <1>11, Assemble

LEMMA UnchangedIInv ==
    ASSUME IInv, UNCHANGED vars
    PROVE  IInv'
  <1>1. HeapOK(heap') /\ \A c \in InUse : ConfigOK(heap', c)
    BY InUseFacts DEF vars
  <1>2. InUse' = InUse
    BY DEF vars, InUse, Busy
  <1>3. up' => Separate'
    BY <1>2 DEF vars, IInv, Separate
  <1>4. ConfigOK(heap', cfg') /\ DOMAIN req' = Handlers
    BY InUseFacts DEF vars, IInv, TypeOK
  <1>5. \A h \in Handlers : req'[h] # Idle => up' /\ RequestOK(heap', req'[h])
    BY DEF vars, IInv, TypeOK, Busy
  <1>6. /\ up' \in BOOLEAN /\ metrics' \in SUBSET ServerIds
        /\ disk' \in Document \cup {NoFile} /\ unsaved' \in 0 .. MaxUnsaved
    BY DEF vars, IInv, TypeOK
  <1> QED
    BY <1>1, <1>3, <1>4, <1>5, <1>6, Assemble

LEMMA NextIInv ==
    ASSUME IInv, [Next]_vars
    PROVE  IInv'
  <1>1. CASE NewDefault
    BY <1>1, NewDefaultIInv
  <1>2. CASE NewFromFile
    BY <1>2, NewFromFileIInv
  <1>3. CASE Crash
    BY <1>3, CrashIInv
  <1>4. CASE StoreCall
    <2>1. ASSUME NEW srv \in Server, AddServer(srv) PROVE IInv'
      BY <2>1, AddInPlaceIInv, AddGrownIInv
    <2>2. ASSUME NEW srv \in Server, UpdateServer(srv) PROVE IInv'
      BY <2>2, UpdateServerIInv
    <2>3. ASSUME NEW id \in ServerIds, DeleteServer(id) PROVE IInv'
      BY <2>3, DeleteServerIInv
    <2>4. ASSUME NEW doc \in Backups, Import(doc) PROVE IInv'
      BY <2>4, ImportIInv
    <2> QED
      BY <1>4, <2>1, <2>2, <2>3, <2>4 DEF StoreCall
  <1>5. ASSUME NEW h \in Handlers, HandlerStep(h) PROVE IInv'
    BY <1>5, HandlerStepIInv
  <1>6. CASE UNCHANGED vars
    BY <1>6, UnchangedIInv
  <1> QED
    BY <1>1, <1>2, <1>3, <1>4, <1>5, <1>6 DEF Next

\* Whatever the handlers write to the arrays they share, and however old the
\* copies they save are, no slice ever covers a slot that was never assigned,
\* leaves its array, or mixes servers with rules, and no index found by a
\* handler leaves its slice: the store and its handlers (store.go,
\* handlers.go) do not panic on their lists and never write a malformed file.
THEOREM TypeCorrect == Spec => []TypeOK
  <1>1. Init => IInv
    BY InitIInv
  <1>2. IInv /\ [Next]_vars => IInv'
    BY NextIInv
  <1>3. IInv => TypeOK
    BY DEF IInv
  <1> QED
    BY <1>1, <1>2, <1>3, PTL DEF Spec
-----------------------------------------------------------------------------
(* The file and the memory.                                                 *)

\* A write of the file that goes through while no memmove is in progress
\* leaves there what was in memory.
LEMMA QuietWrite ==
    ASSUME IInv, NEW mem, NEW c, persist(mem, c), unsaved' = 0,
           \A h \in Handlers : req[h].pc # "shift"
    PROVE  disk' = Contents(mem, c)
  <1>1. disk' \in Marshalled(mem, c)
    <2>1. unsaved \in Nat
      BY ConstantsAssumption DEF IInv, TypeOK
    <2> QED
      BY <2>1 DEF persist
  <1>2. PICK r \in Readings(mem, c.rules) :
           disk' = [servers |-> Elements(mem, c.servers), rules |-> r,
                    setting |-> c.setting]
    BY <1>1 DEF Marshalled
  <1>3. r = Elements(mem, c.rules)
    BY <1>2, QuietReading
  <1> QED
    BY <1>2, <1>3 DEF Contents

\* A store call writes the file for whatever the handlers had edited before.
LEMMA StoreCallWrites ==
    ASSUME IInv, StoreCall
    PROVE  DiskFollowsMemory'
  <1>1. UNCHANGED req /\ persist(heap', cfg')
    <2>1. ASSUME NEW srv \in Server, AddServer(srv)
          PROVE  UNCHANGED req /\ persist(heap', cfg')
      BY <2>1 DEF AddServer, AppendServer
    <2>2. ASSUME NEW srv \in Server, UpdateServer(srv)
          PROVE  UNCHANGED req /\ persist(heap', cfg')
      BY <2>2 DEF UpdateServer
    <2>3. ASSUME NEW id \in ServerIds, DeleteServer(id)
          PROVE  UNCHANGED req /\ persist(heap', cfg')
      BY <2>3 DEF DeleteServer
    <2>4. ASSUME NEW doc \in Backups, Import(doc)
          PROVE  UNCHANGED req /\ persist(heap', cfg')
      BY <2>4 DEF Import
    <2> QED
      BY <2>1, <2>2, <2>3, <2>4 DEF StoreCall
  <1>2. ASSUME unsaved' = 0, \A h \in Handlers : ~Editing(h)'
        PROVE  disk' = Contents(heap', cfg')
    <2>1. \A h \in Handlers : req[h].pc # "shift"
      BY <1>1, <1>2 DEF Editing
    <2> QED
      BY <1>1, <1>2, <2>1, QuietWrite
  <1> QED
    BY <1>2 DEF DiskFollowsMemory

\* A handler either leaves file and memory alone, or is in the middle of an
\* edit after its step, or saves.
LEMMA HandlerWrites ==
    ASSUME IInv, DiskFollowsMemory, NEW h \in Handlers, HandlerStep(h)
    PROVE  DiskFollowsMemory'
  <1>0. DOMAIN req = Handlers /\ (Busy(h) => req[h] \in Request)
    BY BusyFacts DEF IInv, TypeOK
  <1>1. CASE Begin(h) \/ BadRequest(h) \/ RuleNotFound(h)
    <2>1. UNCHANGED <<up, heap, cfg, disk, unsaved>>
      BY <1>1 DEF Begin, BadRequest, RuleNotFound
    <2>2. ~Editing(h) /\ \A g \in Handlers \ {h} : req'[g] = req[g]
      BY <1>0, <1>1 DEF Begin, BadRequest, RuleNotFound, Editing, Busy, Idle
    <2> QED
      BY <2>1, <2>2 DEF DiskFollowsMemory, Editing
  <1>2. CASE EditSetting(h) \/ AppendRule(h) \/ FindRule(h) \/ PutRule(h) \/ ShiftRules(h)
    <2>1. req'[h].pc \in {"put", "shift", "save"}
      <3>1. PICK r : r = req[h]
        OBVIOUS
      <3>2. r \in Request
        BY <1>0, <1>2, <3>1 DEF EditSetting, AppendRule, FindRule, PutRule, ShiftRules
      <3>3. CASE EditSetting(h)
        BY <1>0, <3>1, <3>2, <3>3 DEF EditSetting, Request
      <3>4. CASE AppendRule(h)
        BY <1>0, <3>1, <3>2, <3>4 DEF AppendRule, Request
      <3>5. CASE FindRule(h)
        BY <1>0, <3>1, <3>2, <3>5 DEF FindRule, Request
      <3>6. CASE PutRule(h)
        BY <1>0, <3>1, <3>2, <3>6 DEF PutRule, Request
      <3>7. CASE ShiftRules(h)
        BY <1>0, <3>1, <3>2, <3>7 DEF ShiftRules, Request
      <3> QED
        BY <1>2, <3>3, <3>4, <3>5, <3>6, <3>7
    <2> QED
      BY <2>1 DEF DiskFollowsMemory, Editing
  <1>3. CASE SaveConfig(h)
    <2>1. ASSUME unsaved' = 0, \A g \in Handlers : ~Editing(g)'
          PROVE  disk' = Contents(heap', cfg')
      <3>1. \A g \in Handlers \ {h} : req'[g] = req[g]
        BY <1>0, <1>3 DEF SaveConfig
      <3>2. \A g \in Handlers : req[g].pc # "shift"
        BY <1>3, <2>1, <3>1 DEF SaveConfig, Editing
      <3>3. persist(heap, cfg') /\ heap' = heap
        BY <1>3 DEF SaveConfig
      <3> QED
        BY <2>1, <3>2, <3>3, QuietWrite
    <2> QED
      BY <2>1 DEF DiskFollowsMemory
  <1> QED
    BY <1>1, <1>2, <1>3 DEF HandlerStep

\* Outside an edit, and unless writing fails, the file is the configuration
\* in memory: every in-place edit of a shared rule array is followed by a
\* SaveConfig of its own, so a file written in the middle of it is replaced
\* (handlers.go; "persist after every change", store.go).
THEOREM FileFollowsMemory == Spec => []DiskFollowsMemory
  <1>1. Init => IInv /\ DiskFollowsMemory
    BY InitIInv DEF Init, DiskFollowsMemory
  <1>2. ASSUME IInv, DiskFollowsMemory, [Next]_vars
        PROVE  IInv' /\ DiskFollowsMemory'
    <2>1. IInv'
      BY <1>2, NextIInv
    <2>2. CASE NewDefault
      BY <1>2, <2>1, <2>2, NewDefaultIInv DEF DiskFollowsMemory
    <2>3. CASE NewFromFile
      BY <1>2, <2>1, <2>3, NewFromFileIInv DEF DiskFollowsMemory
    <2>4. CASE Crash
      BY <2>1, <2>4 DEF Crash, DiskFollowsMemory
    <2>5. CASE StoreCall
      BY <1>2, <2>1, <2>5, StoreCallWrites
    <2>6. ASSUME NEW h \in Handlers, HandlerStep(h) PROVE DiskFollowsMemory'
      BY <1>2, <2>6, HandlerWrites
    <2>7. CASE UNCHANGED vars
      BY <1>2, <2>1, <2>7 DEF vars, DiskFollowsMemory, Editing, Contents, Elements
    <2> QED
      BY <1>2, <2>1, <2>2, <2>3, <2>4, <2>5, <2>6, <2>7 DEF Next
  <1> QED
    BY <1>1, <1>2, PTL DEF Spec
=============================================================================
