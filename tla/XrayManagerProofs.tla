--------------------------- MODULE XrayManagerProofs ---------------------------
(* Theorems about XrayManager, for all values of its constants.             *)
EXTENDS XrayManager, TLAPS

\* The labels between Lock and Unlock.
Holding == {"config", "metrics", "stop", "build", "start", "done", "failed"}

MutualExclusion == \A p \in Callers : pc[p] \in Holding <=> mu = p

\* What a call of Apply holds at each of its steps, and that it has closed the
\* previous instance before it makes the next.
LocalsOK ==
    \A p \in Callers :
       /\ pc[p] \in {"metrics", "stop", "build", "start"} => call[p].config \in Config
       /\ pc[p] \in {"stop", "build", "start"} => call[p].pings # None
       /\ pc[p] = "start" => call[p].inst \in Live
       /\ pc[p] # "start" => call[p].inst = None
       /\ pc[p] \in {"build", "start"} => instance = None

\* main starts the loop after its own Apply.
LoopUnborn == phase = "boot" => pc["loop"] = "unborn"

\* The inductive invariant of types, of the mutex and of the instances.
IInv == TypeOK /\ MutualExclusion /\ LocalsOK /\ LoopUnborn /\ NoInstanceForgotten

\* Nothing that was started or called for is newer than the store, and what an
\* Apply works with is as new as what was started and what was asked for.
AgesOK ==
    /\ newest <= config.version
    /\ \A p \in Callers :
          /\ asked[p] <= config.version
          /\ pc[p] \in {"metrics", "stop", "build", "start"} =>
                /\ call[p].config.servers
                /\ call[p].config.version >= asked[p]
                /\ call[p].config.version >= newest
                /\ call[p].config.version <= config.version
          /\ pc[p] = "start" =>
                cores[call[p].inst] = [version |-> call[p].config.version,
                                       pings   |-> call[p].pings]

\* The inductive invariant of what is served, given IInv.
SInv == AgesOK /\ SuccessIsServed

USE XrayAssumption DEF Alive, Goto, Callers, store, manager, history
-----------------------------------------------------------------------------
(* Every step keeps IInv.                                                  *)

LEMMA LockIInv ==
    ASSUME IInv, NEW p \in Callers, Lock(p)
    PROVE  IInv'
  <1>1. TypeOK'
    BY DEF IInv, Lock, TypeOK, Config, Rendered, Labels, MutualExclusion, Holding, LocalsOK,
           Live
  <1>2. MutualExclusion'
    BY DEF IInv, Lock, TypeOK, MutualExclusion, Holding, LoopUnborn
  <1>3. LocalsOK'
    BY DEF IInv, Lock, TypeOK, MutualExclusion, Holding, LocalsOK, LoopUnborn, Live, Config,
           Rendered
  <1>4. LoopUnborn'
    BY DEF IInv, Lock, TypeOK, LoopUnborn
  <1>5. NoInstanceForgotten'
    BY DEF IInv, Lock, TypeOK, MutualExclusion, Holding, LocalsOK, Live, NoInstanceForgotten,
           Config, Rendered
  <1> QED
    BY <1>1, <1>2, <1>3, <1>4, <1>5 DEF IInv

LEMMA ReadConfigIInv ==
    ASSUME IInv, NEW p \in Callers, ReadConfig(p)
    PROVE  IInv'
  <1>1. TypeOK'
    BY DEF IInv, ReadConfig, stopLocked, TypeOK, Config, Rendered, Labels, MutualExclusion,
           Holding, LocalsOK, Live
  <1>2. MutualExclusion'
    BY DEF IInv, ReadConfig, stopLocked, TypeOK, MutualExclusion, Holding, LoopUnborn
  <1>3. LocalsOK'
    BY DEF IInv, ReadConfig, stopLocked, TypeOK, MutualExclusion, Holding, LocalsOK,
           LoopUnborn, Live, Config, Rendered
  <1>4. LoopUnborn'
    BY DEF IInv, ReadConfig, stopLocked, TypeOK, LoopUnborn
  <1>5. NoInstanceForgotten'
    BY DEF IInv, ReadConfig, stopLocked, TypeOK, MutualExclusion, Holding, LocalsOK, Live,
           NoInstanceForgotten, Config, Rendered
  <1> QED
    BY <1>1, <1>2, <1>3, <1>4, <1>5 DEF IInv

LEMMA ReadMetricsIInv ==
    ASSUME IInv, NEW p \in Callers, ReadMetrics(p)
    PROVE  IInv'
  <1>1. TypeOK'
    BY DEF IInv, ReadMetrics, TypeOK, Config, Rendered, Labels, MutualExclusion, Holding,
           LocalsOK, Live
  <1>2. MutualExclusion'
    BY DEF IInv, ReadMetrics, TypeOK, MutualExclusion, Holding, LoopUnborn
  <1>3. LocalsOK'
    BY DEF IInv, ReadMetrics, TypeOK, MutualExclusion, Holding, LocalsOK, LoopUnborn, Live,
           Config, Rendered
  <1>4. LoopUnborn'
    BY DEF IInv, ReadMetrics, TypeOK, LoopUnborn
  <1>5. NoInstanceForgotten'
    BY DEF IInv, ReadMetrics, TypeOK, MutualExclusion, Holding, LocalsOK, Live,
           NoInstanceForgotten, Config, Rendered
  <1> QED
    BY <1>1, <1>2, <1>3, <1>4, <1>5 DEF IInv

LEMMA StopPreviousIInv ==
    ASSUME IInv, NEW p \in Callers, StopPrevious(p)
    PROVE  IInv'
  <1>1. TypeOK'
    BY DEF IInv, StopPrevious, stopLocked, TypeOK, Config, Rendered, Labels, MutualExclusion,
           Holding, LocalsOK, Live
  <1>2. MutualExclusion'
    BY DEF IInv, StopPrevious, stopLocked, TypeOK, MutualExclusion, Holding, LoopUnborn
  <1>3. LocalsOK'
    BY DEF IInv, StopPrevious, stopLocked, TypeOK, MutualExclusion, Holding, LocalsOK,
           LoopUnborn, Live, Config, Rendered
  <1>4. LoopUnborn'
    BY DEF IInv, StopPrevious, stopLocked, TypeOK, LoopUnborn
  <1>5. NoInstanceForgotten'
    BY DEF IInv, StopPrevious, stopLocked, TypeOK, MutualExclusion, Holding, LocalsOK, Live,
           NoInstanceForgotten, Config, Rendered
  <1> QED
    BY <1>1, <1>2, <1>3, <1>4, <1>5 DEF IInv

LEMMA RefusedIInv ==
    ASSUME IInv, NEW p \in Callers, Refused(p)
    PROVE  IInv'
  <1>1. TypeOK'
    BY DEF IInv, Refused, TypeOK, Config, Rendered, Labels, MutualExclusion, Holding,
           LocalsOK, Live
  <1>2. MutualExclusion'
    BY DEF IInv, Refused, TypeOK, MutualExclusion, Holding, LoopUnborn
  <1>3. LocalsOK'
    BY DEF IInv, Refused, TypeOK, MutualExclusion, Holding, LocalsOK, LoopUnborn, Live,
           Config, Rendered
  <1>4. LoopUnborn'
    BY DEF IInv, Refused, TypeOK, LoopUnborn
  <1>5. NoInstanceForgotten'
    BY DEF IInv, Refused, TypeOK, MutualExclusion, Holding, LocalsOK, Live,
           NoInstanceForgotten, Config, Rendered
  <1> QED
    BY <1>1, <1>2, <1>3, <1>4, <1>5 DEF IInv

LEMMA NewIInv ==
    ASSUME IInv, NEW p \in Callers, NEW c \in Cores, New(p, c)
    PROVE  IInv'
  <1>1. TypeOK'
    BY DEF IInv, New, TypeOK, Config, Rendered, Labels, MutualExclusion, Holding, LocalsOK,
           Live
  <1>2. MutualExclusion'
    BY DEF IInv, New, TypeOK, MutualExclusion, Holding, LoopUnborn
  <1>3. LocalsOK'
    BY DEF IInv, New, TypeOK, MutualExclusion, Holding, LocalsOK, LoopUnborn, Live, Config,
           Rendered
  <1>4. LoopUnborn'
    BY DEF IInv, New, TypeOK, LoopUnborn
  <1>5. NoInstanceForgotten'
    BY DEF IInv, New, TypeOK, MutualExclusion, Holding, LocalsOK, Live, NoInstanceForgotten,
           Config, Rendered
  <1> QED
    BY <1>1, <1>2, <1>3, <1>4, <1>5 DEF IInv

LEMMA StartIInv ==
    ASSUME IInv, NEW p \in Callers, Start(p)
    PROVE  IInv'
  <1>1. TypeOK'
    BY DEF IInv, Start, TypeOK, Config, Rendered, Labels, MutualExclusion, Holding, LocalsOK,
           Live
  <1>2. MutualExclusion'
    BY DEF IInv, Start, TypeOK, MutualExclusion, Holding, LoopUnborn
  <1>3. LocalsOK'
    BY DEF IInv, Start, TypeOK, MutualExclusion, Holding, LocalsOK, LoopUnborn, Live, Config,
           Rendered
  <1>4. LoopUnborn'
    BY DEF IInv, Start, TypeOK, LoopUnborn
  <1>5. NoInstanceForgotten'
    BY DEF IInv, Start, TypeOK, MutualExclusion, Holding, LocalsOK, Live, NoInstanceForgotten,
           Config, Rendered
  <1> QED
    BY <1>1, <1>2, <1>3, <1>4, <1>5 DEF IInv

LEMMA StartFailsIInv ==
    ASSUME IInv, NEW p \in Callers, StartFails(p)
    PROVE  IInv'
  <1>1. TypeOK'
    BY DEF IInv, StartFails, TypeOK, Config, Rendered, Labels, MutualExclusion, Holding,
           LocalsOK, Live
  <1>2. MutualExclusion'
    BY DEF IInv, StartFails, TypeOK, MutualExclusion, Holding, LoopUnborn
  <1>3. LocalsOK'
    BY DEF IInv, StartFails, TypeOK, MutualExclusion, Holding, LocalsOK, LoopUnborn, Live,
           Config, Rendered
  <1>4. LoopUnborn'
    BY DEF IInv, StartFails, TypeOK, LoopUnborn
  <1>5. NoInstanceForgotten'
    BY DEF IInv, StartFails, TypeOK, MutualExclusion, Holding, LocalsOK, Live,
           NoInstanceForgotten, Config, Rendered
  <1> QED
    BY <1>1, <1>2, <1>3, <1>4, <1>5 DEF IInv

LEMMA UnlockIInv ==
    ASSUME IInv, NEW p \in Callers, Unlock(p)
    PROVE  IInv'
  <1>1. TypeOK'
    BY DEF IInv, Unlock, Nothing, TypeOK, Config, Rendered, Labels, MutualExclusion, Holding,
           LocalsOK, Live
  <1>2. MutualExclusion'
    BY DEF IInv, Unlock, Nothing, TypeOK, MutualExclusion, Holding, LoopUnborn
  <1>3. LocalsOK'
    BY DEF IInv, Unlock, Nothing, TypeOK, MutualExclusion, Holding, LocalsOK, LoopUnborn,
           Live, Config, Rendered
  <1>4. LoopUnborn'
    BY DEF IInv, Unlock, Nothing, TypeOK, LoopUnborn
  <1>5. NoInstanceForgotten'
    BY DEF IInv, Unlock, Nothing, TypeOK, MutualExclusion, Holding, LocalsOK, Live,
           NoInstanceForgotten, Config, Rendered
  <1> QED
    BY <1>1, <1>2, <1>3, <1>4, <1>5 DEF IInv

LEMMA RequestIInv ==
    ASSUME IInv, NEW h \in Handlers, Request(h)
    PROVE  IInv'
  <1>1. TypeOK'
    BY DEF IInv, Request, Accept, Edit, EditAndApply, JustApply, Answer, Edited, Call, TypeOK,
           Config, Rendered, Labels, MutualExclusion, Holding, LocalsOK, Live
  <1>2. MutualExclusion'
    BY DEF IInv, Request, Accept, Edit, EditAndApply, JustApply, Answer, Edited, Call, TypeOK,
           MutualExclusion, Holding, LoopUnborn
  <1>3. LocalsOK'
    BY DEF IInv, Request, Accept, Edit, EditAndApply, JustApply, Answer, Edited, Call, TypeOK,
           MutualExclusion, Holding, LocalsOK, LoopUnborn, Live, Config, Rendered
  <1>4. LoopUnborn'
    BY DEF IInv, Request, Accept, Edit, EditAndApply, JustApply, Answer, Edited, Call, TypeOK,
           LoopUnborn
  <1>5. NoInstanceForgotten'
    BY DEF IInv, Request, Accept, Edit, EditAndApply, JustApply, Answer, Edited, Call, TypeOK,
           MutualExclusion, Holding, LocalsOK, Live, NoInstanceForgotten, Config, Rendered
  <1> QED
    BY <1>1, <1>2, <1>3, <1>4, <1>5 DEF IInv

LEMMA BalancerIInv ==
    ASSUME IInv, Ping \/ Tick \/ LoopEnds
    PROVE  IInv'
  <1>1. TypeOK'
    BY DEF IInv, Ping, Tick, Call, LoopEnds, TypeOK, Config, Rendered, Labels,
           MutualExclusion, Holding, LocalsOK, Live
  <1>2. MutualExclusion'
    BY DEF IInv, Ping, Tick, Call, LoopEnds, TypeOK, MutualExclusion, Holding, LoopUnborn
  <1>3. LocalsOK'
    BY DEF IInv, Ping, Tick, Call, LoopEnds, TypeOK, MutualExclusion, Holding, LocalsOK,
           LoopUnborn, Live, Config, Rendered
  <1>4. LoopUnborn'
    BY DEF IInv, Ping, Tick, Call, LoopEnds, TypeOK, LoopUnborn
  <1>5. NoInstanceForgotten'
    BY DEF IInv, Ping, Tick, Call, LoopEnds, TypeOK, MutualExclusion, Holding, LocalsOK, Live,
           NoInstanceForgotten, Config, Rendered
  <1> QED
    BY <1>1, <1>2, <1>3, <1>4, <1>5 DEF IInv

LEMMA ServeIInv ==
    ASSUME IInv, Serve
    PROVE  IInv'
  <1>1. TypeOK'
    BY DEF IInv, Serve, TypeOK, Config, Rendered, Labels, MutualExclusion, Holding, LocalsOK,
           Live
  <1>2. MutualExclusion'
    BY DEF IInv, Serve, TypeOK, MutualExclusion, Holding, LoopUnborn
  <1>3. LocalsOK'
    BY DEF IInv, Serve, TypeOK, MutualExclusion, Holding, LocalsOK, LoopUnborn, Live, Config,
           Rendered
  <1>4. LoopUnborn'
    BY DEF IInv, Serve, TypeOK, LoopUnborn
  <1>5. NoInstanceForgotten'
    BY DEF IInv, Serve, TypeOK, MutualExclusion, Holding, LocalsOK, Live, NoInstanceForgotten,
           Config, Rendered
  <1> QED
    BY <1>1, <1>2, <1>3, <1>4, <1>5 DEF IInv

LEMMA StopIInv ==
    ASSUME IInv, Stop
    PROVE  IInv'
  <1>1. TypeOK'
    BY DEF IInv, Stop, stopLocked, TypeOK, Config, Rendered, Labels, MutualExclusion, Holding,
           LocalsOK, Live
  <1>2. MutualExclusion'
    BY DEF IInv, Stop, stopLocked, TypeOK, MutualExclusion, Holding, LoopUnborn
  <1>3. LocalsOK'
    BY DEF IInv, Stop, stopLocked, TypeOK, MutualExclusion, Holding, LocalsOK, LoopUnborn,
           Live, Config, Rendered
  <1>4. LoopUnborn'
    BY DEF IInv, Stop, stopLocked, TypeOK, LoopUnborn
  <1>5. NoInstanceForgotten'
    BY DEF IInv, Stop, stopLocked, TypeOK, MutualExclusion, Holding, LocalsOK, Live,
           NoInstanceForgotten, Config, Rendered
  <1> QED
    BY <1>1, <1>2, <1>3, <1>4, <1>5 DEF IInv

LEMMA MainIInv ==
    ASSUME IInv, Signal \/ Shutdown \/ Exit
    PROVE  IInv'
  <1>1. TypeOK'
    BY DEF IInv, Signal, Shutdown, Exit, TypeOK, Config, Rendered, Labels, MutualExclusion,
           Holding, LocalsOK, Live
  <1>2. MutualExclusion'
    BY DEF IInv, Signal, Shutdown, Exit, TypeOK, MutualExclusion, Holding, LoopUnborn
  <1>3. LocalsOK'
    BY DEF IInv, Signal, Shutdown, Exit, TypeOK, MutualExclusion, Holding, LocalsOK,
           LoopUnborn, Live, Config, Rendered
  <1>4. LoopUnborn'
    BY DEF IInv, Signal, Shutdown, Exit, TypeOK, LoopUnborn
  <1>5. NoInstanceForgotten'
    BY DEF IInv, Signal, Shutdown, Exit, TypeOK, MutualExclusion, Holding, LocalsOK, Live,
           NoInstanceForgotten, Config, Rendered
  <1> QED
    BY <1>1, <1>2, <1>3, <1>4, <1>5 DEF IInv

LEMMA NextIInv ==
    ASSUME IInv, [Next]_vars
    PROVE  IInv'
  <1>1. ASSUME NEW p \in Callers, Apply(p) PROVE IInv'
    <2>1. ASSUME NEW c \in Cores, New(p, c) PROVE IInv'
      BY <2>1, NewIInv
    <2> QED
      BY <1>1, <2>1, LockIInv, ReadConfigIInv, ReadMetricsIInv, StopPreviousIInv,
         RefusedIInv, StartIInv, StartFailsIInv, UnlockIInv DEF Apply
  <1>2. ASSUME NEW h \in Handlers, Request(h) PROVE IInv'
    BY <1>2, RequestIInv
  <1>3. CASE Ping \/ Tick \/ LoopEnds
    BY <1>3, BalancerIInv
  <1>4. CASE Serve
    BY <1>4, ServeIInv
  <1>5. CASE Stop
    BY <1>5, StopIInv
  <1>6. CASE Signal \/ Shutdown \/ Exit
    BY <1>6, MainIInv
  <1>7. CASE UNCHANGED vars
    BY <1>7 DEF vars, IInv, TypeOK, MutualExclusion, LocalsOK, LoopUnborn,
           NoInstanceForgotten, Live
  <1> QED
    BY <1>1, <1>2, <1>3, <1>4, <1>5, <1>6, <1>7 DEF Next

LEMMA InitIInv == Init => IInv
  <1> SUFFICES ASSUME Init PROVE IInv
    OBVIOUS
  <1>1. TypeOK
    BY DEF Init, TypeOK, Config, Rendered, Labels, Nothing
  <1> QED
    BY <1>1 DEF Init, IInv, MutualExclusion, Holding, LocalsOK, LoopUnborn, NoInstanceForgotten,
           Live, Nothing

-----------------------------------------------------------------------------
(* Every step keeps SInv.                                                  *)

LEMMA LockSInv ==
    ASSUME IInv, SInv, NEW p \in Callers, Lock(p)
    PROVE  SInv'
  <1>1. AgesOK'
    BY DEF IInv, Lock, SInv, AgesOK, TypeOK, MutualExclusion, Holding, LocalsOK, LoopUnborn,
           Live, Config, Rendered
  <1>2. SuccessIsServed'
    BY DEF IInv, Lock, SInv, AgesOK, SuccessIsServed, TypeOK, MutualExclusion, Holding,
           LocalsOK, LoopUnborn, Live, Config, Rendered
  <1> QED
    BY <1>1, <1>2 DEF SInv

LEMMA ReadConfigSInv ==
    ASSUME IInv, SInv, NEW p \in Callers, ReadConfig(p)
    PROVE  SInv'
  <1>1. AgesOK'
    <2>1. config.version \in Nat /\ newest \in Nat /\ \A q \in Callers : asked[q] \in Nat
      BY DEF IInv, TypeOK, Config
    <2>2. UNCHANGED <<config, newest, asked>>
      BY DEF ReadConfig
    <2>3. \A q \in Callers : q # p => pc'[q] = pc[q] /\ call'[q] = call[q] /\ pc[q] \notin Holding
      BY DEF IInv, TypeOK, MutualExclusion, Holding, ReadConfig
    <2>4. \A q \in Callers : asked'[q] <= config'.version
      BY <2>2 DEF SInv, AgesOK
    <2>5. /\ pc'[p] \in {"metrics", "done", "failed"}
          /\ call'[p].config = config
          /\ pc'[p] = "metrics" => config.servers
      BY DEF ReadConfig, IInv, TypeOK
    <2> QED
      BY <2>2, <2>3, <2>4, <2>5, <2>1 DEF SInv, AgesOK, Holding
  <1>2. SuccessIsServed'
    <2>1. \A q \in Callers : q # p => pc'[q] = pc[q] /\ pc[q] \notin Holding
      BY DEF IInv, TypeOK, MutualExclusion, Holding, ReadConfig
    <2>2. call'[p].config = config /\ config \in Config /\ UNCHANGED asked
      BY DEF IInv, TypeOK, ReadConfig
    <2>3. asked[p] \in Nat /\ config.version \in Nat
      BY <2>2 DEF IInv, TypeOK, Config
    <2>5. asked[p] <= config.version
      BY DEF SInv, AgesOK
    <2>4. pc'[p] = "done" => ~config.servers /\ instance' = None
      BY DEF ReadConfig, stopLocked, IInv, TypeOK
    <2> QED
      BY <2>1, <2>2, <2>3, <2>4, <2>5 DEF SuccessIsServed, Holding
  <1> QED
    BY <1>1, <1>2 DEF SInv

LEMMA ReadMetricsSInv ==
    ASSUME IInv, SInv, NEW p \in Callers, ReadMetrics(p)
    PROVE  SInv'
  <1>1. AgesOK'
    <2>1. config.version \in Nat /\ newest \in Nat /\ \A q \in Callers : asked[q] \in Nat
      BY DEF IInv, TypeOK, Config
    <2>2. UNCHANGED <<config, newest, asked>>
      BY DEF ReadMetrics
    <2>3. \A q \in Callers : q # p => pc'[q] = pc[q] /\ call'[q] = call[q] /\ pc[q] \notin Holding
      BY DEF IInv, TypeOK, MutualExclusion, Holding, ReadMetrics
    <2>4. \A q \in Callers : asked'[q] <= config'.version
      BY <2>2 DEF SInv, AgesOK
    <2>5. pc[p] = "metrics" /\ pc'[p] = "stop" /\ call'[p].config = call[p].config
      BY DEF ReadMetrics, IInv, TypeOK
    <2> QED
      BY <2>2, <2>3, <2>4, <2>5 DEF SInv, AgesOK, Holding
  <1>2. SuccessIsServed'
    BY DEF IInv, ReadMetrics, SInv, AgesOK, SuccessIsServed, TypeOK, MutualExclusion, Holding,
           LocalsOK, LoopUnborn, Live, Config, Rendered
  <1> QED
    BY <1>1, <1>2 DEF SInv

LEMMA StopPreviousSInv ==
    ASSUME IInv, SInv, NEW p \in Callers, StopPrevious(p)
    PROVE  SInv'
  <1>1. AgesOK'
    BY DEF IInv, StopPrevious, stopLocked, SInv, AgesOK, TypeOK, MutualExclusion, Holding,
           LocalsOK, LoopUnborn, Live, Config, Rendered
  <1>2. SuccessIsServed'
    BY DEF IInv, StopPrevious, stopLocked, SInv, AgesOK, SuccessIsServed, TypeOK,
           MutualExclusion, Holding, LocalsOK, LoopUnborn, Live, Config, Rendered
  <1> QED
    BY <1>1, <1>2 DEF SInv

LEMMA RefusedSInv ==
    ASSUME IInv, SInv, NEW p \in Callers, Refused(p)
    PROVE  SInv'
  <1>1. AgesOK'
    BY DEF IInv, Refused, SInv, AgesOK, TypeOK, MutualExclusion, Holding, LocalsOK,
           LoopUnborn, Live, Config, Rendered
  <1>2. SuccessIsServed'
    BY DEF IInv, Refused, SInv, AgesOK, SuccessIsServed, TypeOK, MutualExclusion, Holding,
           LocalsOK, LoopUnborn, Live, Config, Rendered
  <1> QED
    BY <1>1, <1>2 DEF SInv

LEMMA NewSInv ==
    ASSUME IInv, SInv, NEW p \in Callers, NEW c \in Cores, New(p, c)
    PROVE  SInv'
  <1>1. AgesOK'
    <2>1. /\ pc[p] = "build" /\ call'[p].inst = c /\ call'[p].config = call[p].config
          /\ cores'[c] = [version |-> call[p].config.version, pings |-> call[p].pings]
          /\ call'[p].pings = call[p].pings
      BY DEF New, IInv, TypeOK
    <2>2. \A q \in Callers : q # p => pc'[q] = pc[q] /\ pc[q] \notin Holding
      BY DEF New, IInv, TypeOK, MutualExclusion, Holding
    <2>3. UNCHANGED <<config, newest, asked>>
      BY DEF New
    <2>4. /\ call[p].config.servers
          /\ call[p].config.version >= asked[p]
          /\ call[p].config.version >= newest
          /\ call[p].config.version <= config.version
      BY <2>1 DEF SInv, AgesOK
    <2>5. \A q \in Callers : pc'[q] \in {"metrics", "stop", "build", "start"} => q = p
      BY <2>2 DEF Holding
    <2>6. newest' <= config'.version /\ \A q \in Callers : asked'[q] <= config'.version
      BY <2>3 DEF SInv, AgesOK
    <2> QED
      BY <2>1, <2>3, <2>4, <2>5, <2>6 DEF AgesOK
  <1>2. SuccessIsServed'
    BY DEF IInv, New, SInv, AgesOK, SuccessIsServed, TypeOK, MutualExclusion, Holding,
           LocalsOK, LoopUnborn, Live, Config, Rendered
  <1> QED
    BY <1>1, <1>2 DEF SInv

LEMMA StartSInv ==
    ASSUME IInv, SInv, NEW p \in Callers, Start(p)
    PROVE  SInv'
  <1>1. AgesOK'
    <2>1. \A q \in Callers : /\ pc[q] \in {"metrics", "stop", "build", "start"} => q = p
                             /\ q # p => pc'[q] = pc[q]
      BY DEF Start, IInv, TypeOK, MutualExclusion, Holding
    <2>2. pc'[p] = "done" /\ UNCHANGED <<config, asked>>
      BY DEF Start, IInv, TypeOK
    <2>3. newest' \in {newest, cores[call[p].inst].version}
      BY DEF Start
    <2>4. cores[call[p].inst] = [version |-> call[p].config.version, pings |-> call[p].pings]
      BY DEF Start, SInv, AgesOK
    <2>5. call[p].config.version <= config.version
      BY DEF Start, SInv, AgesOK
    <2>6. newest' <= config'.version
      BY <2>2, <2>3, <2>4, <2>5 DEF SInv, AgesOK
    <2>7. \A q \in Callers : pc'[q] \notin {"metrics", "stop", "build", "start"}
      BY <2>1, <2>2
    <2>8. \A q \in Callers : asked'[q] <= config'.version
      BY <2>2 DEF SInv, AgesOK
    <2> QED
      BY <2>6, <2>7, <2>8 DEF AgesOK
  <1>2. SuccessIsServed'
    BY DEF IInv, Start, SInv, AgesOK, SuccessIsServed, TypeOK, MutualExclusion, Holding,
           LocalsOK, LoopUnborn, Live, Config, Rendered
  <1> QED
    BY <1>1, <1>2 DEF SInv

LEMMA StartFailsSInv ==
    ASSUME IInv, SInv, NEW p \in Callers, StartFails(p)
    PROVE  SInv'
  <1>1. AgesOK'
    <2>1. pc'[p] = "failed" /\ UNCHANGED <<config, newest, asked>>
      BY DEF StartFails, IInv, TypeOK
    <2>2. \A q \in Callers : pc'[q] \notin {"metrics", "stop", "build", "start"}
      BY <2>1 DEF StartFails, IInv, TypeOK, MutualExclusion, Holding
    <2>3. newest' <= config'.version /\ \A q \in Callers : asked'[q] <= config'.version
      BY <2>1 DEF SInv, AgesOK
    <2> QED
      BY <2>2, <2>3 DEF AgesOK
  <1>2. SuccessIsServed'
    BY DEF IInv, StartFails, SInv, AgesOK, SuccessIsServed, TypeOK, MutualExclusion, Holding,
           LocalsOK, LoopUnborn, Live, Config, Rendered
  <1> QED
    BY <1>1, <1>2 DEF SInv

LEMMA UnlockSInv ==
    ASSUME IInv, SInv, NEW p \in Callers, Unlock(p)
    PROVE  SInv'
  <1>1. AgesOK'
    BY DEF IInv, Unlock, Nothing, SInv, AgesOK, TypeOK, MutualExclusion, Holding, LocalsOK,
           LoopUnborn, Live, Config, Rendered
  <1>2. SuccessIsServed'
    BY DEF IInv, Unlock, Nothing, SInv, AgesOK, SuccessIsServed, TypeOK, MutualExclusion,
           Holding, LocalsOK, LoopUnborn, Live, Config, Rendered
  <1> QED
    BY <1>1, <1>2 DEF SInv

LEMMA RequestSInv ==
    ASSUME IInv, SInv, NEW h \in Handlers, Request(h)
    PROVE  SInv'
  <1>1. AgesOK'
    <2>1. config.version \in Nat /\ newest \in Nat /\ \A q \in Callers : asked[q] \in Nat
      BY DEF IInv, TypeOK, Config
    <2>2. config' = config \/ config'.version = config.version + 1
      BY DEF Request, Accept, Edit, EditAndApply, JustApply, Answer, Edited
    <2>3. config'.version >= config.version /\ config'.version \in Nat
      BY <2>1, <2>2
    <2>4. UNCHANGED <<call, cores, newest>>
      BY DEF Request, Accept, Edit, EditAndApply, JustApply, Answer
    <2>5. \A q \in Callers : asked'[q] \in {asked[q], config'.version}
      BY DEF Request, Accept, Edit, EditAndApply, JustApply, Answer, Call, IInv, TypeOK
    <2>6. \A q \in Callers : pc'[q] \in Holding => pc'[q] = pc[q] /\ asked'[q] = asked[q]
      BY DEF Request, Accept, Edit, EditAndApply, JustApply, Answer, Call, IInv, TypeOK, Holding
    <2>7. \A q \in Callers : pc[q] \in {"metrics", "stop", "build", "start"} =>
                               call[q].config.version \in Nat
      BY DEF IInv, LocalsOK, Config
    <2>8. newest <= config.version /\ \A q \in Callers : asked[q] <= config.version
      BY DEF SInv, AgesOK
    <2>9. newest' <= config'.version
      BY <2>1, <2>3, <2>4, <2>8
    <2>10. ASSUME NEW q \in Callers PROVE asked'[q] <= config'.version
      <3>1. asked[q] <= config'.version
        BY <2>1, <2>3, <2>8
      <3> QED
        BY <2>3, <2>5, <3>1
    <2> QED
      BY <2>1, <2>3, <2>4, <2>6, <2>7, <2>9, <2>10 DEF SInv, AgesOK, Holding
  <1>2. SuccessIsServed'
    <2>1. UNCHANGED <<call, cores, instance>>
      BY DEF Request, Accept, Edit, EditAndApply, JustApply, Answer
    <2>2. \A q \in Callers : pc'[q] = "done" => pc[q] = "done" /\ asked'[q] = asked[q]
      BY DEF Request, Accept, Edit, EditAndApply, JustApply, Answer, Call, IInv, TypeOK
    <2> QED
      BY <2>1, <2>2 DEF SInv, SuccessIsServed
  <1> QED
    BY <1>1, <1>2 DEF SInv

LEMMA BalancerSInv ==
    ASSUME IInv, SInv, Ping \/ Tick \/ LoopEnds
    PROVE  SInv'
  <1>1. AgesOK'
    <2>1. UNCHANGED <<config, newest, call, cores>> /\ config.version \in Nat
      BY DEF Ping, Tick, LoopEnds, IInv, TypeOK, Config
    <2>2. \A q \in Callers : pc'[q] \in Holding => pc'[q] = pc[q] /\ asked'[q] = asked[q]
      BY DEF Ping, Tick, Call, LoopEnds, IInv, TypeOK, Holding
    <2>3. \A q \in Callers : asked'[q] \in {asked[q], config.version}
      BY DEF Ping, Tick, Call, LoopEnds, IInv, TypeOK
    <2>4. newest <= config.version /\ \A q \in Callers : asked[q] <= config.version
      BY DEF SInv, AgesOK
    <2>5. \A q \in Callers : asked'[q] <= config.version
      BY <2>1, <2>3, <2>4
    <2> QED
      BY <2>1, <2>2, <2>4, <2>5 DEF SInv, AgesOK, Holding
  <1>2. SuccessIsServed'
    BY DEF IInv, Ping, Tick, Call, LoopEnds, SInv, AgesOK, SuccessIsServed, TypeOK,
           MutualExclusion, Holding, LocalsOK, LoopUnborn, Live, Config, Rendered
  <1> QED
    BY <1>1, <1>2 DEF SInv

LEMMA ServeSInv ==
    ASSUME IInv, SInv, Serve
    PROVE  SInv'
  <1>1. AgesOK'
    BY DEF IInv, Serve, SInv, AgesOK, TypeOK, MutualExclusion, Holding, LocalsOK, LoopUnborn,
           Live, Config, Rendered
  <1>2. SuccessIsServed'
    BY DEF IInv, Serve, SInv, AgesOK, SuccessIsServed, TypeOK, MutualExclusion, Holding,
           LocalsOK, LoopUnborn, Live, Config, Rendered
  <1> QED
    BY <1>1, <1>2 DEF SInv

LEMMA StopSInv ==
    ASSUME IInv, SInv, Stop
    PROVE  SInv'
  <1>1. AgesOK'
    BY DEF IInv, Stop, stopLocked, SInv, AgesOK, TypeOK, MutualExclusion, Holding, LocalsOK,
           LoopUnborn, Live, Config, Rendered
  <1>2. SuccessIsServed'
    BY DEF IInv, Stop, stopLocked, SInv, AgesOK, SuccessIsServed, TypeOK, MutualExclusion,
           Holding, LocalsOK, LoopUnborn, Live, Config, Rendered
  <1> QED
    BY <1>1, <1>2 DEF SInv

LEMMA MainSInv ==
    ASSUME IInv, SInv, Signal \/ Shutdown \/ Exit
    PROVE  SInv'
  <1>1. AgesOK'
    BY DEF Signal, Shutdown, Exit, SInv, AgesOK
  <1>2. SuccessIsServed'
    BY DEF Signal, Shutdown, Exit, SInv, SuccessIsServed
  <1> QED
    BY <1>1, <1>2 DEF SInv

LEMMA NextSInv ==
    ASSUME IInv, SInv, [Next]_vars
    PROVE  SInv'
  <1>1. ASSUME NEW p \in Callers, Apply(p) PROVE SInv'
    <2>1. ASSUME NEW c \in Cores, New(p, c) PROVE SInv'
      BY <2>1, NewSInv
    <2> QED
      BY <1>1, <2>1, LockSInv, ReadConfigSInv, ReadMetricsSInv, StopPreviousSInv,
         RefusedSInv, StartSInv, StartFailsSInv, UnlockSInv DEF Apply
  <1>2. ASSUME NEW h \in Handlers, Request(h) PROVE SInv'
    BY <1>2, RequestSInv
  <1>3. CASE Ping \/ Tick \/ LoopEnds
    BY <1>3, BalancerSInv
  <1>4. CASE Serve
    BY <1>4, ServeSInv
  <1>5. CASE Stop
    BY <1>5, StopSInv
  <1>6. CASE Signal \/ Shutdown \/ Exit
    BY <1>6, MainSInv
  <1>7. CASE UNCHANGED vars
    BY <1>7 DEF vars, SInv, AgesOK, SuccessIsServed
  <1> QED
    BY <1>1, <1>2, <1>3, <1>4, <1>5, <1>6, <1>7 DEF Next

LEMMA InitSInv == Init => SInv
  <1> SUFFICES ASSUME Init PROVE SInv
    OBVIOUS
  <1>1. config.version = 0 /\ newest = 0 /\ \A p \in Callers : asked[p] = 0
    BY DEF Init
  <1>2. \A p \in Callers : pc[p] \in {"lock", "unborn", "idle"}
    BY DEF Init
  <1> QED
    BY <1>1, <1>2 DEF SInv, AgesOK, SuccessIsServed

-----------------------------------------------------------------------------
LEMMA Invariants == Spec => [](IInv /\ SInv)
  <1>1. Init => IInv /\ SInv
    BY InitIInv, InitSInv
  <1>2. IInv /\ SInv /\ [Next]_vars => IInv' /\ SInv'
    BY NextIInv, NextSInv
  <1> QED
    BY <1>1, <1>2, PTL DEF Spec

\* Types, and Manager.instance never points to an instance that was closed
\* (manager_xray.go, stopLocked and Apply).
THEOREM ManagerTypes == Spec => []TypeOK
  <1>1. IInv => TypeOK
    BY DEF IInv
  <1> QED
    BY <1>1, Invariants, PTL

\* No instance that holds ports is forgotten, whichever step of Apply fails
\* (manager_xray.go: stop before start, Close after a failed Start).
THEOREM NoneForgotten == Spec => []NoInstanceForgotten
  <1>1. IInv => NoInstanceForgotten
    BY DEF IInv
  <1> QED
    BY <1>1, Invariants, PTL

\* When Apply succeeds, what runs is at least as new as what its caller saved
\* (handlers.go relies on it after AddServer and SaveConfig).
THEOREM Served == Spec => []SuccessIsServed
  <1>1. SInv => SuccessIsServed
    BY DEF SInv
  <1> QED
    BY <1>1, Invariants, PTL

\* A configuration never takes the place of a newer one, for any number of
\* overlapping calls (Store.Config is read under Manager.mu).
THEOREM AgesGrow == Spec => NeverOlder
  <1>1. ASSUME IInv, SInv, [Next]_vars
        PROVE  instance' \notin {instance, None} => cores'[instance'].version >= newest
    <2> SUFFICES ASSUME instance' \notin {instance, None}
                 PROVE  cores'[instance'].version >= newest
      OBVIOUS
    <2>1. PICK p \in Callers : Start(p)
      BY <1>1 DEF Next, Apply, Lock, ReadConfig, ReadMetrics, StopPrevious, Refused, New,
             StartFails, Unlock, Request, Accept, Edit, EditAndApply, JustApply, Answer, Ping,
             Tick, LoopEnds, Serve, Signal, Stop, Shutdown, Exit, stopLocked, vars
    <2>2. pc[p] = "start" /\ instance' = call[p].inst /\ cores' = cores
      BY <2>1 DEF Start
    <2>3. cores[call[p].inst] = [version |-> call[p].config.version, pings |-> call[p].pings]
      BY <1>1, <2>2 DEF SInv, AgesOK
    <2>4. call[p].config.version >= newest
      BY <1>1, <2>2 DEF SInv, AgesOK
    <2> QED
      BY <2>2, <2>3, <2>4
  <1> QED
    BY <1>1, Invariants, PTL DEF Spec, NeverOlder

\* Stop leaves no instance from before it, even one an Apply was starting
\* (manager_xray.go: Stop takes the mutex; main.go calls it first).
THEOREM StopCompletes == Spec => []StopIsComplete
  <1>1. Init => StopIsComplete
    BY DEF Init, StopIsComplete
  <1>2. ASSUME IInv, StopIsComplete, [Next]_vars
        PROVE  StopIsComplete'
    <2>1. CASE Stop
      <3>1. mu \notin Callers /\ instance' = None /\ Live \subseteq {instance}
        BY <1>2, <2>1 DEF Stop, stopLocked, IInv, TypeOK, NoInstanceForgotten, Live
      <3> QED
        BY <1>2, <2>1, <3>1 DEF Stop, stopLocked, StopIsComplete, Live, IInv, TypeOK
    <2>2. ASSUME NEW p \in Callers, NEW c \in Cores, New(p, c)
          PROVE  StopIsComplete'
      BY <1>2, <2>2 DEF New, StopIsComplete, Live, IInv, TypeOK, LocalsOK, MutualExclusion,
             Holding, NoInstanceForgotten
    <2>3. ASSUME NEW p \in Callers, Apply(p), \A c \in Cores : ~New(p, c)
          PROVE  StopIsComplete'
      BY <1>2, <2>3 DEF Apply, Lock, ReadConfig, ReadMetrics, StopPrevious, Refused, Start,
             StartFails, Unlock, stopLocked, StopIsComplete, Live, IInv, TypeOK
    <2>4. CASE (\E h \in Handlers : Request(h)) \/ Ping \/ Tick \/ LoopEnds
      BY <1>2, <2>4 DEF Request, Accept, Edit, EditAndApply, JustApply, Answer, Ping, Tick,
             LoopEnds, StopIsComplete, Live
    <2>5. CASE Serve \/ Signal \/ Shutdown \/ Exit \/ UNCHANGED vars
      BY <1>2, <2>5 DEF Serve, Signal, Shutdown, Exit, vars, StopIsComplete, Live
    <2> QED
      BY <1>2, <2>1, <2>2, <2>3, <2>4, <2>5 DEF Next
  <1> QED
    BY <1>1, <1>2, Invariants, PTL DEF Spec
=============================================================================
