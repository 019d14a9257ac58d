---------------------------- MODULE DaemonProofs ----------------------------
(* Theorems about Daemon, for any keys, contents, capacity and bounds: the *)
(* promises of SyncLoop survive restarts, and an address is announced only *)
(* for what the kernel serves.                                             *)
EXTENDS Daemon, SyncLoopProofs

-----------------------------------------------------------------------------
(* A restart is as good as a first start, whatever it interrupts. *)

\* The informers' first list after a restart, key by key.
LEMMA RestartQueues ==
  ASSUME Restart, NEW w \in Kinds, NEW k \in Keys
  PROVE  /\ deltas'[w][k] = IF store[w][k] = Absent THEN <<>> ELSE <<[op |-> "Set", obj |-> store[w][k]]>>
         /\ cache'[w][k] = Absent /\ held'[k] = Absent /\ store' = store /\ rev' = rev
BY DEF Restart

\* A restart leaves well-typed caches, queues and loop.
LEMMA RestartType ==
  ASSUME Types, Restart
  PROVE  Types'
<1> USE SyncLoopAssumption DEF Kinds
<1>1. StoreType' /\ rev' \in Nat
  BY DEF Types, Restart, StoreType
<1>2. CacheType'
  BY DEF Restart, Typed, CacheType
<1>3. DeltasType'
  <2>1. ASSUME NEW k \in Keys
        PROVE  deltas'["svc"][k] \in Seq(Delta(ServiceObj)) /\ deltas'["ep"][k] \in Seq(Delta(EndpointsObj))
    <3>1. /\ deltas'["svc"][k] = IF store["svc"][k] = Absent THEN <<>>
                                 ELSE <<[op |-> "Set", obj |-> store["svc"][k]]>>
          /\ deltas'["ep"][k] = IF store["ep"][k] = Absent THEN <<>>
                                ELSE <<[op |-> "Set", obj |-> store["ep"][k]]>>
      BY RestartQueues
    <3>2. /\ store["svc"][k] \in ServiceObj \cup {Absent}
          /\ store["ep"][k] \in EndpointsObj \cup {Absent}
      BY TypedElement
    <3> HIDE DEF Kinds
    <3> QED
      BY <3>1, <3>2, SetDelta
  <2>2. /\ deltas' = [w \in Kinds |-> deltas'[w]]
        /\ \A w \in Kinds : deltas'[w] = [k \in Keys |-> deltas'[w][k]]
    BY DEF Restart
  <2> QED
    BY <2>1, <2>2 DEF Typed, DeltasType
<1>4. todo' \in [Kinds -> SUBSET Keys] /\ notify' \in [Kinds -> BOOLEAN]
  BY DEF Restart
<1>5. listed' \in [Kinds -> [Keys -> Vers \cup {Absent}]] /\ silent' \in [Kinds -> SUBSET Keys]
  BY DEF Restart
<1>6. made' \in BOOLEAN /\ gaveUp' \in SUBSET Keys /\ pc' \in Pcs
  BY DEF Restart, Pcs
<1>7. tokens' \in 0..ChanCap
  BY DEF Restart
<1>8. held' \in [Keys -> ServiceObj \cup {Absent}]
  BY DEF Restart
<1> QED
  BY <1>1, <1>2, <1>3, <1>4, <1>5, <1>6, <1>7, <1>8 DEF Types, StoreType, CacheType, DeltasType

\* The new process starts with empty caches and has yet to list both.
LEMMA RestartWakeup ==
  ASSUME WakeupInv, Restart
  PROVE  WakeupInv'
<1>1. Types'
  BY RestartType DEF WakeupInv
<1>2. ASSUME NEW k \in Keys PROVE StoryOf(k)'
  <2>1. /\ queue(k)' = IF store["svc"][k] = Absent THEN <<>> ELSE <<[op |-> "Set", obj |-> store["svc"][k]]>>
        /\ cache'["svc"][k] = Absent /\ store' = store
    BY RestartQueues DEF Kinds, queue
  <2> QED
    BY <2>1 DEF StoryOf, After, SameType
<1>3. ChanMade' /\ NoLostWakeup'
  BY DEF Restart, ChanMade, NoLostWakeup, WillList, Started
<1> QED
  BY <1>1, <1>2, <1>3 DEF WakeupInv, Story

\* Its caches show no address that the API server does not hold.
LEMMA RestartStatus ==
  ASSUME StatusInv, Restart
  PROVE  StatusInv'
<1>1. Types' /\ NoneHeld'
  BY RestartType, RestartQueues DEF StatusInv, NoneHeld, Kinds
<1>2. ASSUME NEW k \in Keys PROVE StatusOf(k)'
  <2>1. /\ queue(k)' = IF store["svc"][k] = Absent THEN <<>> ELSE <<[op |-> "Set", obj |-> store["svc"][k]]>>
        /\ cache'["svc"][k] = Absent /\ held'[k] = Absent /\ rev' = rev /\ store' = store
    BY RestartQueues DEF Kinds, queue
  <2>2. Known(k, store["svc"][k])
    BY DEF StatusInv, StatusOf, VersionsOf
  <2>3. CASE store["svc"][k] = Absent
    <3>1. queue(k)' = <<>> /\ Len(queue(k)') = 0
      BY <2>1, <2>3
    <3> QED
      BY <2>1, <2>3, <3>1 DEF StatusOf, VersionsOf, Known, LastOf, ShownOf
  <2>4. CASE store["svc"][k] # Absent
    <3>1. queue(k)' # <<>> /\ Len(queue(k)') = 1 /\ queue(k)'[1] = [op |-> "Set", obj |-> store["svc"][k]]
      BY <2>1, <2>4
    <3> QED
      BY <2>1, <2>2, <2>4, <3>1 DEF StatusOf, VersionsOf, Known, LastOf, ShownOf
  <2> QED
    BY <2>3, <2>4
<1> QED
  BY <1>1, <1>2 DEF StatusInv

-----------------------------------------------------------------------------
(* The inductive invariant. *)

\* An update goroutine is started only for a service that Build was given, ...
HeldIsListed ==
    pc \in {"listEp", "build", "update"} =>
        \A k \in Keys : held[k] # Absent => listed["svc"][k] # Absent

\* ... and the kernel serves what Build was given when they run.
ServesListed == pc = "update" /\ whole => kernel = listed

DaemonInv == WakeupInv /\ StatusInv /\ HeldIsListed /\ ServesListed

\* The control plane keeps this: filter marks only listed services.
LEMMA NextHeldIsListed ==
  ASSUME Types, HeldIsListed, [Next]_vars
  PROVE  HeldIsListed'
<1> USE DEF HeldIsListed, informerVars, chanVars, loopVars, LoopStep, ApiUnchanged
<1>1. CASE Environment
  BY <1>1 DEF Environment, ApiPutService, ApiPutEndpoints, OtherNodeStatus, ApiDelete, Relist
<1>2. CASE Informers
  BY <1>2 DEF Informers, maybeSync, Pop
<1>3. CASE ListServices
  <2> SUFFICES ASSUME NEW k \in Keys, held'[k] # Absent PROVE listed'["svc"][k] # Absent
    OBVIOUS
  <2>1. NeedsUpdate(cache["svc"][k])
    BY <1>3 DEF ListServices
  <2>2. listed'["svc"][k] = cache["svc"][k].ver
    BY <1>3, <2>1 DEF ListServices, NeedsUpdate, View, ServiceView, Types, Kinds
  <2>3. cache["svc"][k].ver \in Vers
    BY <2>1, TypedElement DEF NeedsUpdate, ServiceObj
  <2> QED
    BY <2>2, <2>3, SyncLoopAssumption
<1>4. CASE ListEndpoints
  BY <1>4 DEF ListEndpoints, Types, Kinds
<1>5. CASE syncing /\ ~ListServices /\ ~ListEndpoints
  BY <1>5 DEF syncing, ServicesSynced, EndpointsSynced, MakeChan, InitialSend, TakeToken, Tick, BuildReturns,
              UpdatesDone
<1>6. CASE updateSvcs
  BY <1>6 DEF updateSvcs, UpdateStatus, UpdateStatusReplyLost, StatusAccepted, UpdateTimeout, Types
<1>7. CASE UNCHANGED vars
  BY <1>7 DEF vars
<1> QED
  BY <1>1, <1>2, <1>3, <1>4, <1>5, <1>6, <1>7 DEF Next

\* Only the return of Build leads to the update of the status.
LEMMA NextServesListed ==
  ASSUME ServesListed, LoopStepWithBackend
  PROVE  ServesListed'
<1> USE DEF ServesListed, kernelVars, informerVars, chanVars, loopVars, LoopStep, ApiUnchanged
<1>1. CASE BuildReturns
  BY <1>1 DEF LoopStepWithBackend, BuildReturns, Build, Fault
<1>2. CASE ~BuildReturns
  <2>1. UNCHANGED kernelVars
    BY <1>2 DEF LoopStepWithBackend
  <2>2. pc' = "update" => pc = "update" /\ UNCHANGED listed
    <3>1. CASE Environment
      BY <3>1 DEF Environment, ApiPutService, ApiPutEndpoints, OtherNodeStatus, ApiDelete, Relist
    <3>2. CASE Informers
      BY <3>2 DEF Informers, maybeSync, Pop
    <3>3. CASE syncing
      BY <1>2, <3>3 DEF syncing, ServicesSynced, EndpointsSynced, MakeChan, InitialSend, TakeToken, Tick,
                        ListServices, ListEndpoints, UpdatesDone
    <3>4. CASE updateSvcs
      BY <3>4 DEF updateSvcs, UpdateStatus, UpdateStatusReplyLost, StatusAccepted, UpdateTimeout
    <3> QED
      BY <3>1, <3>2, <3>3, <3>4 DEF LoopStepWithBackend, Next
  <2> QED
    BY <2>1, <2>2
<1> QED
  BY <1>1, <1>2

\* The first process satisfies the invariant.
LEMMA DaemonInitInv == DaemonInit => DaemonInv
<1> SUFFICES ASSUME DaemonInit PROVE DaemonInv
  OBVIOUS
<1>1. Init => ChanMade /\ NoLostWakeup
  BY DEF Init, ChanMade, NoLostWakeup, WillList, Started
<1>2. WakeupInv /\ StatusInv
  BY <1>1, InitType, InitStory, InitStatus DEF DaemonInit, WakeupInv
<1> QED
  BY <1>2 DEF DaemonInit, Init, DaemonInv, HeldIsListed, ServesListed

\* The invariant is inductive, restarts and acts on the kernel included.
LEMMA DaemonNextInv == DaemonInv /\ [DaemonNext]_daemonVars => DaemonInv'
<1> SUFFICES ASSUME DaemonInv, [DaemonNext]_daemonVars PROVE DaemonInv'
  OBVIOUS
<1>1. CASE LoopStepWithBackend
  <2>1. WakeupInv' /\ StatusInv' /\ HeldIsListed'
    BY <1>1, NextWakeup, NextStatus, NextHeldIsListed DEF DaemonInv, LoopStepWithBackend, WakeupInv
  <2> QED
    BY <1>1, <2>1, NextServesListed DEF DaemonInv
<1>2. CASE Restart
  <2>1. HeldIsListed' /\ ServesListed'
    BY <1>2 DEF Restart, HeldIsListed, ServesListed
  <2> QED
    BY <1>2, <2>1, RestartWakeup, RestartStatus DEF DaemonInv
<1>3. CASE Interference \/ UNCHANGED daemonVars
  <2>1. UNCHANGED vars /\ (whole' => UNCHANGED kernelVars)
    BY <1>3 DEF Interference, Fault, daemonVars, kernelVars
  <2>2. WakeupInv' /\ StatusInv' /\ HeldIsListed'
    BY <2>1, NextWakeup, NextStatus, NextHeldIsListed DEF DaemonInv, WakeupInv
  <2> QED
    BY <2>1, <2>2 DEF DaemonInv, ServesListed, vars, kernelVars, loopVars
<1> QED
  BY <1>1, <1>2, <1>3 DEF DaemonNext

\* The temporal part of the specification plays no role in what follows.
LEMMA AlwaysDaemonInv == DaemonSpec => [][DaemonNext]_daemonVars /\ []DaemonInv
BY DaemonInitInv, DaemonNextInv, PTL DEF DaemonSpec

-----------------------------------------------------------------------------
(* The theorems. *)

\* No wake-up is lost across restarts either: what the caches have, and Build
\* was not given, is listed later or announced by a token.
THEOREM NoWakeupIsLostEver == DaemonSpec => []NoLostWakeup
<1>1. DaemonInv => NoLostWakeup
  BY DEF DaemonInv, WakeupInv
<1> QED
  BY <1>1, AlwaysDaemonInv, PTL

\* Nor is a service that filter() marked forgotten when the daemon dies before
\* its status was written: the new caches do not show the address.
THEOREM ShownIsWrittenEver == DaemonSpec => []ShownMeansWritten
<1>1. DaemonInv => ShownMeansWritten
  <2> SUFFICES ASSUME StatusInv, NEW k \in Keys PROVE
        deltas["svc"][k] = <<>> /\ cache["svc"][k] # Absent /\ Bind \in cache["svc"][k].ing
          => \/ store["svc"][k] # Absent /\ Bind \in store["svc"][k].ing
             \/ held[k] # Absent \/ k \in gaveUp
    BY DEF ShownMeansWritten, DaemonInv
  <2> QED
    BY DEF StatusInv, StatusOf, ShownOf, queue
<1> QED
  BY <1>1, AlwaysDaemonInv, PTL

\* This node's address gets into a status only when the kernel serves the
\* service, unless a Build failed or somebody changed the kernel since.
THEOREM AnnouncesWhatIsServed == DaemonSpec => AnnouncedWhenServed
<1>1. DaemonInv /\ [DaemonNext]_daemonVars =>
        [\A k \in Keys :
           LET old == store["svc"][k]
               new == store'["svc"][k]
           IN  old # Absent /\ new # Absent /\ Bind \in new.ing \ old.ing /\ whole
                 => kernel["svc"][k] # Absent]_daemonVars
  <2> SUFFICES ASSUME DaemonInv, DaemonNext, NEW k \in Keys,
                      store["svc"][k] # Absent, store'["svc"][k] # Absent,
                      Bind \in store'["svc"][k].ing, Bind \notin store["svc"][k].ing, whole
               PROVE  kernel["svc"][k] # Absent
    OBVIOUS
  <2>0. Types /\ store["svc"][k] \in ServiceObj
    BY TypedElement DEF DaemonInv, StatusInv
  <2>1. Next
    BY DEF DaemonNext, LoopStepWithBackend, Restart, Interference, vars
  <2>2. CASE ApiPutService(k)
    <3>1. store'["svc"][k].ing = store["svc"][k].ing
      BY <2>0, <2>2 DEF ApiPutService, Put, Commit, Types, Typed, Kinds
    <3> QED
      BY <3>1
  <2>3. CASE OtherNodeStatus(k)
    <3>1. store'["svc"][k].ing = store["svc"][k].ing \cup {OtherIP}
      BY <2>0, <2>3 DEF OtherNodeStatus, Put, Commit, Types, Typed, Kinds, ServiceObj
    <3> QED
      BY <3>1, SyncLoopAssumption
  <2>4. CASE StatusAccepted(k)
    BY <2>4 DEF StatusAccepted, DaemonInv, HeldIsListed, ServesListed
  <2>5. CASE ApiDelete("svc", k)
    BY <2>0, <2>5 DEF ApiDelete, Commit, Types, Typed, Kinds
  <2> QED
    BY <2>0, <2>1, <2>2, <2>3, <2>4, <2>5, ServiceWriters
<1> QED
  BY <1>1, AlwaysDaemonInv, PTL DEF AnnouncedWhenServed

=============================================================================
