--------------------------- MODULE SyncLoopProofs ---------------------------
(* Theorems about SyncLoop, for any keys, contents, capacity and bounds. *)
EXTENDS SyncLoop, TLAPS

\* Changing one object of a store, cache or queue keeps it well typed.
LEMMA TypedExcept ==
  ASSUME NEW S, NEW E, NEW f, Typed(f, S, E), NEW w \in Kinds, NEW k \in Keys, NEW x,
         w = "svc" => x \in S, w = "ep" => x \in E
  PROVE  Typed([f EXCEPT ![w][k] = x], S, E)
BY DEF Typed, Kinds

\* Replacing all objects of one kind, as a relist does, keeps it well typed.
LEMMA TypedRow ==
  ASSUME NEW S, NEW E, NEW f, Typed(f, S, E), NEW w \in Kinds, NEW g,
         w = "svc" => g \in [Keys -> S], w = "ep" => g \in [Keys -> E]
  PROVE  Typed([f EXCEPT ![w] = g], S, E)
BY DEF Typed, Kinds

\* The event of a write is a well-typed change, also as a queue of one.
LEMMA SetDelta ==
  ASSUME NEW Obj, NEW o \in Obj
  PROVE  [op |-> "Set", obj |-> o] \in Delta(Obj) /\ <<[op |-> "Set", obj |-> o]>> \in Seq(Delta(Obj))
<1>1. [op |-> "Set", obj |-> o] \in Delta(Obj)
  BY DEF Delta
<1> QED
  BY <1>1

\* The state after startWatcher() is well typed.
LEMMA InitType == Init => Types
<1> SUFFICES ASSUME Init PROVE Types
  OBVIOUS
<1> USE SyncLoopAssumption DEF Kinds
<1>1. Typed(store, ServiceObj \cup {Absent}, EndpointsObj \cup {Absent})
  <2>1. PICK s \in [Keys -> InitialServices \cup {Absent}],
             e \in [Keys -> InitialEndpoints \cup {Absent}] :
             store = [w \in Kinds |-> IF w = "svc" THEN s ELSE e]
    BY DEF Init
  <2>2. InitialServices \subseteq ServiceObj /\ InitialEndpoints \subseteq EndpointsObj
    BY DEF InitialServices, InitialEndpoints, ServiceObj, EndpointsObj, IPs
  <2> QED
    BY <2>1, <2>2 DEF Typed
<1>2. Typed(cache, ServiceObj \cup {Absent}, EndpointsObj \cup {Absent})
  BY DEF Init, Typed
<1>3. Typed(deltas, Seq(Delta(ServiceObj)), Seq(Delta(EndpointsObj)))
  <2>1. ASSUME NEW k \in Keys
        PROVE  deltas["svc"][k] \in Seq(Delta(ServiceObj)) /\ deltas["ep"][k] \in Seq(Delta(EndpointsObj))
    <3>1. /\ deltas["svc"][k] = IF store["svc"][k] = Absent THEN <<>>
                                ELSE <<[op |-> "Set", obj |-> store["svc"][k]]>>
          /\ deltas["ep"][k] = IF store["ep"][k] = Absent THEN <<>>
                               ELSE <<[op |-> "Set", obj |-> store["ep"][k]]>>
      BY DEF Init
    <3>2. /\ store["svc"][k] \in ServiceObj \cup {Absent}
          /\ store["ep"][k] \in EndpointsObj \cup {Absent}
      BY <1>1 DEF Typed
    <3> QED
      BY <3>1, <3>2, SetDelta
  <2>2. /\ deltas = [w \in Kinds |-> deltas[w]]
        /\ \A w \in Kinds : deltas[w] = [k \in Keys |-> deltas[w][k]]
    BY DEF Init
  <2> QED
    BY <2>1, <2>2 DEF Typed
<1>4. todo \in [Kinds -> SUBSET Keys] /\ notify \in [Kinds -> BOOLEAN]
  BY DEF Init
<1>5. listed \in [Kinds -> [Keys -> Vers \cup {Absent}]] /\ silent \in [Kinds -> SUBSET Keys]
  BY DEF Init
<1>6. rev \in Nat /\ made \in BOOLEAN /\ gaveUp \in SUBSET Keys /\ pc \in Pcs
  BY DEF Init, Pcs
<1>7. tokens \in 0..ChanCap
  BY DEF Init
<1>8. held \in [Keys -> ServiceObj \cup {Absent}]
  BY DEF Init
<1> QED
  BY <1>1, <1>2, <1>3, <1>4, <1>5, <1>6, <1>7, <1>8 DEF Types

StoreType == Typed(store, ServiceObj \cup {Absent}, EndpointsObj \cup {Absent})
CacheType == Typed(cache, ServiceObj \cup {Absent}, EndpointsObj \cup {Absent})
DeltasType == Typed(deltas, Seq(Delta(ServiceObj)), Seq(Delta(EndpointsObj)))

\* What the type invariant says of one key.
LEMMA TypedElement ==
  ASSUME Types, NEW k \in Keys
  PROVE  /\ store["svc"][k] \in ServiceObj \cup {Absent}
         /\ store["ep"][k] \in EndpointsObj \cup {Absent}
         /\ cache["svc"][k] \in ServiceObj \cup {Absent}
         /\ cache["ep"][k] \in EndpointsObj \cup {Absent}
         /\ deltas["svc"][k] \in Seq(Delta(ServiceObj))
         /\ deltas["ep"][k] \in Seq(Delta(EndpointsObj))
BY DEF Types, Typed

\* A status write yields a service object again.
LEMMA StatusRecord ==
  ASSUME NEW c \in ServiceObj, NEW i \in SUBSET IPs, NEW r \in Nat
  PROVE  [c EXCEPT !.ing = i, !.rv = r] \in ServiceObj
BY DEF ServiceObj

\* A committed write keeps the API server and the event queues well typed.
LEMMA CommitType ==
  ASSUME Types, NEW w \in Kinds, NEW k \in Keys, NEW o, NEW d,
         w = "svc" => o \in ServiceObj \cup {Absent} /\ d \in Delta(ServiceObj),
         w = "ep" => o \in EndpointsObj \cup {Absent} /\ d \in Delta(EndpointsObj),
         Commit(w, k, o, d)
  PROVE  rev' \in Nat /\ StoreType' /\ DeltasType'
<1>1. rev' \in Nat
  BY DEF Types, Commit
<1>2. StoreType'
  BY TypedExcept DEF Types, Commit, StoreType
<1>3. DeltasType'
  <2>1. /\ w = "svc" => Append(deltas[w][k], d) \in Seq(Delta(ServiceObj))
        /\ w = "ep" => Append(deltas[w][k], d) \in Seq(Delta(EndpointsObj))
    BY TypedElement
  <2>2. deltas' = [deltas EXCEPT ![w][k] = Append(deltas[w][k], d)]
    BY DEF Commit, Types, Typed
  <2> QED
    BY <2>1, <2>2, TypedExcept DEF Types, DeltasType
<1> QED
  BY <1>1, <1>2, <1>3

\* Writes by others and relists keep the types.
LEMMA EnvironmentType == Types /\ Environment => Types'
<1> SUFFICES ASSUME Types, Environment PROVE Types'
  OBVIOUS
<1>1. ASSUME NEW k \in Keys, ApiPutService(k) PROVE Types'
  <2>1. PICK b \in BOOLEAN, v \in Vers, i \in SUBSET IPs :
           Put("svc", k, [lb |-> b, ver |-> v, rv |-> rev + 1, ing |-> i])
    BY <1>1, TypedElement DEF ApiPutService, ServiceObj
  <2>2. [lb |-> b, ver |-> v, rv |-> rev + 1, ing |-> i] \in ServiceObj
    BY DEF ServiceObj, Types
  <2>3. rev' \in Nat /\ StoreType' /\ DeltasType'
    BY <2>1, <2>2, SetDelta, CommitType DEF Put, Kinds
  <2> QED
    BY <2>3, <1>1 DEF Types, StoreType, DeltasType, ApiPutService, ApiUnchanged, chanVars, loopVars
<1>2. ASSUME NEW k \in Keys, ApiPutEndpoints(k) PROVE Types'
  <2>1. PICK v \in Vers : Put("ep", k, [ver |-> v, rv |-> rev + 1])
    BY <1>2 DEF ApiPutEndpoints
  <2>2. [ver |-> v, rv |-> rev + 1] \in EndpointsObj
    BY DEF EndpointsObj, Types
  <2>3. rev' \in Nat /\ StoreType' /\ DeltasType'
    BY <2>1, <2>2, SetDelta, CommitType DEF Put, Kinds
  <2> QED
    BY <2>3, <1>2 DEF Types, StoreType, DeltasType, ApiPutEndpoints, ApiUnchanged, chanVars, loopVars
<1>3. ASSUME NEW k \in Keys, OtherNodeStatus(k) PROVE Types'
  <2> DEFINE o == [store["svc"][k] EXCEPT !.ing = @ \cup {OtherIP}, !.rv = rev + 1]
  <2>1. Put("svc", k, o) /\ store["svc"][k] \in ServiceObj
    BY <1>3, TypedElement DEF OtherNodeStatus
  <2>2. o \in ServiceObj
    <3>1. store["svc"][k].ing \cup {OtherIP} \in SUBSET IPs /\ rev + 1 \in Nat
      BY <2>1 DEF ServiceObj, Types, IPs
    <3> QED
      BY <2>1, <3>1, StatusRecord
  <2>3. rev' \in Nat /\ StoreType' /\ DeltasType'
    BY <2>1, <2>2, SetDelta, CommitType DEF Put, Kinds
  <2> QED
    BY <2>3, <1>3 DEF Types, StoreType, DeltasType, OtherNodeStatus, ApiUnchanged, chanVars, loopVars
<1>4. ASSUME NEW w \in Kinds, NEW k \in Keys, ApiDelete(w, k) PROVE Types'
  <2>1. /\ w = "svc" => [op |-> "Deleted", obj |-> store[w][k]] \in Delta(ServiceObj)
        /\ w = "ep" => [op |-> "Deleted", obj |-> store[w][k]] \in Delta(EndpointsObj)
    BY <1>4, TypedElement DEF ApiDelete, Delta
  <2>2. rev' \in Nat /\ StoreType' /\ DeltasType'
    BY <1>4, <2>1, CommitType DEF ApiDelete
  <2> QED
    BY <2>2, <1>4 DEF Types, StoreType, DeltasType, ApiDelete, ApiUnchanged, chanVars, loopVars
<1>5. ASSUME NEW w \in Kinds, Relist(w) PROVE Types'
  <2> DEFINE q(k) == IF store[w][k] # Absent
                       THEN <<[op |-> "Set", obj |-> store[w][k]]>>
                       ELSE IF cache[w][k] # Absent
                         THEN <<[op |-> "Lost", obj |-> cache[w][k]]>>
                         ELSE <<>>
  <2>1. deltas' = [deltas EXCEPT ![w] = [k \in Keys |-> q(k)]]
    BY <1>5 DEF Relist
  <2>2. ASSUME NEW k \in Keys
        PROVE  /\ w = "svc" => q(k) \in Seq(Delta(ServiceObj))
               /\ w = "ep" => q(k) \in Seq(Delta(EndpointsObj))
    <3>1. CASE store[w][k] # Absent
      BY <3>1, SetDelta, TypedElement
    <3>2. CASE store[w][k] = Absent /\ cache[w][k] # Absent
      <4>1. /\ w = "svc" => [op |-> "Lost", obj |-> cache[w][k]] \in Delta(ServiceObj)
            /\ w = "ep" => [op |-> "Lost", obj |-> cache[w][k]] \in Delta(EndpointsObj)
        BY <3>2, TypedElement DEF Delta
      <4> QED
        BY <3>2, <4>1
    <3>3. CASE store[w][k] = Absent /\ cache[w][k] = Absent
      BY <3>3
    <3> QED
      BY <3>1, <3>2, <3>3
  <2>3. /\ w = "svc" => [k \in Keys |-> q(k)] \in [Keys -> Seq(Delta(ServiceObj))]
        /\ w = "ep" => [k \in Keys |-> q(k)] \in [Keys -> Seq(Delta(EndpointsObj))]
    BY <2>2
  <2> HIDE DEF q
  <2>4. DeltasType'
    BY <2>1, <2>3, TypedRow DEF DeltasType, Types
  <2> QED
    BY <2>4, <1>5 DEF Types, DeltasType, Relist, chanVars, loopVars
<1> QED
  BY <1>1, <1>2, <1>3, <1>4, <1>5 DEF Environment

\* Cache updates and event handlers keep the types: maybeSync() stays within
\* the capacity of syncChan.
LEMMA InformersType == Types /\ Informers => Types'
<1> SUFFICES ASSUME Types, Informers PROVE Types'
  OBVIOUS
<1>1. ASSUME NEW w \in Kinds, maybeSync(w) PROVE Types'
  <2>1. tokens' \in 0..ChanCap
    BY <1>1, SyncLoopAssumption DEF maybeSync, Types
  <2> QED
    BY <1>1, <2>1 DEF maybeSync, Types, loopVars
<1>2. ASSUME NEW w \in Kinds, NEW k \in Keys, Pop(w, k) PROVE Types'
  <2> DEFINE d == Head(deltas[w][k])
             new == IF d.op = "Set" THEN d.obj ELSE Absent
             note == Notifies(w, k, cache[w][k], d)
  <2>1. /\ w = "svc" => d \in Delta(ServiceObj) /\ Tail(deltas[w][k]) \in Seq(Delta(ServiceObj))
        /\ w = "ep" => d \in Delta(EndpointsObj) /\ Tail(deltas[w][k]) \in Seq(Delta(EndpointsObj))
    BY <1>2, TypedElement DEF Pop
  <2>2. /\ w = "svc" => new \in ServiceObj \cup {Absent}
        /\ w = "ep" => new \in EndpointsObj \cup {Absent}
    BY <2>1 DEF Delta
  <2>3. CacheType'
    <3>1. cache' = [cache EXCEPT ![w][k] = new]
      BY <1>2 DEF Pop
    <3> HIDE DEF new
    <3> QED
      BY <2>2, <3>1, TypedExcept DEF CacheType, Types
  <2>4. DeltasType'
    <3>1. deltas' = [deltas EXCEPT ![w][k] = Tail(deltas[w][k])]
      BY <1>2 DEF Pop, Types, Typed
    <3> QED
      BY <2>1, <3>1, TypedExcept DEF DeltasType, Types
  <2>5. note \in BOOLEAN
    <3>1. CASE w = "svc"
      <4>1. d \in Delta(ServiceObj) /\ cache[w][k] \in ServiceObj \cup {Absent}
        BY <3>1, <2>1, TypedElement
      <4> HIDE DEF d
      <4> QED
        BY <3>1, <4>1 DEF Notifies, ServiceNotifies, Delta, ServiceObj, skipServiceUpdate
    <3>2. CASE w = "ep"
      <4>1. d \in Delta(EndpointsObj)
        BY <3>2, <2>1
      <4> HIDE DEF d
      <4> QED
        BY <3>2, <4>1 DEF Notifies, EndpointsNotifies, Delta
    <3> QED
      BY <3>1, <3>2 DEF Kinds
  <2>6. notify' \in [Kinds -> BOOLEAN]
    <3>1. notify' = [notify EXCEPT ![w] = note]
      BY <1>2 DEF Pop
    <3> HIDE DEF note
    <3> QED
      BY <2>5, <3>1 DEF Types
  <2>7. silent' \in [Kinds -> SUBSET Keys]
    <3>1. \E b \in SUBSET Keys : silent' = [silent EXCEPT ![w] = b]
      BY <1>2 DEF Pop, Types
    <3> QED
      BY <3>1 DEF Types
  <2>8. todo' \in [Kinds -> SUBSET Keys] /\ gaveUp' \in SUBSET Keys
    BY <1>2 DEF Pop, Types
  <2> QED
    BY <1>2, <2>3, <2>4, <2>6, <2>7, <2>8 DEF Pop, Types, CacheType, DeltasType, chanVars, loopVars
<1> QED
  BY <1>1, <1>2 DEF Informers

\* The steps of syncing() keep the types; its sends and receives keep tokens
\* between zero and the capacity.
LEMMA SyncingType == Types /\ syncing => Types'
<1> SUFFICES ASSUME Types, syncing PROVE Types'
  OBVIOUS
<1> USE DEF LoopStep, informerVars, chanVars, Pcs
<1>1. CASE ServicesSynced \/ EndpointsSynced
  BY <1>1 DEF ServicesSynced, EndpointsSynced, Types
<1>2. CASE MakeChan
  BY <1>2 DEF MakeChan, Types
<1>3. CASE InitialSend
  <2>1. tokens' \in 0..ChanCap
    BY <1>3, SyncLoopAssumption DEF InitialSend, Types
  <2> QED
    BY <1>3, <2>1 DEF InitialSend, Types
<1>4. CASE TakeToken
  <2>1. tokens' \in 0..ChanCap
    BY <1>4, SyncLoopAssumption DEF TakeToken, Types
  <2> QED
    BY <1>4, <2>1 DEF TakeToken, Types
<1>5. CASE Tick
  BY <1>5 DEF Tick, Types
<1>6. CASE ListServices
  <2> DEFINE filter(o) == IF NeedsUpdate(o) THEN WithBind(o) ELSE o
  <2>1. ASSUME NEW k \in Keys PROVE filter(cache["svc"][k]) \in ServiceObj \cup {Absent}
    <3>1. ASSUME NEW c \in ServiceObj PROVE WithBind(c) \in ServiceObj
      BY DEF WithBind, ServiceObj, IPs
    <3> QED
      BY <3>1, TypedElement DEF NeedsUpdate
  <2>2. ASSUME NEW k \in Keys PROVE View("svc", cache["svc"][k]) \in Vers \cup {Absent}
    BY TypedElement DEF View, ServiceView, ServiceObj
  <2>3. CacheType'
    <3>1. cache' = [cache EXCEPT !["svc"] = [k \in Keys |-> filter(cache["svc"][k])]]
      BY <1>6 DEF ListServices
    <3>2. [k \in Keys |-> filter(cache["svc"][k])] \in [Keys -> ServiceObj \cup {Absent}]
      BY <2>1
    <3> HIDE DEF filter
    <3> QED
      BY <3>1, <3>2, TypedRow DEF CacheType, Types, Kinds
  <2>4. held' \in [Keys -> ServiceObj \cup {Absent}]
    <3>1. held' = [k \in Keys |-> IF NeedsUpdate(cache["svc"][k])
                                    THEN filter(cache["svc"][k]) ELSE Absent]
      BY <1>6 DEF ListServices
    <3> HIDE DEF filter
    <3> QED
      BY <2>1, <3>1
  <2>5. listed' \in [Kinds -> [Keys -> Vers \cup {Absent}]] /\ silent' \in [Kinds -> SUBSET Keys]
    BY <1>6, <2>2 DEF ListServices, Types, Kinds
  <2> QED
    BY <1>6, <2>3, <2>4, <2>5 DEF ListServices, Types, CacheType
<1>7. CASE ListEndpoints
  <2>1. ASSUME NEW k \in Keys PROVE View("ep", cache["ep"][k]) \in Vers \cup {Absent}
    BY TypedElement DEF View, EndpointsView, EndpointsObj
  <2>2. listed' \in [Kinds -> [Keys -> Vers \cup {Absent}]] /\ silent' \in [Kinds -> SUBSET Keys]
    BY <1>7, <2>1 DEF ListEndpoints, Types, Kinds
  <2> QED
    BY <1>7, <2>2 DEF ListEndpoints, Types
<1>8. CASE BuildReturns
  BY <1>8 DEF BuildReturns, Types
<1>9. CASE UpdatesDone
  BY <1>9 DEF UpdatesDone, Types
<1> QED
  BY <1>1, <1>2, <1>3, <1>4, <1>5, <1>6, <1>7, <1>8, <1>9 DEF syncing

\* The status writes of updateSvcs() keep the types.
LEMMA UpdateSvcsType == Types /\ updateSvcs => Types'
<1> SUFFICES ASSUME Types, NEW k \in Keys,
                    UpdateStatus(k) \/ UpdateStatusReplyLost(k) \/ UpdateTimeout(k)
             PROVE  Types'
  BY DEF updateSvcs
<1>1. CASE StatusAccepted(k) /\ held' \in [Keys -> ServiceObj \cup {Absent}]
  <2> DEFINE o == [store["svc"][k] EXCEPT !.ing = held[k].ing, !.rv = rev + 1]
  <2>1. o \in ServiceObj
    <3>1. store["svc"][k] \in ServiceObj /\ held[k] \in ServiceObj /\ rev + 1 \in Nat
      BY <1>1, TypedElement DEF StatusAccepted, Types
    <3>2. held[k].ing \in SUBSET IPs
      BY <3>1 DEF ServiceObj
    <3> QED
      BY <3>1, <3>2, StatusRecord
  <2>2. Put("svc", k, o)
    BY <1>1 DEF StatusAccepted
  <2> HIDE DEF o
  <2>3. rev' \in Nat /\ StoreType' /\ DeltasType'
    BY <2>1, <2>2, SetDelta, CommitType DEF Put, Kinds
  <2> QED
    BY <1>1, <2>3 DEF StatusAccepted, Types, StoreType, DeltasType, chanVars
<1>2. CASE UpdateTimeout(k)
  BY <1>2 DEF UpdateTimeout, Types, informerVars, chanVars
<1> QED
  BY <1>1, <1>2 DEF UpdateStatus, UpdateStatusReplyLost, Types

\* No step of the system breaks the type invariant.
LEMMA NextType == Types /\ [Next]_vars => Types'
<1>1. Types /\ UNCHANGED vars => Types'
  BY DEF Types, vars, informerVars, chanVars, loopVars
<1> QED
  BY <1>1, EnvironmentType, InformersType, SyncingType, UpdateSvcsType DEF Next

-----------------------------------------------------------------------------
(* The informer's queue of a service key tells a consistent story: a       *)
(* deletion carries the type the service had in the event before it, and   *)
(* the last event leaves the type the API server has now.  That is why the *)
(* type test in the delete handler never hides the end of a LoadBalancer.  *)

queue(k) == deltas["svc"][k]

\* The cached object once the first i events are applied.
After(k, i) ==
    IF i = 0 THEN cache["svc"][k]
    ELSE IF queue(k)[i].op = "Set" THEN queue(k)[i].obj ELSE Absent

SameType(x, y) == (x = Absent <=> y = Absent) /\ (x # Absent => x.lb = y.lb)

StoryOf(k) ==
    /\ \A i \in 1..Len(queue(k)) :
         queue(k)[i].op = "Deleted" /\ After(k, i - 1) # Absent
            => After(k, i - 1).lb = queue(k)[i].obj.lb
    /\ SameType(After(k, Len(queue(k))), store["svc"][k])

Story == \A k \in Keys : StoryOf(k)

\* The queues of the initial list tell the store's story.
LEMMA InitStory == Init => Story
<1> SUFFICES ASSUME Init, NEW k \in Keys PROVE StoryOf(k)
  BY DEF Story
<1>1. /\ queue(k) = IF store["svc"][k] = Absent THEN <<>>
                    ELSE <<[op |-> "Set", obj |-> store["svc"][k]]>>
      /\ cache["svc"][k] = Absent
  BY DEF Init, Kinds, queue
<1> QED
  BY <1>1 DEF StoryOf, After, SameType

\* A committed write of a service extends the story of its queue.
LEMMA CommitStory ==
  ASSUME Types, Story, NEW k \in Keys, NEW o, NEW d \in Delta(ServiceObj),
         Commit("svc", k, o, d), cache' = cache,
         \/ d.op = "Set" /\ o = d.obj
         \/ d.op = "Deleted" /\ o = Absent /\ store["svc"][k] # Absent /\ d.obj = store["svc"][k]
  PROVE  Story'
<1> SUFFICES ASSUME NEW j \in Keys PROVE StoryOf(j)'
  BY DEF Story
<1>0. queue(k) \in Seq(Delta(ServiceObj)) /\ Len(queue(k)) \in Nat
  BY TypedElement DEF queue
<1>1. CASE j # k
  <2>1. queue(j)' = queue(j) /\ store'["svc"][j] = store["svc"][j]
    BY <1>1 DEF Commit, Types, Typed, Kinds, queue
  <2>2. StoryOf(j)
    BY DEF Story
  <2> QED
    BY <2>1, <2>2 DEF StoryOf, After, SameType
<1>2. CASE j = k
  <2>0. PICK n \in Nat : n = Len(queue(k))
    BY <1>0
  <2>1. queue(k)' = Append(queue(k), d) /\ store'["svc"][k] = o
    BY DEF Commit, Types, Typed, Kinds, queue
  <2>2. /\ Len(queue(k)') = n + 1
        /\ queue(k)'[n + 1] = d
        /\ \A i \in 1..n : queue(k)'[i] = queue(k)[i]
    BY <1>0, <2>0, <2>1
  <2>3. \A i \in 0..n : After(k, i)' = After(k, i)
    BY <2>2, <1>0 DEF After
  <2>4. After(k, n + 1)' = store'["svc"][k]
    BY <2>1, <2>2, <1>0 DEF After, Delta
  <2>5. StoryOf(k)
    BY DEF Story
  <2>6. ASSUME NEW i \in 1..(n + 1), queue(k)'[i].op = "Deleted", After(k, i - 1)' # Absent
        PROVE  After(k, i - 1)'.lb = queue(k)'[i].obj.lb
    <3>1. CASE i \in 1..n
      <4>1. i - 1 \in 0..n
        BY <1>0, <3>1
      <4> QED
        BY <4>1, <2>6, <3>1, <2>2, <2>3, <2>5, <2>0 DEF StoryOf
    <3>2. CASE i = n + 1
      <4>1. i - 1 = n /\ n \in 0..n
        BY <1>0, <3>2
      <4>2. d.op = "Deleted" /\ After(k, n) # Absent
        BY <4>1, <3>2, <2>2, <2>3, <2>6
      <4>3. After(k, n).lb = store["svc"][k].lb
        BY <4>2, <2>5, <2>0 DEF StoryOf, SameType
      <4> QED
        BY <4>1, <4>2, <4>3, <3>2, <2>2, <2>3
    <3> QED
      BY <3>1, <3>2, <1>0
  <2> QED
    BY <1>2, <2>2, <2>4, <2>6 DEF StoryOf, SameType
<1> QED
  BY <1>1, <1>2

\* Steps that leave store, queues and cache alone leave the story alone.
LEMMA UntouchedStory ==
  ASSUME Story, UNCHANGED <<cache["svc"], deltas["svc"], store["svc"]>>
  PROVE  Story'
BY DEF Story, StoryOf, After, SameType, queue

\* A committed creation, update or status write extends the story.
LEMMA PutStory ==
  ASSUME Types, Story, NEW k \in Keys, NEW o \in ServiceObj, Put("svc", k, o), cache' = cache
  PROVE  Story'
<1>1. [op |-> "Set", obj |-> o] \in Delta(ServiceObj)
  BY SetDelta
<1> QED
  BY <1>1, CommitStory DEF Put

\* Applying the first event of a queue to the cache leaves the rest of the
\* story true.
LEMMA PopStory ==
  ASSUME Types, Story, NEW k \in Keys, Pop("svc", k)
  PROVE  Story'
<1> SUFFICES ASSUME NEW j \in Keys PROVE StoryOf(j)'
  BY DEF Story
<1>0. StoryOf(j) /\ store' = store
  BY DEF Story, Pop
<1>1. CASE j # k
  <2>1. queue(j)' = queue(j) /\ cache'["svc"][j] = cache["svc"][j]
    BY <1>1 DEF Pop, Types, Typed, Kinds, queue
  <2> QED
    BY <1>0, <2>1 DEF StoryOf, After, SameType
<1>2. CASE j = k
  <2>1. /\ queue(k) \in Seq(Delta(ServiceObj))
        /\ queue(k) # <<>>
        /\ queue(k)' = Tail(queue(k))
        /\ cache'["svc"][k] = IF Head(queue(k)).op = "Set" THEN Head(queue(k)).obj ELSE Absent
    BY TypedElement DEF Pop, Types, Typed, Kinds, queue
  <2>2. PICK n \in Nat : Len(queue(k)) = n + 1
    BY <2>1
  <2>3. /\ Len(queue(k)') = n
        /\ \A i \in 1..n : queue(k)'[i] = queue(k)[i + 1]
        /\ Head(queue(k)) = queue(k)[1]
    BY <2>1, <2>2
  <2>4. ASSUME NEW i \in 0..n PROVE After(k, i)' = After(k, i + 1)
    <3>1. CASE i = 0
      BY <3>1, <2>1, <2>3 DEF After
    <3>2. CASE i # 0
      <4>1. i \in 1..n /\ i + 1 # 0
        BY <2>2, <3>2
      <4> QED
        BY <4>1, <3>2, <2>3 DEF After
    <3> QED
      BY <3>1, <3>2
  <2>5. ASSUME NEW i \in 1..n, queue(k)'[i].op = "Deleted", After(k, i - 1)' # Absent
        PROVE  After(k, i - 1)'.lb = queue(k)'[i].obj.lb
    <3>1. i - 1 \in 0..n /\ (i - 1) + 1 = i /\ i + 1 \in 1..(n + 1) /\ (i + 1) - 1 = i
      BY <2>2
    <3>2. After(k, i - 1)' = After(k, i) /\ queue(k)'[i] = queue(k)[i + 1]
      BY <3>1, <2>3, <2>4
    <3> QED
      BY <3>1, <3>2, <2>2, <2>5, <1>0, <1>2 DEF StoryOf
  <2>6. After(k, n)' = After(k, n + 1)
    BY <2>2, <2>4
  <2> QED
    BY <1>0, <1>2, <2>2, <2>3, <2>5, <2>6 DEF StoryOf, SameType
<1> QED
  BY <1>1, <1>2

\* filter() changes the Ingress of cached objects, never their type.
LEMMA ListServicesStory ==
  ASSUME Types, Story, ListServices
  PROVE  Story'
<1> SUFFICES ASSUME NEW k \in Keys PROVE StoryOf(k)'
  BY DEF Story
<1> DEFINE c == cache["svc"][k]
<1>1. StoryOf(k) /\ UNCHANGED <<store, deltas>>
  BY DEF Story, ListServices
<1>2. cache'["svc"][k] = IF NeedsUpdate(c) THEN WithBind(c) ELSE c
  BY DEF ListServices, Types, Typed, Kinds
<1>3. SameType(cache'["svc"][k], c)
  <2>1. c \in ServiceObj => WithBind(c) \in ServiceObj /\ WithBind(c).lb = c.lb
    BY DEF WithBind, ServiceObj, IPs
  <2>2. c \in ServiceObj \cup {Absent}
    BY TypedElement
  <2> QED
    BY <1>2, <2>1, <2>2, AbsentAssumption DEF SameType, NeedsUpdate
<1>4. \A i \in Nat : i # 0 => After(k, i)' = After(k, i)
  BY <1>1 DEF After, queue
<1>5. After(k, 0)' = cache'["svc"][k] /\ After(k, 0) = c
  BY DEF After
<1>6. \A i \in Nat : SameType(After(k, i)', After(k, i))
  BY <1>3, <1>4, <1>5 DEF SameType
<1>7. queue(k)' = queue(k) /\ Len(queue(k)) \in Nat
  BY <1>1, TypedElement DEF queue
<1> QED
  <2>1. ASSUME NEW i \in 1..Len(queue(k)), queue(k)[i].op = "Deleted", After(k, i - 1)' # Absent
        PROVE  After(k, i - 1)'.lb = queue(k)[i].obj.lb
    <3>1. i - 1 \in Nat
      BY <1>7
    <3>2. SameType(After(k, i - 1)', After(k, i - 1))
      BY <3>1, <1>6
    <3> QED
      BY <3>2, <2>1, <1>1 DEF SameType, StoryOf
  <2>2. PICK n \in Nat : n = Len(queue(k))
    BY <1>7
  <2>3. SameType(After(k, n)', store["svc"][k])
    BY <2>2, <1>6, <1>1 DEF StoryOf, SameType
  <2> QED
    BY <1>1, <1>7, <2>1, <2>2, <2>3 DEF StoryOf

\* No step of the system breaks the story of a queue.
LEMMA NextStory == Types /\ Story /\ [Next]_vars => Story'
<1> SUFFICES ASSUME Types, Story, [Next]_vars PROVE Story'
  OBVIOUS
<1> USE DEF informerVars, chanVars, loopVars, ApiUnchanged
<1>1. ASSUME NEW k \in Keys, ApiPutService(k) PROVE Story'
  <2>1. PICK b \in BOOLEAN, v \in Vers, i \in SUBSET IPs :
           Put("svc", k, [lb |-> b, ver |-> v, rv |-> rev + 1, ing |-> i])
    BY <1>1, TypedElement DEF ApiPutService, ServiceObj
  <2>2. [lb |-> b, ver |-> v, rv |-> rev + 1, ing |-> i] \in ServiceObj
    BY DEF ServiceObj, Types
  <2> QED
    BY <1>1, <2>1, <2>2, PutStory DEF ApiPutService
<1>2. ASSUME NEW k \in Keys, OtherNodeStatus(k) PROVE Story'
  <2>1. store["svc"][k] \in ServiceObj
    BY <1>2, TypedElement DEF OtherNodeStatus
  <2>2. store["svc"][k].ing \cup {OtherIP} \in SUBSET IPs /\ rev + 1 \in Nat
    BY <2>1 DEF ServiceObj, Types, IPs
  <2> QED
    BY <1>2, <2>1, <2>2, StatusRecord, PutStory DEF OtherNodeStatus
<1>3. ASSUME NEW k \in Keys, StatusAccepted(k) PROVE Story'
  <2>1. store["svc"][k] \in ServiceObj /\ held[k] \in ServiceObj /\ rev + 1 \in Nat
    BY <1>3, TypedElement DEF StatusAccepted, Types
  <2>2. held[k].ing \in SUBSET IPs
    BY <2>1 DEF ServiceObj
  <2> QED
    BY <1>3, <2>1, <2>2, StatusRecord, PutStory DEF StatusAccepted
<1>4. ASSUME NEW k \in Keys, ApiDelete("svc", k) PROVE Story'
  <2>1. store["svc"][k] \in ServiceObj
    BY <1>4, TypedElement DEF ApiDelete
  <2>2. [op |-> "Deleted", obj |-> store["svc"][k]] \in Delta(ServiceObj)
    BY <2>1 DEF Delta
  <2> QED
    BY <1>4, <2>2, CommitStory DEF ApiDelete
<1>5. ASSUME Relist("svc") PROVE Story'
  <2> SUFFICES ASSUME NEW k \in Keys PROVE StoryOf(k)'
    BY DEF Story
  <2>1. queue(k)' = IF store["svc"][k] # Absent
                       THEN <<[op |-> "Set", obj |-> store["svc"][k]]>>
                       ELSE IF cache["svc"][k] # Absent
                         THEN <<[op |-> "Lost", obj |-> cache["svc"][k]]>>
                         ELSE <<>>
    BY <1>5 DEF Relist, Types, Typed, Kinds, queue
  <2> QED
    BY <1>5, <2>1 DEF Relist, StoryOf, After, SameType
<1>6. ASSUME NEW k \in Keys, Pop("svc", k) PROVE Story'
  BY <1>6, PopStory
<1>7. ASSUME NEW k \in Keys, ApiPutEndpoints(k) \/ ApiDelete("ep", k) \/ Pop("ep", k) PROVE Story'
  <2>1. UNCHANGED <<cache["svc"], deltas["svc"], store["svc"]>>
    BY <1>7 DEF ApiPutEndpoints, ApiDelete, Pop, Put, Commit, Types, Typed, Kinds
  <2> QED
    BY <2>1, UntouchedStory
<1>8. ASSUME Relist("ep") PROVE Story'
  <2>1. UNCHANGED <<cache["svc"], deltas["svc"], store["svc"]>>
    BY <1>8 DEF Relist, Types, Typed, Kinds
  <2> QED
    BY <2>1, UntouchedStory
<1>9. CASE ListServices
  BY <1>9, ListServicesStory
<1>10. CASE ServicesSynced \/ EndpointsSynced \/ MakeChan \/ InitialSend \/ TakeToken \/ Tick \/ ListEndpoints
              \/ BuildReturns \/ UpdatesDone
  BY <1>10, UntouchedStory DEF ServicesSynced, EndpointsSynced, MakeChan, InitialSend, TakeToken, Tick, ListEndpoints,
       BuildReturns, UpdatesDone
<1>11. ASSUME NEW k \in Keys, UpdateTimeout(k) PROVE Story'
  BY <1>11, UntouchedStory DEF UpdateTimeout
<1>12. ASSUME NEW w \in Kinds, maybeSync(w) PROVE Story'
  BY <1>12, UntouchedStory DEF maybeSync
<1>13. CASE UNCHANGED vars
  BY <1>13, UntouchedStory DEF vars
<1> QED
  BY <1>1, <1>2, <1>3, <1>4, <1>5, <1>6, <1>7, <1>8, <1>9, <1>10, <1>11, <1>12, <1>13
     DEF Next, Environment, Informers, syncing, updateSvcs, UpdateStatus, UpdateStatusReplyLost, Kinds

-----------------------------------------------------------------------------
(* No wake-up is lost. *)

\* Once syncing() is making the channel the handlers find the channel.
ChanMade == Started \/ pc = "send" => made

WakeupInv == Types /\ Story /\ ChanMade /\ NoLostWakeup

\* A handler calls maybeSync for every change of what Build would be given,
\* the Unreported ones excepted.
LEMMA ChangeIsNotified ==
  ASSUME Types, Story, NEW w \in Kinds, NEW k \in Keys, deltas[w][k] # <<>>
  PROVE  LET d   == Head(deltas[w][k])
             old == cache[w][k]
             new == IF d.op = "Set" THEN d.obj ELSE Absent
         IN  View(w, old) # View(w, new) /\ ~Unreported(w, k, old, d) => Notifies(w, k, old, d)
<1> DEFINE d   == Head(deltas[w][k])
           old == cache[w][k]
<1>1. CASE w = "svc"
  <2>1. d \in Delta(ServiceObj) /\ old \in ServiceObj \cup {Absent}
    BY <1>1, TypedElement
  <2>2. d.op = "Deleted" /\ old # Absent => old.lb = d.obj.lb
    <3>1. d = queue(k)[1] /\ After(k, 0) = old /\ 1 \in 1..Len(queue(k)) /\ 1 - 1 = 0
      BY <1>1, TypedElement DEF queue, After
    <3>2. StoryOf(k)
      BY DEF Story
    <3> HIDE DEF d, old
    <3> QED
      BY <3>1, <3>2 DEF StoryOf
  <2> HIDE DEF d, old
  <2>3. View(w, old) # View(w, IF d.op = "Set" THEN d.obj ELSE Absent) /\ ~Unreported(w, k, old, d)
          => Notifies(w, k, old, d)
    <3>1. /\ d.op \in {"Set", "Deleted", "Lost"} /\ d.obj \in ServiceObj
          /\ d.obj.lb \in BOOLEAN /\ d.obj # Absent
          /\ old # Absent => old.lb \in BOOLEAN
      BY <2>1, AbsentAssumption DEF Delta, ServiceObj
    <3>2. CASE d.op = "Set"
      BY <1>1, <3>1, <3>2 DEF View, ServiceView, Unreported, Notifies, ServiceNotifies, skipServiceUpdate
    <3>3. CASE d.op = "Deleted"
      BY <1>1, <2>2, <3>1, <3>3 DEF View, ServiceView, Notifies, ServiceNotifies
    <3>4. CASE d.op = "Lost"
      BY <3>4 DEF Unreported
    <3> QED
      BY <3>1, <3>2, <3>3, <3>4
  <2> QED
    BY <2>3 DEF d, old
<1>2. CASE w = "ep"
  <2>1. d \in Delta(EndpointsObj) /\ old \in EndpointsObj \cup {Absent}
    BY <1>2, TypedElement
  <2> HIDE DEF d, old
  <2>2. View(w, old) # View(w, IF d.op = "Set" THEN d.obj ELSE Absent) /\ ~Unreported(w, k, old, d)
          => Notifies(w, k, old, d)
    BY <1>2, <2>1 DEF View, EndpointsView, Unreported, Notifies, EndpointsNotifies, Delta
  <2> QED
    BY <2>2 DEF d, old
<1> QED
  BY <1>1, <1>2 DEF Kinds

\* An informer that applies an event with visible effect is at maybeSync().
LEMMA PopWakeup ==
  ASSUME WakeupInv, NEW x \in Kinds, NEW j \in Keys, Pop(x, j)
  PROVE  NoLostWakeup'
<1> SUFFICES ASSUME NEW w \in Kinds, NEW k \in Keys,
                    ~WillList(w)', Outdated(w, k)', k \notin silent'[w], ~(tokens' > 0)
             PROVE  notify'[w]
  BY DEF NoLostWakeup
<1> DEFINE d   == Head(deltas[x][j])
           old == cache[x][j]
           new == IF d.op = "Set" THEN d.obj ELSE Absent
<1>0. /\ Types /\ Story
      /\ ~notify[x] /\ deltas[x][j] # <<>>
      /\ UNCHANGED <<tokens, pc, listed>>
  BY DEF WakeupInv, Pop, chanVars, loopVars
<1>1. ~WillList(w) /\ ~(tokens > 0)
  BY <1>0 DEF WillList, Started
<1>2. /\ cache' = [cache EXCEPT ![x][j] = new]
      /\ notify' = [notify EXCEPT ![x] = Notifies(x, j, old, d)]
      /\ silent' = [silent EXCEPT ![x] = IF View(x, old) = View(x, new) THEN silent[x]
                      ELSE IF Unreported(x, j, old, d) THEN silent[x] \cup {j} ELSE silent[x] \ {j}]
  BY <1>0 DEF Pop, Types
<1>3. View(x, old) # View(x, new) /\ ~Unreported(x, j, old, d) => Notifies(x, j, old, d)
  BY <1>0, ChangeIsNotified
<1> HIDE DEF d, new
<1>4. CASE w = x /\ k = j /\ View(x, old) # View(x, new)
  <2>1. ~Unreported(x, j, old, d)
    BY <1>2, <1>4, <1>0 DEF Types
  <2> QED
    BY <1>2, <1>3, <1>4, <2>1, <1>0 DEF Types
<1>5. CASE ~(w = x /\ k = j /\ View(x, old) # View(x, new))
  <2>1. View(w, cache'[w][k]) = View(w, cache[w][k])
    BY <1>2, <1>5, <1>0 DEF Types, Typed
  <2>2. k \notin silent[w]
    BY <1>2, <1>5, <1>0 DEF Types
  <2>3. Outdated(w, k)
    BY <2>1, <1>0 DEF Outdated
  <2>4. notify[w]
    BY <1>1, <2>2, <2>3 DEF WakeupInv, NoLostWakeup
  <2>5. w # x
    BY <2>4, <1>0
  <2> QED
    BY <2>4, <2>5, <1>2, <1>0 DEF Types
<1> QED
  BY <1>4, <1>5

\* Steps that touch neither caches, channel nor loop lose no wake-up.
LEMMA UntouchedWakeup ==
  ASSUME NoLostWakeup, UNCHANGED <<notify, silent, tokens, pc, listed, cache>>
  PROVE  NoLostWakeup'
BY DEF NoLostWakeup, WillList, Started, Outdated

\* syncing() consumes a token only on its way to listing both caches.
LEMMA SyncingWakeup ==
  ASSUME WakeupInv, syncing
  PROVE  NoLostWakeup'
<1> USE DEF LoopStep, informerVars, chanVars
<1>1. CASE ServicesSynced \/ EndpointsSynced \/ MakeChan
  BY <1>1 DEF ServicesSynced, EndpointsSynced, MakeChan, NoLostWakeup, WillList, Started
<1>2. CASE InitialSend
  BY <1>2 DEF InitialSend, NoLostWakeup, WakeupInv, Types
<1>3. CASE TakeToken \/ Tick
  BY <1>3 DEF TakeToken, Tick, NoLostWakeup, WillList, Started
<1>4. CASE ListServices
  <2> SUFFICES ASSUME NEW w \in Kinds, NEW k \in Keys, ~WillList(w)' PROVE ~Outdated(w, k)'
    BY DEF NoLostWakeup
  <2>1. w = "svc"
    BY <1>4 DEF ListServices, WillList, Kinds
  <2> DEFINE c == cache["svc"][k]
  <2>2. listed'["svc"][k] = View("svc", c) /\ cache'["svc"][k] = IF NeedsUpdate(c) THEN WithBind(c) ELSE c
    BY <1>4 DEF ListServices, WakeupInv, Types, Typed, Kinds
  <2>3. NeedsUpdate(c) => /\ WithBind(c).lb = c.lb /\ WithBind(c).ver = c.ver
                          /\ WithBind(c) # Absent /\ c # Absent
    <3>1. c \in ServiceObj => /\ WithBind(c) \in ServiceObj
                              /\ WithBind(c).lb = c.lb /\ WithBind(c).ver = c.ver
      BY DEF WithBind, ServiceObj, IPs
    <3>2. c \in ServiceObj \cup {Absent}
      BY TypedElement DEF WakeupInv
    <3> QED
      BY <3>1, <3>2, AbsentAssumption DEF NeedsUpdate
  <2> HIDE DEF c
  <2>4. View("svc", cache'["svc"][k]) = View("svc", c)
    BY <2>2, <2>3 DEF View, ServiceView
  <2> QED
    BY <2>1, <2>2, <2>4 DEF Outdated
<1>5. CASE ListEndpoints
  <2> SUFFICES ASSUME NEW w \in Kinds, NEW k \in Keys, Outdated(w, k)', k \notin silent'[w]
               PROVE  tokens' > 0 \/ notify'[w]
    BY DEF NoLostWakeup
  <2>1. listed'["ep"][k] = View("ep", cache["ep"][k]) /\ listed'["svc"] = listed["svc"] /\ cache' = cache
    BY <1>5 DEF ListEndpoints, WakeupInv, Types, Kinds
  <2>2. w = "svc"
    BY <2>1 DEF Outdated, Kinds
  <2>3. Outdated(w, k) /\ ~WillList(w) /\ k \notin silent[w]
    BY <1>5, <2>1, <2>2 DEF Outdated, ListEndpoints, WillList, Started, WakeupInv, Types, Kinds
  <2> QED
    BY <1>5, <2>3 DEF ListEndpoints, WakeupInv, NoLostWakeup
<1>6. CASE BuildReturns \/ UpdatesDone
  BY <1>6 DEF BuildReturns, UpdatesDone, WakeupInv, NoLostWakeup, WillList, Started, Outdated
<1> QED
  BY <1>1, <1>2, <1>3, <1>4, <1>5, <1>6 DEF syncing

\* The strengthened invariant is inductive.
LEMMA NextWakeup == WakeupInv /\ [Next]_vars => WakeupInv'
<1> SUFFICES ASSUME WakeupInv, [Next]_vars PROVE WakeupInv'
  OBVIOUS
<1>1. Types' /\ Story'
  BY NextType, NextStory DEF WakeupInv
<1>2. ChanMade'
  <2> USE DEF ChanMade, Started, informerVars, chanVars, loopVars, LoopStep, ApiUnchanged
  <2>1. CASE Environment
    BY <2>1 DEF Environment, ApiPutService, ApiPutEndpoints, OtherNodeStatus, ApiDelete, Relist, WakeupInv
  <2>2. CASE Informers
    BY <2>2 DEF Informers, maybeSync, Pop, WakeupInv
  <2>3. CASE syncing
    BY <2>3 DEF syncing, ServicesSynced, EndpointsSynced, MakeChan, InitialSend, TakeToken, Tick, ListServices,
         ListEndpoints, BuildReturns, UpdatesDone, WakeupInv
  <2>4. CASE updateSvcs
    BY <2>4 DEF updateSvcs, UpdateStatus, UpdateStatusReplyLost, StatusAccepted, UpdateTimeout, WakeupInv
  <2>5. CASE UNCHANGED vars
    BY <2>5 DEF vars, WakeupInv
  <2> QED
    BY <2>1, <2>2, <2>3, <2>4, <2>5 DEF Next
<1>3. NoLostWakeup'
  <2> USE DEF informerVars, chanVars, loopVars, ApiUnchanged
  <2>1. CASE Environment
    <3>1. UNCHANGED <<notify, silent, tokens, pc, listed, cache>>
      BY <2>1 DEF Environment, ApiPutService, ApiPutEndpoints, OtherNodeStatus, ApiDelete, Relist
    <3> QED
      BY <3>1, UntouchedWakeup DEF WakeupInv
  <2>2. ASSUME NEW w \in Kinds, NEW k \in Keys, Pop(w, k) PROVE NoLostWakeup'
    BY <2>2, PopWakeup
  <2>3. ASSUME NEW x \in Kinds, maybeSync(x) PROVE NoLostWakeup'
    <3>1. /\ UNCHANGED <<silent, pc, listed, cache>>
          /\ notify' = [notify EXCEPT ![x] = FALSE]
          /\ tokens' = IF made /\ tokens < ChanCap THEN tokens + 1 ELSE tokens
      BY <2>3 DEF maybeSync
    <3>2. Started => tokens' > 0
      BY <3>1, SyncLoopAssumption DEF WakeupInv, ChanMade, Types
    <3> QED
      BY <3>1, <3>2 DEF NoLostWakeup, WillList, Started
  <2>4. CASE syncing
    BY <2>4, SyncingWakeup
  <2>5. CASE updateSvcs
    <3>1. UNCHANGED <<notify, silent, tokens, pc, listed, cache>>
      BY <2>5 DEF updateSvcs, UpdateStatus, UpdateStatusReplyLost, StatusAccepted, UpdateTimeout
    <3> QED
      BY <3>1, UntouchedWakeup DEF WakeupInv
  <2>6. CASE UNCHANGED vars
    BY <2>6, UntouchedWakeup DEF vars, WakeupInv
  <2> QED
    BY <2>1, <2>2, <2>3, <2>4, <2>5, <2>6 DEF Next, Informers
<1> QED
  BY <1>1, <1>2, <1>3 DEF WakeupInv

\* No interleaving of the informers' handlers with syncing() loses a wake-up,
\* for any number of keys and any channel capacity.
THEOREM NoWakeupIsLost == Spec => []NoLostWakeup
<1>1. Init => WakeupInv
  <2>1. Init => ChanMade /\ NoLostWakeup
    BY DEF Init, ChanMade, NoLostWakeup, WillList, Started
  <2> QED
    BY <2>1, InitType, InitStory DEF WakeupInv
<1>2. WakeupInv /\ [Next]_vars => WakeupInv'
  BY NextWakeup
<1>3. WakeupInv => NoLostWakeup
  BY DEF WakeupInv
<1> QED
  BY <1>1, <1>2, <1>3, PTL DEF Spec

-----------------------------------------------------------------------------
(* Status writes.  filter() adds the address to the cached object, which   *)
(* the update goroutine then sends with the version it was read at.        *)

\* A copy that the daemon has of a service: not newer than the API server's
\* and, where it is as new, with all of its addresses.
Known(k, o) ==
    o # Absent =>
        /\ o.rv <= rev
        /\ store["svc"][k] # Absent /\ o.rv = store["svc"][k].rv
              => store["svc"][k].ing \subseteq o.ing

VersionsOf(k) ==
    /\ Known(k, store["svc"][k]) /\ Known(k, cache["svc"][k]) /\ Known(k, held[k])
    /\ \A i \in 1..Len(queue(k)) : Known(k, queue(k)[i].obj)

\* The last event of the queue leads to the object that the API server has.
LastOf(k) ==
    queue(k) # <<>> =>
        LET d == queue(k)[Len(queue(k))]
        IN  /\ store["svc"][k] = Absent => d.op # "Set"
            /\ store["svc"][k] # Absent => d.op = "Set" /\ d.obj = store["svc"][k]

\* Where the cache shows the address too early the goroutine holds that object.
ShownOf(k) ==
    LET c == cache["svc"][k]
        s == store["svc"][k]
    IN  queue(k) = <<>> /\ c # Absent /\ Bind \in c.ing
          => (s # Absent /\ Bind \in s.ing) \/ held[k] = c \/ k \in gaveUp

StatusOf(k) == VersionsOf(k) /\ LastOf(k) /\ ShownOf(k)

StatusInv == Types /\ NoneHeld /\ \A k \in Keys : StatusOf(k)

\* What the type invariant says of the copies of one service.
LEMMA CopyTypes ==
  ASSUME Types, NEW k \in Keys
  PROVE  /\ rev \in Nat
         /\ \A o \in ServiceObj : o.rv \in Nat /\ o # Absent
         /\ held[k] \in ServiceObj \cup {Absent}
         /\ store["svc"][k] \in ServiceObj \cup {Absent}
         /\ cache["svc"][k] \in ServiceObj \cup {Absent}
         /\ queue(k) \in Seq(Delta(ServiceObj)) /\ Len(queue(k)) \in Nat
         /\ \A i \in 1..Len(queue(k)) : queue(k)[i].obj \in ServiceObj
<1>1. \A o \in ServiceObj : o.rv \in Nat /\ o # Absent
  BY AbsentAssumption DEF ServiceObj
<1>2. queue(k) \in Seq(Delta(ServiceObj)) /\ Len(queue(k)) \in Nat
  BY TypedElement DEF queue
<1>3. \A i \in 1..Len(queue(k)) : queue(k)[i].obj \in ServiceObj
  <2>1. \A i \in 1..Len(queue(k)) : queue(k)[i] \in Delta(ServiceObj)
    BY <1>2
  <2> QED
    BY <2>1 DEF Delta
<1> QED
  BY <1>1, <1>2, <1>3, TypedElement DEF Types

\* Steps that touch no copy of this service.
LEMMA UntouchedStatus ==
  ASSUME Types, NEW k \in Keys, StatusOf(k), rev' \in {rev, rev + 1}, gaveUp \subseteq gaveUp',
         UNCHANGED <<store["svc"][k], cache["svc"][k], queue(k), held[k]>>
  PROVE  StatusOf(k)'
<1>1. \A o \in ServiceObj \cup {Absent} : Known(k, o) => Known(k, o)'
  BY CopyTypes DEF Known
<1>2. VersionsOf(k)'
  BY <1>1, CopyTypes DEF StatusOf, VersionsOf
<1> QED
  BY <1>2 DEF StatusOf, LastOf, ShownOf

\* A write: what the API server has now is newer than every other copy.
LEMMA CommitStatus ==
  ASSUME Types, NEW k \in Keys, StatusOf(k), NEW o, NEW d \in Delta(ServiceObj),
         Commit("svc", k, o, d), UNCHANGED cache, held'[k] \in {held[k], Absent},
         \/ d.op = "Set" /\ o = d.obj /\ o.rv = rev + 1
         \/ d.op = "Deleted" /\ o = Absent /\ store["svc"][k] # Absent /\ d.obj = store["svc"][k]
  PROVE  StatusOf(k)'
<1> USE CopyTypes
<1>1. /\ store'["svc"][k] = o /\ rev' = rev + 1
      /\ queue(k)' = Append(queue(k), d)
  BY DEF Commit, Types, Typed, Kinds, queue
<1>2. d.op \in {"Set", "Deleted"} /\ d.obj \in ServiceObj /\ (d.op = "Set" <=> o # Absent)
  BY DEF Delta
<1>3. PICK n \in Nat : n = Len(queue(k))
  OBVIOUS
<1>4. /\ Len(queue(k)') = n + 1 /\ queue(k)'[n + 1] = d /\ queue(k)' # <<>>
      /\ \A i \in 1..n : queue(k)'[i] = queue(k)[i]
  BY <1>1, <1>3
<1>5. \A c \in ServiceObj \cup {Absent} : Known(k, c) => Known(k, c)'
  BY <1>1, <1>2 DEF Known
<1>6. Known(k, o)' /\ Known(k, d.obj)'
  <2>1. CASE d.op = "Set"
    BY <1>1, <1>2, <2>1 DEF Known
  <2>2. CASE d.op = "Deleted"
    BY <1>1, <1>2, <1>5, <2>2 DEF Known, StatusOf, VersionsOf
  <2> QED
    BY <1>2, <2>1, <2>2
<1>7. VersionsOf(k)'
  <2>1. Known(k, cache["svc"][k])' /\ Known(k, held[k])'
    BY <1>5 DEF StatusOf, VersionsOf, Known
  <2>2. ASSUME NEW i \in 1..(n + 1) PROVE Known(k, queue(k)[i].obj)'
    <3>1. CASE i \in 1..n
      BY <3>1, <1>3, <1>4, <1>5 DEF StatusOf, VersionsOf
    <3>2. CASE i = n + 1
      BY <3>2, <1>4, <1>6
    <3> QED
      BY <3>1, <3>2
  <2> QED
    BY <1>1, <1>4, <1>6, <2>1, <2>2 DEF VersionsOf
<1>8. LastOf(k)'
  BY <1>1, <1>2, <1>4 DEF LastOf
<1>9. ShownOf(k)'
  BY <1>4 DEF ShownOf
<1> QED
  BY <1>7, <1>8, <1>9 DEF StatusOf

\* An event reaches the cache; the last one brings what the API server has.
LEMMA PopStatus ==
  ASSUME Types, NEW k \in Keys, StatusOf(k), Pop("svc", k)
  PROVE  StatusOf(k)'
<1>0. queue(k) \in Seq(Delta(ServiceObj))
  BY CopyTypes
<1>1. /\ queue(k) # <<>>
      /\ queue(k)' = Tail(queue(k))
      /\ cache'["svc"][k] = IF Head(queue(k)).op = "Set" THEN Head(queue(k)).obj ELSE Absent
      /\ UNCHANGED <<rev, store, held>>
  BY DEF Pop, Types, Typed, Kinds, queue, loopVars
<1>2. PICK n \in Nat : Len(queue(k)) = n + 1
  BY <1>0, <1>1
<1>3. /\ Len(queue(k)') = n /\ Head(queue(k)) = queue(k)[1]
      /\ \A i \in 1..n : queue(k)'[i] = queue(k)[i + 1]
  BY <1>0, <1>1, <1>2
<1>4. queue(k)' = <<>> <=> n = 0
  <2>1. queue(k)' \in Seq(Delta(ServiceObj)) /\ Len(queue(k)') = n
    BY <1>0, <1>1, <1>3
  <2> QED
    BY <2>1
<1>5. VersionsOf(k)'
  <2>1. \A o : Known(k, o)' <=> Known(k, o)
    BY <1>1 DEF Known
  <2>2. Known(k, cache["svc"][k])'
    <3>1. Known(k, queue(k)[1].obj) /\ Known(k, Absent)
      BY <1>2 DEF StatusOf, VersionsOf, Known
    <3> QED
      BY <1>1, <1>3, <3>1 DEF Known
  <2>3. ASSUME NEW i \in 1..n PROVE Known(k, queue(k)[i].obj)'
    <3>1. i + 1 \in 1..Len(queue(k))
      BY <1>2
    <3>2. Known(k, queue(k)[i + 1].obj)
      BY <3>1 DEF StatusOf, VersionsOf
    <3> QED
      BY <1>1, <1>3, <3>2 DEF Known
  <2>4. Known(k, store["svc"][k])' /\ Known(k, held[k])'
    BY <1>1 DEF StatusOf, VersionsOf, Known
  <2> QED
    BY <1>3, <2>2, <2>3, <2>4 DEF VersionsOf
<1>6. LastOf(k)'
  <2>1. n # 0 => n \in 1..n /\ queue(k)'[n] = queue(k)[n + 1]
    BY <1>3
  <2> QED
    BY <1>1, <1>2, <1>3, <1>4, <2>1 DEF StatusOf, LastOf
<1>7. ShownOf(k)'
  <2>1. n = 0 => Head(queue(k)) = queue(k)[Len(queue(k))]
    BY <1>2, <1>3
  <2> QED
    BY <1>1, <1>3, <1>4, <2>1 DEF StatusOf, LastOf, ShownOf
<1> QED
  BY <1>5, <1>6, <1>7 DEF StatusOf

\* A relist replaces the queue by what the API server has.
LEMMA RelistStatus ==
  ASSUME Types, NEW k \in Keys, StatusOf(k), Relist("svc")
  PROVE  StatusOf(k)'
<1> USE CopyTypes
<1>1. /\ queue(k)' = IF store["svc"][k] # Absent
                       THEN <<[op |-> "Set", obj |-> store["svc"][k]]>>
                       ELSE IF cache["svc"][k] # Absent
                         THEN <<[op |-> "Lost", obj |-> cache["svc"][k]]>>
                         ELSE <<>>
      /\ UNCHANGED <<rev, store, held, cache, gaveUp>>
  BY DEF Relist, Types, Typed, Kinds, queue, loopVars
<1>2. CASE store["svc"][k] # Absent
  <2>1. queue(k)' # <<>> /\ Len(queue(k)') = 1 /\ queue(k)'[1] = [op |-> "Set", obj |-> store["svc"][k]]
    BY <1>1, <1>2
  <2> QED
    BY <1>1, <1>2, <2>1 DEF StatusOf, VersionsOf, Known, LastOf, ShownOf
<1>3. CASE store["svc"][k] = Absent /\ cache["svc"][k] # Absent
  <2>1. queue(k)' # <<>> /\ Len(queue(k)') = 1 /\ queue(k)'[1] = [op |-> "Lost", obj |-> cache["svc"][k]]
    BY <1>1, <1>3
  <2> QED
    BY <1>1, <1>3, <2>1 DEF StatusOf, VersionsOf, Known, LastOf, ShownOf
<1>4. CASE store["svc"][k] = Absent /\ cache["svc"][k] = Absent
  <2>1. queue(k)' = <<>>
    BY <1>1, <1>4
  <2> QED
    BY <1>1, <1>4, <2>1 DEF StatusOf, VersionsOf, Known, LastOf, ShownOf
<1> QED
  BY <1>2, <1>3, <1>4

\* filter() shows the address in the cache and hands that object over.
LEMMA ListServicesStatus ==
  ASSUME StatusInv, NEW k \in Keys, ListServices
  PROVE  StatusOf(k)'
<1> USE CopyTypes DEF StatusInv
<1> DEFINE c == cache["svc"][k]
<1>1. /\ cache'["svc"][k] = IF NeedsUpdate(c) THEN WithBind(c) ELSE c
      /\ held'[k] = IF NeedsUpdate(c) THEN WithBind(c) ELSE Absent
      /\ UNCHANGED <<rev, store, deltas, gaveUp>>
  BY DEF ListServices, Types, Typed, Kinds
<1>2. NeedsUpdate(c) => /\ WithBind(c) \in ServiceObj /\ WithBind(c).rv = c.rv
                        /\ WithBind(c).ing = c.ing \cup {Bind} /\ c # Absent
  <2>1. \A o \in ServiceObj : /\ WithBind(o) \in ServiceObj /\ WithBind(o).rv = o.rv
                              /\ WithBind(o).ing = o.ing \cup {Bind}
    BY DEF WithBind, ServiceObj, IPs
  <2> QED
    BY <2>1 DEF NeedsUpdate
<1>3. held[k] = Absent
  BY DEF NoneHeld, ListServices, LoopStep
<1>4. \A o : Known(k, o)' <=> Known(k, o)
  BY <1>1 DEF Known
<1> HIDE DEF c
<1>5. Known(k, c) /\ (NeedsUpdate(c) => Known(k, WithBind(c)))
  BY <1>2 DEF StatusOf, VersionsOf, Known, c
<1>6. VersionsOf(k)'
  BY <1>1, <1>4, <1>5 DEF StatusOf, VersionsOf, Known, queue
<1>7. LastOf(k)'
  BY <1>1 DEF StatusOf, LastOf, queue
<1>8. ShownOf(k)'
  BY <1>1, <1>2, <1>3 DEF StatusOf, ShownOf, queue, c, NeedsUpdate
<1> QED
  BY <1>6, <1>7, <1>8 DEF StatusOf


\* A creation, update or status write of a service.
LEMMA PutStatus ==
  ASSUME Types, NEW k \in Keys, \A j \in Keys : StatusOf(j), NEW o \in ServiceObj, o.rv = rev + 1,
         Put("svc", k, o), UNCHANGED <<cache, gaveUp>>, held'[k] \in {held[k], Absent},
         \A j \in Keys \ {k} : held'[j] = held[j]
  PROVE  \A j \in Keys : StatusOf(j)'
<1>1. [op |-> "Set", obj |-> o] \in Delta(ServiceObj)
  BY SetDelta
<1>2. StatusOf(k)'
  BY <1>1, CommitStatus DEF Put
<1>3. ASSUME NEW j \in Keys, j # k PROVE StatusOf(j)'
  <2>1. rev' = rev + 1 /\ UNCHANGED <<store["svc"][j], cache["svc"][j], queue(j), held[j]>>
    BY <1>3 DEF Put, Commit, Types, Typed, Kinds, queue
  <2> QED
    BY <2>1, UntouchedStatus
<1> QED
  BY <1>2, <1>3

\* Only syncing() itself gives objects to the goroutines, and it waits for them.
LEMMA NextNoneHeld == StatusInv /\ [Next]_vars => NoneHeld'
<1> SUFFICES ASSUME StatusInv, [Next]_vars PROVE NoneHeld'
  OBVIOUS
<1> USE DEF StatusInv, NoneHeld, informerVars, chanVars, loopVars, LoopStep, ApiUnchanged
<1>1. CASE Environment
  BY <1>1 DEF Environment, ApiPutService, ApiPutEndpoints, OtherNodeStatus, ApiDelete, Relist
<1>2. CASE Informers
  BY <1>2 DEF Informers, maybeSync, Pop
<1>3. CASE syncing
  BY <1>3 DEF syncing, ServicesSynced, EndpointsSynced, MakeChan, InitialSend, TakeToken, Tick, ListServices,
              ListEndpoints, BuildReturns, UpdatesDone
<1>4. CASE updateSvcs
  BY <1>4 DEF updateSvcs, UpdateStatus, UpdateStatusReplyLost, StatusAccepted, UpdateTimeout, Types
<1>5. CASE UNCHANGED vars
  BY <1>5 DEF vars
<1> QED
  BY <1>1, <1>2, <1>3, <1>4, <1>5 DEF Next

\* No step leaves a copy of a service that a status write could do harm with.
LEMMA NextStatus == StatusInv /\ [Next]_vars => StatusInv'
<1> SUFFICES ASSUME StatusInv, [Next]_vars PROVE \A k \in Keys : StatusOf(k)'
  BY NextType, NextNoneHeld DEF StatusInv
<1>0. Types /\ \A k \in Keys : StatusOf(k)
  BY DEF StatusInv
<1> USE DEF informerVars, chanVars, loopVars, ApiUnchanged
<1>1. ASSUME NEW k \in Keys, ApiPutService(k) PROVE \A j \in Keys : StatusOf(j)'
  <2>1. PICK b \in BOOLEAN, v \in Vers, i \in SUBSET IPs :
           Put("svc", k, [lb |-> b, ver |-> v, rv |-> rev + 1, ing |-> i])
    BY <1>0, <1>1, TypedElement DEF ApiPutService, ServiceObj
  <2>2. /\ [lb |-> b, ver |-> v, rv |-> rev + 1, ing |-> i] \in ServiceObj
        /\ [lb |-> b, ver |-> v, rv |-> rev + 1, ing |-> i].rv = rev + 1
    BY <1>0 DEF ServiceObj, Types
  <2> QED
    BY <1>0, <1>1, <2>1, <2>2, PutStatus DEF ApiPutService
<1>2. ASSUME NEW k \in Keys, OtherNodeStatus(k) PROVE \A j \in Keys : StatusOf(j)'
  <2> DEFINE o == [store["svc"][k] EXCEPT !.ing = @ \cup {OtherIP}, !.rv = rev + 1]
  <2>1. store["svc"][k] \in ServiceObj
    BY <1>0, <1>2, TypedElement DEF OtherNodeStatus
  <2>2. store["svc"][k].ing \cup {OtherIP} \in SUBSET IPs /\ rev + 1 \in Nat
    BY <1>0, <2>1 DEF ServiceObj, Types, IPs
  <2>3. o \in ServiceObj /\ o.rv = rev + 1 /\ Put("svc", k, o)
    BY <1>2, <2>1, <2>2, StatusRecord DEF OtherNodeStatus, ServiceObj
  <2> QED
    BY <1>0, <1>2, <2>3, PutStatus DEF OtherNodeStatus
<1>3. ASSUME NEW k \in Keys, UpdateStatus(k) \/ UpdateStatusReplyLost(k) PROVE \A j \in Keys : StatusOf(j)'
  <2> DEFINE o == [store["svc"][k] EXCEPT !.ing = held[k].ing, !.rv = rev + 1]
  <2>0. StatusAccepted(k) /\ held'[k] \in {held[k], Absent} /\ \A j \in Keys \ {k} : held'[j] = held[j]
    BY <1>0, <1>3 DEF UpdateStatus, UpdateStatusReplyLost, Types
  <2>1. store["svc"][k] \in ServiceObj /\ held[k] \in ServiceObj /\ rev + 1 \in Nat
    BY <1>0, <2>0, TypedElement DEF StatusAccepted, Types
  <2>2. held[k].ing \in SUBSET IPs
    BY <2>1 DEF ServiceObj
  <2>3. o \in ServiceObj /\ o.rv = rev + 1 /\ Put("svc", k, o)
    BY <2>0, <2>1, <2>2, StatusRecord DEF StatusAccepted, ServiceObj
  <2> QED
    BY <1>0, <2>0, <2>3, PutStatus DEF StatusAccepted
<1>4. ASSUME NEW k \in Keys, ApiDelete("svc", k), NEW j \in Keys PROVE StatusOf(j)'
  <2>1. store["svc"][k] \in ServiceObj
    BY <1>0, <1>4, TypedElement DEF ApiDelete
  <2>2. [op |-> "Deleted", obj |-> store["svc"][k]] \in Delta(ServiceObj)
    BY <2>1 DEF Delta
  <2>3. CASE j = k
    BY <1>0, <1>4, <2>2, <2>3, CommitStatus DEF ApiDelete
  <2>4. CASE j # k
    <3>1. rev' = rev + 1 /\ UNCHANGED <<store["svc"][j], cache["svc"][j], queue(j), held[j], gaveUp>>
      BY <1>0, <1>4, <2>4 DEF ApiDelete, Commit, Types, Typed, Kinds, queue
    <3> QED
      BY <1>0, <3>1, UntouchedStatus
  <2> QED
    BY <2>3, <2>4
<1>5. ASSUME Relist("svc"), NEW j \in Keys PROVE StatusOf(j)'
  BY <1>0, <1>5, RelistStatus
<1>6. ASSUME NEW k \in Keys, Pop("svc", k), NEW j \in Keys PROVE StatusOf(j)'
  <2>1. CASE j = k
    BY <1>0, <1>6, <2>1, PopStatus
  <2>2. CASE j # k
    <3>1. /\ UNCHANGED <<rev, store["svc"][j], cache["svc"][j], queue(j), held[j]>>
          /\ j \in gaveUp => j \in gaveUp'
      BY <1>0, <1>6, <2>2 DEF Pop, Types, Typed, Kinds, queue
    <3> QED
      BY <1>0, <3>1 DEF StatusOf, VersionsOf, Known, LastOf, ShownOf
  <2> QED
    BY <2>1, <2>2
<1>7. ASSUME NEW k \in Keys, ApiPutEndpoints(k) \/ ApiDelete("ep", k) \/ Pop("ep", k) \/ Relist("ep"),
             NEW j \in Keys
      PROVE  StatusOf(j)'
  <2>1. rev' \in {rev, rev + 1} /\ UNCHANGED <<store["svc"][j], cache["svc"][j], queue(j), held, gaveUp>>
    BY <1>0, <1>7 DEF ApiPutEndpoints, ApiDelete, Pop, Relist, Put, Commit, Types, Typed, Kinds, queue
  <2> QED
    BY <1>0, <2>1, UntouchedStatus
<1>8. CASE ListServices
  BY <1>8, ListServicesStatus
<1>9. ASSUME NEW k \in Keys, UpdateTimeout(k), NEW j \in Keys PROVE StatusOf(j)'
  <2>1. /\ UNCHANGED <<rev, store, cache, deltas>>
        /\ held' = [held EXCEPT ![k] = Absent]
        /\ gaveUp' = IF cache["svc"][k] = held[k] THEN gaveUp \cup {k} ELSE gaveUp
        /\ held \in [Keys -> ServiceObj \cup {Absent}]
    BY <1>0, <1>9 DEF UpdateTimeout, Types
  <2>2. VersionsOf(j)' /\ LastOf(j)'
    BY <1>0, <2>1 DEF StatusOf, VersionsOf, Known, LastOf, queue
  <2>3. ShownOf(j)'
    BY <1>0, <2>1 DEF StatusOf, ShownOf, queue
  <2> QED
    BY <2>2, <2>3 DEF StatusOf
<1>10. ASSUME UNCHANGED <<rev, store, cache, deltas, held, gaveUp>>, NEW j \in Keys PROVE StatusOf(j)'
  BY <1>0, <1>10, UntouchedStatus DEF queue
<1>11. CASE (\E w \in Kinds : maybeSync(w)) \/ ServicesSynced \/ EndpointsSynced \/ MakeChan \/ InitialSend
            \/ TakeToken \/ Tick \/ ListEndpoints \/ BuildReturns \/ UpdatesDone \/ UNCHANGED vars
  <2>1. UNCHANGED <<rev, store, cache, deltas, held, gaveUp>>
    BY <1>11 DEF maybeSync, ServicesSynced, EndpointsSynced, MakeChan, InitialSend, TakeToken, Tick,
                 ListEndpoints, BuildReturns, UpdatesDone, vars
  <2> QED
    BY <1>10, <2>1
<1> QED
  BY <1>1, <1>2, <1>3, <1>4, <1>5, <1>6, <1>7, <1>8, <1>9, <1>11
     DEF Next, Environment, Informers, syncing, updateSvcs, Kinds

\* The first list is what the API server has, and nobody has copied it yet.
LEMMA InitStatus == Init => StatusInv
<1> SUFFICES ASSUME Init, NEW k \in Keys PROVE StatusOf(k) /\ NoneHeld /\ Types
  BY InitType DEF StatusInv, Init, NoneHeld
<1>1. Types /\ NoneHeld
  BY InitType DEF Init, NoneHeld
<1>2. /\ queue(k) = IF store["svc"][k] = Absent THEN <<>>
                    ELSE <<[op |-> "Set", obj |-> store["svc"][k]]>>
      /\ cache["svc"][k] = Absent /\ held[k] = Absent /\ rev = 0
  BY DEF Init, Kinds, queue
<1>3. store["svc"][k] # Absent => store["svc"][k].rv = 0
  <2>1. store["svc"][k] \in InitialServices \cup {Absent}
    BY DEF Init, Kinds
  <2> QED
    BY <2>1 DEF InitialServices
<1>4. CASE store["svc"][k] = Absent
  <2>1. queue(k) = <<>> /\ Len(queue(k)) = 0
    BY <1>2, <1>4
  <2> QED
    BY <1>1, <1>2, <1>4, <2>1 DEF StatusOf, VersionsOf, Known, LastOf, ShownOf
<1>5. CASE store["svc"][k] # Absent
  <2>1. queue(k) # <<>> /\ Len(queue(k)) = 1 /\ queue(k)[1] = [op |-> "Set", obj |-> store["svc"][k]]
    BY <1>2, <1>5
  <2> QED
    BY <1>1, <1>2, <1>3, <1>5, <2>1 DEF StatusOf, VersionsOf, Known, LastOf, ShownOf
<1> QED
  BY <1>1, <1>4, <1>5

\* Every reachable state is well typed, and no goroutine of updateSvcs() outlives
\* the turn of the loop that started it: syncing() never lists, or waits in its
\* select, beside one that still writes an older copy of a service.
THEOREM TypeCorrect == Spec => []TypeOK
<1>1. StatusInv => TypeOK
  BY DEF StatusInv, TypeOK
<1> QED
  BY <1>1, InitStatus, NextStatus, PTL DEF Spec

\* What the cache shows too early an update goroutine is still writing, unless
\* it gave up: updateSvcs() forgets no service that filter() marked.
THEOREM ShownIsWritten == Spec => []ShownMeansWritten
<1>1. StatusInv => ShownMeansWritten
  <2> SUFFICES ASSUME StatusInv, NEW k \in Keys PROVE
        deltas["svc"][k] = <<>> /\ cache["svc"][k] # Absent /\ Bind \in cache["svc"][k].ing
          => \/ store["svc"][k] # Absent /\ Bind \in store["svc"][k].ing
             \/ held[k] # Absent \/ k \in gaveUp
    BY DEF ShownMeansWritten
  <2> QED
    BY DEF StatusInv, StatusOf, ShownOf, queue
<1> QED
  BY <1>1, InitStatus, NextStatus, PTL DEF Spec

\* Who changes a service at the API server.
LEMMA ServiceWriters ==
  ASSUME Types, Next, NEW k \in Keys
  PROVE  \/ store'["svc"][k] = store["svc"][k]
         \/ ApiPutService(k) \/ OtherNodeStatus(k) \/ StatusAccepted(k) \/ ApiDelete("svc", k)
<1>1. ASSUME NEW w \in Kinds, NEW j \in Keys, NEW o, NEW d, Commit(w, j, o, d), w = "ep" \/ j # k
      PROVE  store'["svc"][k] = store["svc"][k]
  <2>1. store \in [Kinds -> [Keys -> ServiceObj \cup {Absent} \cup (EndpointsObj \cup {Absent})]]
    BY DEF Types, Typed
  <2> QED
    BY <1>1, <2>1 DEF Commit, Kinds
<1>2. CASE Environment
  <2>1. ASSUME NEW j \in Keys, j # k, ApiPutService(j) \/ OtherNodeStatus(j)
        PROVE  store'["svc"][k] = store["svc"][k]
    BY <1>1, <2>1 DEF ApiPutService, OtherNodeStatus, Put, Kinds
  <2>2. ASSUME NEW j \in Keys, ApiPutEndpoints(j)
        PROVE  store'["svc"][k] = store["svc"][k]
    BY <1>1, <2>2 DEF ApiPutEndpoints, Put, Kinds
  <2>3. ASSUME NEW w \in Kinds, NEW j \in Keys, ApiDelete(w, j), w = "ep" \/ j # k
        PROVE  store'["svc"][k] = store["svc"][k]
    BY <1>1, <2>3 DEF ApiDelete
  <2>4. ASSUME NEW w \in Kinds, Relist(w) PROVE store'["svc"][k] = store["svc"][k]
    BY <2>4 DEF Relist
  <2> QED
    BY <1>2, <2>1, <2>2, <2>3, <2>4 DEF Environment, Kinds
<1>3. CASE Informers
  BY <1>3 DEF Informers, maybeSync, Pop
<1>4. CASE syncing
  BY <1>4 DEF syncing, ServicesSynced, EndpointsSynced, MakeChan, InitialSend, TakeToken, Tick, ListServices,
              ListEndpoints, BuildReturns, UpdatesDone
<1>5. CASE updateSvcs
  BY <1>1, <1>5 DEF updateSvcs, UpdateStatus, UpdateStatusReplyLost, StatusAccepted, UpdateTimeout, Put, Kinds
<1> QED
  BY <1>2, <1>3, <1>4, <1>5 DEF Next

\* UpdateStatus never removes an address from a service: the version check of
\* the API server refuses every stale copy that lacks one.
THEOREM NoAddressRemoved == Spec => IngressKept
<1>1. StatusInv /\ [Next]_vars =>
        [\A k \in Keys :
           LET s == store["svc"][k]
           IN  s # Absent /\ store'["svc"][k] # Absent
                 => s.ing \subseteq store'["svc"][k].ing]_vars
  <2> SUFFICES ASSUME StatusInv, Next, NEW k \in Keys,
                      store["svc"][k] # Absent, store'["svc"][k] # Absent
               PROVE  store["svc"][k].ing \subseteq store'["svc"][k].ing
    OBVIOUS
  <2>0. Types /\ StatusOf(k) /\ store["svc"][k] \in ServiceObj
    BY TypedElement DEF StatusInv
  <2>1. CASE store'["svc"][k] = store["svc"][k]
    BY <2>1
  <2>2. CASE ApiPutService(k)
    <3>1. store'["svc"][k].ing = store["svc"][k].ing
      BY <2>0, <2>2 DEF ApiPutService, Put, Commit, Types, Typed, Kinds
    <3> QED
      BY <3>1
  <2>3. CASE OtherNodeStatus(k)
    <3>1. store'["svc"][k].ing = store["svc"][k].ing \cup {OtherIP}
      BY <2>0, <2>3 DEF OtherNodeStatus, Put, Commit, Types, Typed, Kinds, ServiceObj
    <3> QED
      BY <3>1
  <2>4. CASE StatusAccepted(k)
    <3>1. store'["svc"][k].ing = held[k].ing
      BY <2>0, <2>4 DEF StatusAccepted, Put, Commit, Types, Typed, Kinds, ServiceObj
    <3>2. Known(k, held[k])
      BY <2>0 DEF StatusOf, VersionsOf
    <3> QED
      BY <2>4, <3>1, <3>2 DEF StatusAccepted, Known
  <2>5. CASE ApiDelete("svc", k)
    BY <2>0, <2>5 DEF ApiDelete, Commit, Types, Typed, Kinds
  <2> QED
    BY <2>0, <2>1, <2>2, <2>3, <2>4, <2>5, ServiceWriters
<1> QED
  BY <1>1, InitStatus, NextStatus, PTL DEF Spec, IngressKept

=============================================================================
