------------------------------ MODULE SyncLoop ------------------------------
(***************************************************************************)
(* The control plane of kube-bmlb on one node: server/bmlb and watch/.     *)
(*                                                                         *)
(* Four goroutines meet on three pieces of shared state:                   *)
(*   - the two informers (services, endpoints) apply API server changes    *)
(*     to a local cache and then call the event handlers;                  *)
(*   - the handlers push wake-up tokens into Server.syncChan;              *)
(*   - syncing() waits for a token or for the one-minute tick, lists the   *)
(*     caches, calls LoadBalance.Build and writes its own IP into the      *)
(*     status of the services (one goroutine per service, awaited).        *)
(*                                                                         *)
(* What Build does with its arguments is the business of LvsAdaptor and    *)
(* Haproxy; here a call is identified with the arguments it was given      *)
(* (listed).  API server and client-go informer are external and modelled  *)
(* as this code uses them.                                                 *)
(***************************************************************************)
EXTENDS Naturals, Sequences

CONSTANTS
    Keys,      \* namespace/name keys, shared by a service and its endpoints
    SysKeys,   \* the keys in namespace kube-system
    Vers,      \* contents a spec (or the subsets of an Endpoints) can have
    Bind,      \* --bind: the address this node announces
    OtherIP,   \* the address another node's daemon announces
    Absent,    \* no such object
    ChanCap,   \* capacity of syncChan
    MaxRev     \* bound on the API writes of the environment

ASSUME SyncLoopAssumption ==
    /\ SysKeys \subseteq Keys
    /\ ChanCap \in Nat \ {0}
    /\ MaxRev \in Nat
    /\ Bind # OtherIP
    /\ Absent \notin Vers

VARIABLES
    rev,      \* API server: resource version of the last write
    store,    \* API server: kind -> key -> object
    deltas,   \* informers: kind -> key -> changes not yet in the cache
    todo,     \* informers: kind -> keys of the initial list not yet popped
    cache,    \* informers: kind -> key -> object (the Indexer)
    notify,   \* informers: kind -> cache updated, handler at maybeSync()
    made,     \* Server.syncChan is not nil
    tokens,   \* number of elements in Server.syncChan
    pc,       \* where syncing() is
    listed,   \* kind -> key -> what the last Build was (will be) given
    held,     \* key -> object the update goroutine of that service holds
    silent,   \* history: keys whose last change since listed is Unreported
    gaveUp    \* history: keys whose cached object shows Bind, update timed out

informerVars == <<deltas, todo, cache, notify, silent>>
loopVars     == <<pc, listed, held>>
chanVars     == <<made, tokens>>
vars == <<rev, store, informerVars, chanVars, loopVars, gaveUp>>

Kinds == {"svc", "ep"}

IPs == {Bind, OtherIP}

\* Every field of an object that some code path of the daemon tells apart:
\* lb stands for Spec.Type = LoadBalancer, ing for Status.LoadBalancer.Ingress,
\* rv for ResourceVersion, ver for everything else.
ServiceObj   == [lb : BOOLEAN, ver : Vers, ing : SUBSET IPs, rv : Nat]
EndpointsObj == [ver : Vers, rv : Nat]

ASSUME AbsentAssumption == Absent \notin ServiceObj \cup EndpointsObj

Delta(Obj)   == [op : {"Set", "Deleted", "Lost"}, obj : Obj]

\* f holds an S for every service key and an E for every endpoints key.
Typed(f, S, E) ==
    /\ f \in [Kinds -> [Keys -> S \cup E]]
    /\ \A k \in Keys : f["svc"][k] \in S /\ f["ep"][k] \in E

Pcs == {"pollSvc", "pollEp", "make", "send", "select", "listSvc", "listEp", "build", "update"}

-----------------------------------------------------------------------------
(* What the daemon looks at. *)

\* What Build will make of an object: filter drops services of another type.
ServiceView(o)   == IF o = Absent \/ ~o.lb THEN Absent ELSE o.ver
EndpointsView(o) == IF o = Absent THEN Absent ELSE o.ver
View(w, o)       == IF w = "svc" THEN ServiceView(o) ELSE EndpointsView(o)

\* Mutant: only a change of type counts.
skipServiceUpdate_typeOnly(old, new) == old.lb = new.lb

\* DeepEqual of the copies without ResourceVersion and Ingress.
skipServiceUpdate(old, new) == old.lb = new.lb /\ old.ver = new.ver

\* The service handlers: deletions found by a relist carry a
\* DeletedFinalStateUnknown, for which the type assertion fails.
ServiceNotifies(old, d) ==
    CASE d.op = "Lost"    -> FALSE
      [] d.op = "Deleted" -> d.obj.lb
      [] d.op = "Set"     -> d.obj.lb /\ (old = Absent \/ ~skipServiceUpdate(old, d.obj))

\* Mutant: deletions of endpoints are not handled.
EndpointsNotifies_noDelete(k, old, d) == d.op = "Set" /\ (old = Absent \/ k \notin SysKeys)

\* The endpoints handlers: only updates look at the namespace.
EndpointsNotifies(k, old, d) ==
    CASE d.op = "Lost"    -> FALSE
      [] d.op = "Deleted" -> TRUE
      [] d.op = "Set"     -> old = Absent \/ k \notin SysKeys

Notifies(w, k, old, d) ==
    IF w = "svc" THEN ServiceNotifies(old, d) ELSE EndpointsNotifies(k, old, d)

\* The changes that the handlers leave to the tick on purpose: a deletion
\* missed by the watch, a service that stops being a LoadBalancer, a new
\* version of the endpoints of a kube-system service.
Unreported(w, k, old, d) ==
    \/ d.op = "Lost"
    \/ w = "svc" /\ d.op = "Set" /\ ~d.obj.lb
    \/ w = "ep" /\ d.op = "Set" /\ old # Absent /\ k \in SysKeys

-----------------------------------------------------------------------------
(* The API server, and whoever writes to it (users, the endpoints          *)
(* controller, the daemons of other nodes).                                *)

\* Objects there may be when the daemon starts; an earlier run of it may have
\* announced its address already.
InitialServices  == [lb : BOOLEAN, ver : Vers, ing : {{}, {Bind}}, rv : {0}]
InitialEndpoints == [ver : Vers, rv : {0}]

\* A write commits and is sent to the watches.
Commit(w, k, o, d) ==
    /\ rev' = rev + 1
    /\ store' = [store EXCEPT ![w][k] = o]
    /\ deltas' = [deltas EXCEPT ![w][k] = Append(@, d)]

Put(w, k, o) == Commit(w, k, o, [op |-> "Set", obj |-> o])

ApiUnchanged == UNCHANGED <<todo, cache, notify, silent, chanVars, loopVars, gaveUp>>

ApiPutService(k) ==
    /\ rev < MaxRev
    /\ \E b \in BOOLEAN, v \in Vers :
         LET cur == store["svc"][k]
             new == [lb |-> b, ver |-> v, rv |-> rev + 1,
                     ing |-> IF cur = Absent THEN {} ELSE cur.ing]
         IN  /\ cur # Absent => <<cur.lb, cur.ver>> # <<b, v>>
             /\ Put("svc", k, new)
    /\ ApiUnchanged

ApiPutEndpoints(k) ==
    /\ rev < MaxRev
    /\ \E v \in Vers :
         /\ store["ep"][k] # Absent => store["ep"][k].ver # v
         /\ Put("ep", k, [ver |-> v, rv |-> rev + 1])
    /\ ApiUnchanged

ApiDelete(w, k) ==
    /\ rev < MaxRev
    /\ store[w][k] # Absent
    /\ Commit(w, k, Absent, [op |-> "Deleted", obj |-> store[w][k]])
    /\ ApiUnchanged

\* The daemon of another node announces its address for the service.
OtherNodeStatus(k) ==
    /\ rev < MaxRev
    /\ store["svc"][k] # Absent
    /\ store["svc"][k].lb
    /\ OtherIP \notin store["svc"][k].ing
    /\ Put("svc", k, [store["svc"][k] EXCEPT !.ing = @ \cup {OtherIP}, !.rv = rev + 1])
    /\ ApiUnchanged

-----------------------------------------------------------------------------
(* The informers. *)

Synced(w) == todo[w] = {}

\* The watch broke: the events not delivered so far are lost and the reflector
\* lists again.  Cached keys that are gone get a DeletedFinalStateUnknown.
Relist(w) ==
    /\ Synced(w)
    /\ deltas' = [deltas EXCEPT ![w] =
         [k \in Keys |->
            IF store[w][k] # Absent
              THEN <<[op |-> "Set", obj |-> store[w][k]]>>
              ELSE IF cache[w][k] # Absent
                THEN <<[op |-> "Lost", obj |-> cache[w][k]]>>
                ELSE <<>>]]
    /\ UNCHANGED <<rev, store, todo, cache, notify, silent, chanVars, loopVars, gaveUp>>

\* The cache changes first, the event handler runs next.  A handler that
\* returns early leaves no trace.
Pop(w, k) ==
    /\ ~notify[w]
    /\ deltas[w][k] # <<>>
    /\ LET d   == Head(deltas[w][k])
           old == cache[w][k]
           new == IF d.op = "Set" THEN d.obj ELSE Absent
       IN  /\ cache' = [cache EXCEPT ![w][k] = new]
           /\ notify' = [notify EXCEPT ![w] = Notifies(w, k, old, d)]
           /\ silent' = [silent EXCEPT ![w] =
                IF View(w, old) = View(w, new) THEN @
                ELSE IF Unreported(w, k, old, d) THEN @ \cup {k} ELSE @ \ {k}]
    /\ deltas' = [deltas EXCEPT ![w][k] = Tail(@)]
    /\ todo' = [todo EXCEPT ![w] = @ \ {k}]
    /\ gaveUp' = IF w = "svc" THEN gaveUp \ {k} ELSE gaveUp
    /\ UNCHANGED <<rev, store, chanVars, loopVars>>

\* The non-blocking send at the end of every event handler.
maybeSync(w) ==
    /\ notify[w]
    /\ notify' = [notify EXCEPT ![w] = FALSE]
    /\ tokens' = IF made /\ tokens < ChanCap THEN tokens + 1 ELSE tokens
    /\ UNCHANGED <<rev, store, deltas, todo, cache, silent, made, loopVars, gaveUp>>

-----------------------------------------------------------------------------
(* syncing(). *)

LoopStep(from, to) == pc = from /\ pc' = to

\* PollInfinite asks the service informer, then the endpoints informer, whether
\* it has delivered its initial list.  HasSynced() waits for the lock that an
\* informer holds until its event handler returns.
ServicesSynced ==
    /\ LoopStep("pollSvc", "pollEp")
    /\ ~notify["svc"]
    /\ Synced("svc")
    /\ UNCHANGED <<rev, store, informerVars, chanVars, listed, held, gaveUp>>

EndpointsSynced ==
    /\ LoopStep("pollEp", IF Synced("ep") THEN "make" ELSE "pollSvc")
    /\ ~notify["ep"]
    /\ UNCHANGED <<rev, store, informerVars, chanVars, listed, held, gaveUp>>

MakeChan ==
    /\ LoopStep("make", "send")
    /\ made' = TRUE
    /\ UNCHANGED <<rev, store, informerVars, tokens, listed, held, gaveUp>>

\* A blocking send: it waits while the channel is full.
InitialSend ==
    /\ LoopStep("send", "select")
    /\ tokens < ChanCap
    /\ tokens' = tokens + 1
    /\ UNCHANGED <<rev, store, informerVars, made, listed, held, gaveUp>>

TakeToken ==
    /\ LoopStep("select", "listSvc")
    /\ tokens > 0
    /\ tokens' = tokens - 1
    /\ UNCHANGED <<rev, store, informerVars, made, listed, held, gaveUp>>

Tick ==
    /\ LoopStep("select", "listSvc")
    /\ UNCHANGED <<rev, store, informerVars, chanVars, listed, held, gaveUp>>

NeedsUpdate(o) == o # Absent /\ o.lb /\ Bind \notin o.ing

\* Mutant: the list of addresses is replaced, not appended to.
WithBind_replace(o) == [o EXCEPT !.ing = {Bind}]

WithBind(o) == [o EXCEPT !.ing = @ \cup {Bind}]

\* Mutant: only services that nobody announces yet are updated.
ListServices_firstOnly ==
    /\ LoopStep("listSvc", "listEp")
    /\ listed' = [listed EXCEPT !["svc"] = [k \in Keys |-> View("svc", cache["svc"][k])]]
    /\ silent' = [silent EXCEPT !["svc"] = {}]
    /\ LET filter(o) == IF NeedsUpdate(o) THEN WithBind(o) ELSE o
           new(o) == NeedsUpdate(o) /\ o.ing = {}
       IN  /\ cache' = [cache EXCEPT !["svc"] = [k \in Keys |-> filter(cache["svc"][k])]]
           /\ held' = [k \in Keys |-> IF new(cache["svc"][k])
                                        THEN filter(cache["svc"][k]) ELSE Absent]
    /\ UNCHANGED <<rev, store, deltas, todo, notify, chanVars, gaveUp>>

\* serviceWatcher.List() and filter(): the Ingress is appended to the listed
\* object itself, which is the one in the cache.
ListServices ==
    /\ LoopStep("listSvc", "listEp")
    /\ listed' = [listed EXCEPT !["svc"] = [k \in Keys |-> View("svc", cache["svc"][k])]]
    /\ silent' = [silent EXCEPT !["svc"] = {}]
    /\ LET filter(o) == IF NeedsUpdate(o) THEN WithBind(o) ELSE o
       IN  /\ cache' = [cache EXCEPT !["svc"] = [k \in Keys |-> filter(cache["svc"][k])]]
           /\ held' = [k \in Keys |-> IF NeedsUpdate(cache["svc"][k])
                                        THEN filter(cache["svc"][k]) ELSE Absent]
    /\ UNCHANGED <<rev, store, deltas, todo, notify, chanVars, gaveUp>>

\* endpointsWatcher.List() is evaluated as an argument of Build.
ListEndpoints ==
    /\ LoopStep("listEp", "build")
    /\ listed' = [listed EXCEPT !["ep"] = [k \in Keys |-> View("ep", cache["ep"][k])]]
    /\ silent' = [silent EXCEPT !["ep"] = {}]
    /\ UNCHANGED <<rev, store, deltas, todo, cache, notify, chanVars, held, gaveUp>>

BuildReturns ==
    /\ LoopStep("build", "update")
    /\ UNCHANGED <<rev, store, informerVars, chanVars, listed, held, gaveUp>>

-----------------------------------------------------------------------------
(* updateSvcs(): the goroutines poll UpdateStatus with the listed object.   *)
(* A failed attempt changes nothing and is retried, which is a stutter.     *)

\* Mutant: the goroutines are started before Build is called.
StatusAccepted_early(k) ==
    /\ pc \in {"build", "update"}
    /\ held[k] # Absent
    /\ store["svc"][k] # Absent
    /\ held[k].rv = store["svc"][k].rv
    /\ Put("svc", k, [store["svc"][k] EXCEPT !.ing = held[k].ing, !.rv = rev + 1])
    /\ UNCHANGED <<todo, cache, notify, silent, chanVars, pc, listed, gaveUp>>

\* The API server accepts the status of an object at its current version.
StatusAccepted(k) ==
    /\ pc = "update"
    /\ held[k] # Absent
    /\ store["svc"][k] # Absent
    /\ held[k].rv = store["svc"][k].rv
    /\ Put("svc", k, [store["svc"][k] EXCEPT !.ing = held[k].ing, !.rv = rev + 1])
    /\ UNCHANGED <<todo, cache, notify, silent, chanVars, pc, listed, gaveUp>>

UpdateStatus(k) ==
    /\ StatusAccepted(k)
    /\ held' = [held EXCEPT ![k] = Absent]

\* The write is committed but the client sees an error and tries again.
UpdateStatusReplyLost(k) ==
    /\ StatusAccepted(k)
    /\ UNCHANGED held

\* Mutant: poll for ever.
UpdateTimeout_never(k) == FALSE

\* Two minutes are over.
UpdateTimeout(k) ==
    /\ pc = "update"
    /\ held[k] # Absent
    /\ held' = [held EXCEPT ![k] = Absent]
    /\ gaveUp' = IF cache["svc"][k] = held[k] THEN gaveUp \cup {k} ELSE gaveUp
    /\ UNCHANGED <<rev, store, informerVars, chanVars, pc, listed>>

\* Mutant: updateSvcs() returns without waiting for its goroutines.
UpdatesDone_noWait ==
    /\ LoopStep("update", "select")
    /\ UNCHANGED <<rev, store, informerVars, chanVars, listed, held, gaveUp>>

\* wg.Wait() returns.
UpdatesDone ==
    /\ LoopStep("update", "select")
    /\ \A k \in Keys : held[k] = Absent
    /\ UNCHANGED <<rev, store, informerVars, chanVars, listed, held, gaveUp>>

-----------------------------------------------------------------------------
\* Start() has run startWatcher(): the informers hold their initial list.
Init ==
    /\ rev = 0
    /\ \E s \in [Keys -> InitialServices \cup {Absent}], e \in [Keys -> InitialEndpoints \cup {Absent}] :
         store = [w \in Kinds |-> IF w = "svc" THEN s ELSE e]
    /\ deltas = [w \in Kinds |-> [k \in Keys |->
                   IF store[w][k] = Absent THEN <<>>
                   ELSE <<[op |-> "Set", obj |-> store[w][k]]>>]]
    /\ todo = [w \in Kinds |-> {k \in Keys : store[w][k] # Absent}]
    /\ cache = [w \in Kinds |-> [k \in Keys |-> Absent]]
    /\ notify = [w \in Kinds |-> FALSE]
    /\ made = FALSE
    /\ tokens = 0
    /\ pc = "pollSvc"
    /\ listed = [w \in Kinds |-> [k \in Keys |-> Absent]]
    /\ held = [k \in Keys |-> Absent]
    /\ silent = [w \in Kinds |-> {}]
    /\ gaveUp = {}

Environment ==
    \/ \E k \in Keys : ApiPutService(k) \/ ApiPutEndpoints(k) \/ OtherNodeStatus(k)
    \/ \E w \in Kinds, k \in Keys : ApiDelete(w, k)
    \/ \E w \in Kinds : Relist(w)

Informers == \E w \in Kinds : maybeSync(w) \/ \E k \in Keys : Pop(w, k)

syncing ==
    \/ ServicesSynced \/ EndpointsSynced \/ MakeChan \/ InitialSend
    \/ TakeToken \/ Tick
    \/ ListServices \/ ListEndpoints \/ BuildReturns
    \/ UpdatesDone

updateSvcs ==
    \E k \in Keys : UpdateStatus(k) \/ UpdateStatusReplyLost(k) \/ UpdateTimeout(k)

Next == Environment \/ Informers \/ syncing \/ updateSvcs

Spec == Init /\ [][Next]_vars

\* Goroutines that can run do run, a poll with a timeout ends, Build returns.
\* The informer pops its keys first in, first out, so none waits for ever
\* behind the others: Pop is strongly fair.  Nothing is assumed of the
\* environment, nor that a status write succeeds.
Fairness ==
    /\ \A w \in Kinds : WF_vars(maybeSync(w)) /\ \A k \in Keys : SF_vars(Pop(w, k))
    /\ WF_vars(ServicesSynced) /\ WF_vars(EndpointsSynced) /\ WF_vars(MakeChan) /\ WF_vars(InitialSend)
    /\ WF_vars(TakeToken)
    /\ WF_vars(ListServices) /\ WF_vars(ListEndpoints) /\ WF_vars(BuildReturns)
    /\ WF_vars(UpdatesDone)
    /\ \A k \in Keys : WF_vars(UpdateTimeout(k))

\* Nothing here relies on the one-minute tick; Daemon does.
FairSpec == Spec /\ Fairness

-----------------------------------------------------------------------------
(* Properties. *)

Types ==
    /\ rev \in Nat
    /\ Typed(store, ServiceObj \cup {Absent}, EndpointsObj \cup {Absent})
    /\ Typed(cache, ServiceObj \cup {Absent}, EndpointsObj \cup {Absent})
    /\ Typed(deltas, Seq(Delta(ServiceObj)), Seq(Delta(EndpointsObj)))
    /\ todo \in [Kinds -> SUBSET Keys]
    /\ notify \in [Kinds -> BOOLEAN]
    /\ made \in BOOLEAN
    /\ tokens \in 0..ChanCap
    /\ pc \in Pcs
    /\ listed \in [Kinds -> [Keys -> Vers \cup {Absent}]]
    /\ held \in [Keys -> ServiceObj \cup {Absent}]
    /\ silent \in [Kinds -> SUBSET Keys]
    /\ gaveUp \in SUBSET Keys

\* An update goroutine holds an object only from the listing of the services to
\* the end of updateSvcs(): there is none left from an earlier turn of the loop
\* when syncing() waits in its select or lists again.
NoneHeld == pc \notin {"listEp", "build", "update"} => \A k \in Keys : held[k] = Absent

\* Every variable has its type, and goroutines of updateSvcs() exist only where
\* syncing() waits for them (wg.Wait in handler.go).
TypeOK == Types /\ NoneHeld

Started == pc \notin {"pollSvc", "pollEp", "make", "send"}

\* The loop has still to list this cache before it waits again.
WillList(w) == ~Started \/ pc = "listSvc" \/ (w = "ep" /\ pc = "listEp")

\* The cache no longer holds what Build was given.
Outdated(w, k) == listed[w][k] # View(w, cache[w][k])

\* No wake-up is lost (handlers against syncing()): whenever a change that a
\* handler reported is in a cache and not in the arguments of the last Build,
\* and the loop is past listing that cache, a token is waiting in syncChan or
\* the handler is just about to send one.  Dropping a token because the
\* channel is full, or because it does not exist yet, is harmless.
NoLostWakeup ==
    \A w \in Kinds, k \in Keys :
        ~WillList(w) /\ Outdated(w, k) /\ k \notin silent[w]
            => tokens > 0 \/ notify[w]

\* filter() writes this node's address into the cached object before the API
\* server has it.  Where a cached, up-to-date object shows the address and the
\* API server's does not, an update goroutine still holds that object, or it
\* ran into its two-minute timeout.
ShownMeansWritten ==
    \A k \in Keys :
        LET c == cache["svc"][k]
            s == store["svc"][k]
        IN  /\ deltas["svc"][k] = <<>>
            /\ c # Absent
            /\ Bind \in c.ing
            => \/ s # Absent /\ Bind \in s.ing
               \/ held[k] # Absent
               \/ k \in gaveUp

\* A status write never removes an address that another node announced: the
\* stale object it carries is refused unless it holds all of them.
IngressKept ==
    [][\A k \in Keys :
         LET s == store["svc"][k]
         IN  s # Absent /\ store'["svc"][k] # Absent
               => s.ing \subseteq store'["svc"][k].ing]_vars

\* A reported change reaches Build without the help of the tick.
ReportedChangeIsListed ==
    \A w \in Kinds, k \in Keys :
        Started /\ Outdated(w, k) /\ k \notin silent[w]
            ~> k \in silent[w] \/ ~Outdated(w, k)

\* Once past the first send, syncing() always comes back to its select:
\* neither a full channel nor refused status writes can hold it for ever.
LoopKeepsGoing == Started ~> pc = "select"

\* A service of type LoadBalancer that lacks this node's address is eventually
\* written to, deleted or changed: an update goroutine takes it up, whatever
\* happened to earlier attempts, unless one of them ran into its timeout.  A
\* restart takes the loop back before its first send, where it may stay for
\* ever (WaitingJobRuns); once past it the promise holds again.
StatusPursued ==
    \A k \in Keys :
        LET s == store["svc"][k]
        IN  Started /\ NeedsUpdate(s)
              ~> ~NeedsUpdate(s) \/ held[k] # Absent \/ k \in gaveUp \/ ~Started

\* handler.go:70 drops a notification because "sync chan has waiting job":
\* a job waiting in syncChan is a job that will be run.
WaitingJobRuns == tokens > 0 ~> pc = "listSvc"
=============================================================================
