------------------------------ MODULE Firewalld ------------------------------
(***************************************************************************)
(* utils/iptables and utils/dbus: the goroutine that waits for FirewallD   *)
(* to start or reload, which empties the tables, and then runs the reload  *)
(* functions that write the rules again.  Signals reach it through a       *)
(* channel that the D-Bus library fills; Destroy sends it a nil.           *)
(*                                                                         *)
(* External: FirewallD, and the library, which starts a goroutine per      *)
(* signal.  That goroutine sends one copy per registration under a read    *)
(* lock, so signals overtake each other, wait when the channel is full and *)
(* keep out whoever registers or closes, which takes the write lock.       *)
(***************************************************************************)
EXTENDS Naturals, Sequences, FiniteSets

CONSTANTS
    Funcs,     \* functions for AddReloadFunc
    None,
    SigCap,    \* capacity of runner.signal, 10 in the code
    MaxEvents  \* bound on what FirewallD does

ASSUME FirewalldAssumption ==
    /\ None \notin Funcs
    /\ SigCap \in Nat \ {0}
    /\ MaxEvents \in Nat

VARIABLES
    firewalld,    \* "down", "starting", "up" or "reloading"
    events,       \* how often it started, stopped or reloaded
    connected,    \* the connection to the system bus is open
    registered,   \* how often runner.signal is registered with the bus
    spawned,      \* kind -> signals whose delivery has not begun
    sending,      \* kind -> copies being sent under the read lock
    signal,       \* runner.signal
    pc,           \* dbusSignalHandler
    reloadFuncs,  \* runner.reloadFuncs
    appending,    \* the function AddReloadFunc is appending, or None
    todo,         \* functions this reload has still to run
    destroy,      \* Destroy: "uncalled", "sending" or "returned"
    missing       \* history: registered functions whose rules FirewallD removed
                  \* and that have not run since

busVars     == <<connected, registered, spawned, sending>>
handlerVars == <<pc, todo>>
callerVars  == <<reloadFuncs, appending, destroy>>
fwVars      == <<firewalld, events>>
vars == <<fwVars, busVars, signal, handlerVars, callerVars, missing>>

Kinds == {"NewOwner", "NoOwner", "Reloaded"}

\* The process panicked.
Crashed == pc = "crashed"

-----------------------------------------------------------------------------
(* FirewallD: it owns its bus name before it empties the tables, and says  *)
(* that it has reloaded afterwards.                                        *)

Emit(k) == spawned' = IF connected THEN [spawned EXCEPT ![k] = @ + 1] ELSE spawned

Event(from, to) ==
    /\ firewalld = from /\ firewalld' = to
    /\ events < MaxEvents /\ events' = events + 1

Continue(from, to) == firewalld = from /\ firewalld' = to /\ UNCHANGED events

Flush == missing' = reloadFuncs

FirewalldStarts   == Event("down", "starting") /\ Emit("NewOwner") /\ UNCHANGED missing
FirewalldCleans   == Continue("starting", "up") /\ Flush /\ UNCHANGED spawned
FirewalldReloads  == Event("up", "reloading") /\ Flush /\ UNCHANGED spawned
FirewalldReloaded == Continue("reloading", "up") /\ Emit("Reloaded") /\ UNCHANGED missing
FirewalldStops    == Event("up", "down") /\ Emit("NoOwner") /\ UNCHANGED missing

FirewalldStep ==
    /\ \/ FirewalldStarts \/ FirewalldCleans \/ FirewalldReloads \/ FirewalldReloaded \/ FirewalldStops
    /\ UNCHANGED <<connected, registered, sending, signal, handlerVars, callerVars>>

-----------------------------------------------------------------------------
(* The D-Bus library. *)

Room == Len(signal) < SigCap

ReadLocked == \E k \in Kinds : sending[k] > 0

DeliverSignal ==
    /\ ~Crashed
    /\ \E k \in Kinds :
         \/ /\ spawned[k] > 0
            /\ spawned' = [spawned EXCEPT ![k] = @ - 1]
            /\ sending' = [sending EXCEPT ![k] = @ + registered]
            /\ UNCHANGED signal
         \/ /\ sending[k] > 0 /\ Room
            /\ sending' = [sending EXCEPT ![k] = @ - 1]
            /\ signal' = Append(signal, k)
            /\ UNCHANGED spawned
    /\ UNCHANGED <<fwVars, connected, registered, handlerVars, callerVars, missing>>

\* The connection breaks: each registered channel is closed, and closing one
\* twice is a panic.
Terminate ==
    /\ connected /\ ~ReadLocked /\ ~Crashed
    /\ connected' = FALSE
    /\ registered' = 0
    /\ spawned' = [k \in Kinds |-> 0]
    /\ pc' = IF registered > 1 THEN "crashed" ELSE pc
    /\ UNCHANGED <<fwVars, sending, signal, todo, callerVars, missing>>

-----------------------------------------------------------------------------
(* dbusSignalHandler. *)

\* The functions to run are those in the slice now.  While AddReloadFunc is
\* appending to it, the reader gets the old slice, the new one, or a length
\* and an array that do not belong together.
reload ==
    \/ pc' = "reload" /\ todo' = reloadFuncs
    \/ appending # None /\ pc' = "reload" /\ todo' = reloadFuncs \cup {appending}
    \/ appending # None /\ pc' = "crashed" /\ UNCHANGED todo

\* Mutant: the handler ends when FirewallD goes away.
receive_stops ==
    /\ pc = "recv" /\ signal # <<>> /\ signal' = Tail(signal)
    /\ \/ Head(signal) = "nil" /\ pc' = "unregister" /\ UNCHANGED todo
       \/ Head(signal) = "NewOwner" /\ pc' = "sync" /\ UNCHANGED todo
       \/ Head(signal) = "NoOwner" /\ pc' = "done" /\ UNCHANGED todo
       \/ Head(signal) = "Reloaded" /\ reload
    /\ UNCHANGED <<fwVars, busVars, callerVars, missing>>

receive ==
    /\ pc = "recv" /\ signal # <<>> /\ signal' = Tail(signal)
    /\ \/ Head(signal) = "nil" /\ pc' = "unregister" /\ UNCHANGED todo
       \/ Head(signal) = "NewOwner" /\ pc' = "sync" /\ UNCHANGED todo
       \/ Head(signal) = "NoOwner" /\ UNCHANGED <<pc, todo>>
       \/ Head(signal) = "Reloaded" /\ reload
    /\ UNCHANGED <<fwVars, busVars, callerVars, missing>>

\* range over a channel that is closed and empty ends.
receiveClosed ==
    /\ pc = "recv" /\ signal = <<>> /\ ~connected
    /\ pc' = "done"
    /\ UNCHANGED <<fwVars, busVars, signal, todo, callerVars, missing>>

\* Mutant: the reload does not wait for FirewallD.
Answers_atOnce == TRUE

\* FirewallD answers when it has started; a call to nobody, or over a broken
\* connection, fails, which is ignored.
Answers == firewalld # "starting" \/ ~connected

getDefaultZone ==
    /\ pc = "sync" /\ Answers /\ reload
    /\ UNCHANGED <<fwVars, busVars, signal, callerVars, missing>>

runFunc ==
    /\ pc = "reload"
    /\ \/ \E f \in todo :
            /\ todo' = todo \ {f} /\ missing' = missing \ {f} /\ UNCHANGED pc
       \/ todo = {} /\ pc' = "recv" /\ UNCHANGED <<todo, missing>>
    /\ UNCHANGED <<fwVars, busVars, signal, callerVars>>

\* Mutant: the handler goes on after the nil, its return is missing.
unregister_goesOn ==
    /\ pc = "unregister" /\ ~ReadLocked
    /\ registered' = IF connected THEN registered + 1 ELSE registered
    /\ pc' = "recv"
    /\ UNCHANGED <<fwVars, connected, spawned, sending, signal, todo, callerVars, missing>>

\* bus.Signal(runner.signal), a second time: addSignal appends to the list.
unregister ==
    /\ pc = "unregister" /\ ~ReadLocked
    /\ registered' = IF connected THEN registered + 1 ELSE registered
    /\ pc' = "done"
    /\ UNCHANGED <<fwVars, connected, spawned, sending, signal, todo, callerVars, missing>>

dbusSignalHandler == receive \/ receiveClosed \/ getDefaultZone \/ runFunc \/ unregister

-----------------------------------------------------------------------------
(* The callers of the runner. *)

\* append() writes several words.
AddReloadFunc ==
    /\ ~Crashed
    /\ \/ /\ appending = None
          /\ appending' \in Funcs \ reloadFuncs
          /\ UNCHANGED reloadFuncs
       \/ /\ appending # None
          /\ reloadFuncs' = reloadFuncs \cup {appending}
          /\ appending' = None
    /\ UNCHANGED <<fwVars, busVars, signal, handlerVars, destroy, missing>>

\* runner.signal is nil, and Destroy does nothing, without a system bus.
Destroy ==
    /\ destroy = "uncalled" /\ ~Crashed
    /\ destroy' = IF pc = "none" THEN "returned" ELSE "sending"
    /\ UNCHANGED <<fwVars, busVars, signal, handlerVars, reloadFuncs, appending, missing>>

\* A send on a closed channel is a panic.
DestroySends ==
    /\ destroy = "sending" /\ ~Crashed
    /\ IF connected
       THEN /\ Room /\ signal' = Append(signal, "nil")
            /\ destroy' = "returned" /\ UNCHANGED pc
       ELSE pc' = "crashed" /\ UNCHANGED <<signal, destroy>>
    /\ UNCHANGED <<fwVars, busVars, todo, reloadFuncs, appending, missing>>

-----------------------------------------------------------------------------
\* The connection to the system bus is there or cannot be had.
SystemBus == connected \in BOOLEAN

\* connectToFirewallD: without a system bus there is neither channel nor
\* handler.
Init ==
    /\ firewalld \in {"down", "up"} /\ events = 0
    /\ SystemBus
    /\ registered = IF connected THEN 1 ELSE 0
    /\ pc = IF connected THEN "recv" ELSE "none"
    /\ spawned = [k \in Kinds |-> 0] /\ sending = [k \in Kinds |-> 0]
    /\ signal = <<>>
    /\ reloadFuncs = {} /\ appending = None /\ todo = {}
    /\ destroy = "uncalled"
    /\ missing = {}

Next ==
    \/ FirewalldStep \/ DeliverSignal \/ Terminate
    \/ dbusSignalHandler
    \/ AddReloadFunc \/ Destroy \/ DestroySends

\* Goroutines that can run do, and FirewallD ends what it began.
Spec ==
    /\ Init /\ [][Next]_vars
    /\ WF_vars(DeliverSignal) /\ WF_vars(dbusSignalHandler) /\ WF_vars(DestroySends)
    /\ WF_vars(FirewalldStep /\ firewalld \in {"starting", "reloading"})

-----------------------------------------------------------------------------
(* Properties. *)

\* Type invariant.  The handler serves a channel that is registered once: the
\* second bus.Signal is the last thing it does, so no signal reaches it in two
\* copies and the library does not close its channel twice under it.
TypeOK ==
    /\ firewalld \in {"down", "starting", "up", "reloading"}
    /\ events \in 0..MaxEvents
    /\ connected \in BOOLEAN
    /\ registered \in 0..2
    /\ pc \notin {"done", "crashed"} => registered <= 1
    /\ spawned \in [Kinds -> Nat] /\ sending \in [Kinds -> Nat]
    /\ signal \in Seq(Kinds \cup {"nil"}) /\ Len(signal) <= SigCap
    /\ pc \in {"none", "recv", "sync", "reload", "unregister", "done", "crashed"}
    /\ reloadFuncs \subseteq Funcs
    /\ appending \in Funcs \cup {None}
    /\ todo \subseteq Funcs /\ missing \subseteq Funcs
    /\ destroy \in {"uncalled", "sending", "returned"}

\* Whenever FirewallD has removed the rules of a registered reload function,
\* that function is run again afterwards, in whatever order the signals come
\* in and however full the channel is; only Destroy, a broken bus connection
\* or a reload that read the slice during AddReloadFunc may prevent it.
RulesComeBack ==
    \A f \in Funcs :
        f \in missing ~> f \notin missing \/ ~connected \/ destroy # "uncalled" \/ Crashed

\* Destroy returns to its caller however full the channel is, because the
\* handler goes on receiving: it ends or, when the bus has closed the channel,
\* panics.
DestroyReturns == destroy = "sending" ~> destroy = "returned" \/ Crashed

\* dbus.go:42 says that Signal "registers or unregisters a channel", and the
\* handler calls it a second time to unregister: when it has ended, the bus no
\* longer sends to the channel.
DestroyUnregisters == pc = "done" => registered = 0
=============================================================================
