-------------------------- MODULE FirewalldProofs --------------------------
(* Theorems about Firewalld, for any reload functions and bounds. *)
EXTENDS Firewalld, TLAPS

\* What the proofs need of the constants.
LEMMA ConstantFacts == None \notin Funcs /\ SigCap \in Nat \ {0} /\ MaxEvents \in Nat
BY FirewalldAssumption

\* connectToFirewallD registers the channel once.
LEMMA InitType == Init => TypeOK
<1> SUFFICES ASSUME Init PROVE TypeOK
  OBVIOUS
<1> USE ConstantFacts
<1>1. events \in 0..MaxEvents /\ signal \in Seq(Kinds \cup {"nil"}) /\ Len(signal) <= SigCap
  BY DEF Init
<1>2. registered \in 0..1 /\ spawned \in [Kinds -> Nat] /\ sending \in [Kinds -> Nat]
  BY DEF Init
<1> QED
  BY <1>1, <1>2 DEF Init, SystemBus, TypeOK

\* FirewallD's own steps.
LEMMA FirewalldStepType == TypeOK /\ FirewalldStep => TypeOK'
<1> SUFFICES ASSUME TypeOK, FirewalldStep PROVE TypeOK'
  OBVIOUS
<1> USE ConstantFacts DEF TypeOK, FirewalldStep, handlerVars, callerVars
<1>1. events' \in 0..MaxEvents
  BY DEF FirewalldStarts, FirewalldCleans, FirewalldReloads, FirewalldReloaded, FirewalldStops, Event, Continue
<1>2. spawned' \in [Kinds -> Nat]
  <2>1. spawned \in [Kinds -> Nat]
    OBVIOUS
  <2>2. spawned' = spawned \/ \E k \in Kinds : spawned' = [spawned EXCEPT ![k] = @ + 1]
    <3> HIDE DEF TypeOK
    <3> QED
      BY DEF FirewalldStarts, FirewalldCleans, FirewalldReloads, FirewalldReloaded, FirewalldStops, Emit, Kinds
  <2> HIDE DEF TypeOK
  <2> QED
    BY <2>1, <2>2
<1>3. firewalld' \in {"down", "starting", "up", "reloading"} /\ missing' \subseteq Funcs
  BY DEF FirewalldStarts, FirewalldCleans, FirewalldReloads, FirewalldReloaded, FirewalldStops, Event, Continue, Flush
<1> QED
  BY <1>1, <1>2, <1>3

\* A send that waits for room does not overfill the channel.
LEMMA SignalFits ==
  ASSUME TypeOK, NEW x \in Kinds \cup {"nil"}, signal' = signal \/ (Room /\ signal' = Append(signal, x))
  PROVE  signal' \in Seq(Kinds \cup {"nil"}) /\ Len(signal') <= SigCap
<1>1. signal \in Seq(Kinds \cup {"nil"}) /\ Len(signal) \in Nat /\ Len(signal) <= SigCap /\ SigCap \in Nat
  BY ConstantFacts DEF TypeOK
<1> QED
  BY <1>1 DEF Room

\* A signal is put into the channel only when there is room.
LEMMA DeliverType == TypeOK /\ DeliverSignal => TypeOK'
<1> SUFFICES ASSUME TypeOK, DeliverSignal PROVE TypeOK'
  OBVIOUS
<1> USE ConstantFacts DEF TypeOK, fwVars, handlerVars, callerVars
<1>1. PICK k \in Kinds :
         \/ /\ spawned[k] > 0
            /\ spawned' = [spawned EXCEPT ![k] = @ - 1]
            /\ sending' = [sending EXCEPT ![k] = @ + registered]
            /\ UNCHANGED signal
         \/ /\ sending[k] > 0 /\ Room
            /\ sending' = [sending EXCEPT ![k] = @ - 1]
            /\ signal' = Append(signal, k)
            /\ UNCHANGED spawned
  BY DEF DeliverSignal
<1>2. spawned' \in [Kinds -> Nat] /\ sending' \in [Kinds -> Nat]
  <2>1. /\ spawned[k] > 0 => spawned[k] - 1 \in Nat
        /\ sending[k] > 0 => sending[k] - 1 \in Nat
        /\ sending[k] + registered \in Nat
    OBVIOUS
  <2> QED
    BY <1>1, <2>1
<1>3. signal' \in Seq(Kinds \cup {"nil"}) /\ Len(signal') <= SigCap
  BY <1>1, SignalFits DEF Kinds
<1> QED
  BY <1>2, <1>3 DEF DeliverSignal

\* The handler.
LEMMA HandlerType == TypeOK /\ dbusSignalHandler => TypeOK'
<1> SUFFICES ASSUME TypeOK, dbusSignalHandler PROVE TypeOK'
  OBVIOUS
<1> USE ConstantFacts DEF TypeOK, fwVars, busVars, callerVars
<1>1. CASE receive
  <2>1. signal' \in Seq(Kinds \cup {"nil"}) /\ Len(signal') <= SigCap
    BY <1>1 DEF receive
  <2> QED
    BY <1>1, <2>1 DEF receive, reload
<1>2. CASE receiveClosed
  BY <1>2 DEF receiveClosed
<1>3. CASE getDefaultZone
  BY <1>3 DEF getDefaultZone, reload
<1>4. CASE runFunc
  BY <1>4 DEF runFunc
<1>5. CASE unregister
  BY <1>5 DEF unregister
<1> QED
  BY <1>1, <1>2, <1>3, <1>4, <1>5 DEF dbusSignalHandler

\* Every step keeps the invariant.
LEMMA NextType == TypeOK /\ [Next]_vars => TypeOK'
<1> SUFFICES ASSUME TypeOK, [Next]_vars PROVE TypeOK'
  OBVIOUS
<1> USE ConstantFacts DEF TypeOK, fwVars, busVars, handlerVars, callerVars
<1>1. CASE Terminate
  <2>1. registered' \in 0..2 /\ registered' <= 1 /\ spawned' \in [Kinds -> Nat]
    BY <1>1 DEF Terminate
  <2>2. /\ pc' \in {"none", "recv", "sync", "reload", "unregister", "done", "crashed"}
        /\ connected' = FALSE /\ UNCHANGED <<fwVars, sending, signal, todo, callerVars, missing>>
    BY <1>1 DEF Terminate
  <2> QED
    BY <2>1, <2>2
<1>2. CASE AddReloadFunc
  BY <1>2 DEF AddReloadFunc
<1>3. CASE Destroy
  BY <1>3 DEF Destroy
<1>4. CASE DestroySends
  <2>1. signal' \in Seq(Kinds \cup {"nil"}) /\ Len(signal') <= SigCap
    BY <1>4, SignalFits DEF DestroySends
  <2> QED
    BY <1>4, <2>1 DEF DestroySends
<1>5. CASE UNCHANGED vars
  BY <1>5 DEF vars
<1> QED
  BY <1>1, <1>2, <1>3, <1>4, <1>5, FirewalldStepType, DeliverType, HandlerType DEF Next

\* However signals, Destroy and a broken connection interleave, runner.signal is
\* registered once as long as the handler receives, and twice only after it.
THEOREM TypeCorrect == Spec => []TypeOK
<1>1. Spec => Init /\ [][Next]_vars
  BY PTL DEF Spec
<1> QED
  BY <1>1, InitType, NextType, PTL

=============================================================================
