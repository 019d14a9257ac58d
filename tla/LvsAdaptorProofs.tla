-------------------------- MODULE LvsAdaptorProofs --------------------------
(* Theorems about LvsAdaptor, for any services, endpoints, kernel tables   *)
(* and bounds.                                                             *)
EXTENDS LvsAdaptor, TLAPS

-----------------------------------------------------------------------------
(* Virtual servers as the adaptor and as the kernel know them. *)

IsVirtualServer(v) ==
    v = [addr |-> v.addr, proto |-> v.proto, port |-> v.port] /\ v.proto \in {"TCP", "UDP"}

IsService(s) ==
    s = [addr |-> s.addr, proto |-> s.proto, port |-> s.port] /\ s.proto \in {6, 17}

\* What the proofs need of the constants.
LEMMA ConstantFacts ==
    /\ MaxFaults \in Nat /\ MaxChanges \in Nat
    /\ \A s \in InitialVSs \cup Strangers : IsService(s)
    /\ \A in \in Inputs : \A v \in portServiceMap(in) : getExpectRSs(in, v) \subseteq RealServers
BY LvsAdaptorAssumption, RealServersAssumption DEF IsService

\* The two protocols and their numbers.
LEMMA ProtocolNumbers ==
    /\ stringToProtocolNumber("TCP") = 6 /\ protocolNumbeToString(6) = "TCP"
    /\ stringToProtocolNumber("UDP") = 17 /\ protocolNumbeToString(17) = "UDP"
    /\ protocolIndex("TCP") = "TCP" /\ protocolIndex("UDP") = "UDP"
BY DEF stringToProtocolNumber, protocolNumbeToString, protocolIndex

\* Replacing the protocol of a record.
LEMMA OtherProto ==
    ASSUME NEW v, v = [addr |-> v.addr, proto |-> v.proto, port |-> v.port], NEW x
    PROVE  [v EXCEPT !.proto = x] = [addr |-> v.addr, proto |-> x, port |-> v.port]
OBVIOUS

\* A virtual server becomes a kernel service and is found again.
LEMMA ToKernel ==
    ASSUME NEW v, IsVirtualServer(v)
    PROVE  /\ IsService(toBackendService(v))
           /\ toVirtualServer(toBackendService(v)) = v
           /\ toBackendService(v) = Numbered(v)
           /\ Indexed(v) = v
<1> DEFINE n == IF v.proto = "UDP" THEN 17 ELSE 6
           s == [addr |-> v.addr, proto |-> n, port |-> v.port]
<1>1. stringToProtocolNumber(v.proto) = n /\ protocolNumbeToString(n) = v.proto /\ protocolIndex(v.proto) = v.proto
  BY ProtocolNumbers DEF IsVirtualServer
<1>2. toBackendService(v) = s /\ Numbered(v) = s /\ Indexed(v) = v
  BY <1>1, OtherProto DEF toBackendService, Numbered, Indexed, IsVirtualServer
<1>3. IsService(s) /\ s.proto = n
  BY DEF IsService
<1>4. toVirtualServer(s) = [addr |-> s.addr, proto |-> v.proto, port |-> s.port]
  BY <1>1, <1>3, OtherProto DEF toVirtualServer, IsService
<1> QED
  BY <1>2, <1>3, <1>4 DEF IsVirtualServer

\* And the other way round.
LEMMA FromKernel ==
    ASSUME NEW s, IsService(s)
    PROVE  IsVirtualServer(toVirtualServer(s)) /\ toBackendService(toVirtualServer(s)) = s
<1> DEFINE x == IF s.proto = 17 THEN "UDP" ELSE "TCP"
           v == [addr |-> s.addr, proto |-> x, port |-> s.port]
<1>1. protocolNumbeToString(s.proto) = x /\ stringToProtocolNumber(x) = s.proto
  BY ProtocolNumbers DEF IsService
<1>2. toVirtualServer(s) = v
  BY <1>1, OtherProto DEF toVirtualServer, IsService
<1>3. IsVirtualServer(v) /\ v.proto = x
  BY DEF IsVirtualServer
<1>4. toBackendService(v) = [addr |-> v.addr, proto |-> s.proto, port |-> v.port]
  BY <1>1, <1>3, OtherProto DEF toBackendService, IsVirtualServer
<1> QED
  BY <1>2, <1>3, <1>4 DEF IsService

\* Services are wanted under the VIP, and by the keys of portServiceMap.
LEMMA PortServiceMap ==
    ASSUME NEW in
    PROVE  /\ \A v \in portServiceMap(in) : IsVirtualServer(v) /\ v.addr = VIP
           /\ Wanted(in) = portServiceMap(in)
           /\ {Entry(v) : v \in portServiceMap(in)} = WantedEntries(in)
<1>1. \A p : IsVirtualServer(VirtualServer(p)) /\ VirtualServer(p).addr = VIP
  BY DEF VirtualServer, IsVirtualServer, protocolIndex
<1>2. Wanted(in) = portServiceMap(in)
  BY DEF Wanted, portServiceMap, VirtualServersOf
<1>3. \A v \in portServiceMap(in) : IsVirtualServer(v) /\ v.addr = VIP
  BY <1>1 DEF portServiceMap, VirtualServersOf
<1>4. {Entry(v) : v \in portServiceMap(in)} = WantedEntries(in)
  BY <1>2, <1>3 DEF WantedEntries, Entry
<1> QED
  BY <1>2, <1>3, <1>4

\* Everything the kernel may come to hold is TCP or UDP.
LEMMA AllAreServices ==
    /\ \A s \in AllServices : IsService(s)
    /\ \A in \in Inputs : \A v \in portServiceMap(in) : toBackendService(v) \in AllServices
    /\ InitialVSs \subseteq AllServices /\ Strangers \subseteq AllServices
BY ConstantFacts, PortServiceMap, ToKernel DEF AllServices

\* The entries that Build asks for are entries of virtual servers.
LEMMA WantedEntriesKnown == \A in \in Inputs : WantedEntries(in) \subseteq AllEntries
<1> SUFFICES ASSUME NEW in \in Inputs, NEW v \in portServiceMap(in) PROVE Entry(v) \in AllEntries
  BY PortServiceMap
<1>1. toVirtualServer(toBackendService(v)) = v /\ toBackendService(v) \in AllServices
  BY PortServiceMap, ToKernel, AllAreServices
<1> QED
  BY <1>1 DEF AllEntries

-----------------------------------------------------------------------------
(* The inductive invariant. *)

Expected(v) == getExpectRSs(input, v)
Ports       == portServiceMap(input)

\* Build's local variables, whatever has failed: it deletes only what is not
\* wanted and adds only what is.
Control ==
    /\ ipvs = [s \in DOMAIN ipvs |-> ipvs[s]]
    /\ ensure \in Seq(Range(constRules))
    /\ vss \subseteq {toVirtualServer(s) : s \in AllServices}
    /\ pc \in {"idle", "done"} => want = {}
    /\ pc \in {"createSet", "ensureRules", "delEntries", "getVSs"} => want = Ports
    /\ pc = "delEntries" => /\ dels \cap WantedEntries(input) = {}
                            /\ adds \subseteq WantedEntries(input)
    /\ pc \in {"getRSs", "syncRSs", "newRSs"} => cur \in Ports
    /\ pc \in {"syncRSs", "newRSs"} => /\ dels \cap Expected(cur) = {}
                                       /\ adds \subseteq Expected(cur)

\* What an undisturbed Build has already put right: connection tracking, ...
CleanSysctl == clean => sysctl

\* ... the rules, ...
CleanRules ==
    clean => /\ pc = "ensureRules" => Range(constRules) \subseteq rules \cup Range(ensure)
             /\ pc \notin {"idle", "createSet", "ensureRules"} => Range(constRules) \subseteq rules

\* ... the entries, ...
CleanEntries ==
    clean => /\ pc = "delEntries" => /\ WantedEntries(input) \subseteq entries \cup adds
                                     /\ entries \subseteq WantedEntries(input) \cup dels
             /\ pc \notin {"idle", "createSet", "ensureRules", "delEntries"}
                  => entries = WantedEntries(input)

\* ... the virtual servers checked or created so far, ...
Checking  == {"checkVS", "getRSs", "syncRSs"}
Creating  == {"createVSs", "newRSs", "done"}
Finished  == Ports \ want

CleanServers ==
    clean /\ pc \in Checking \cup Creating =>
        /\ pc \in Creating => vss = {}
        /\ vss \cap Finished = {}
        /\ \A s \in DOMAIN ipvs : toVirtualServer(s) \in vss \cup Finished
        /\ \A v \in vss \cup Finished : Known(v)
        /\ pc \in {"getRSs", "syncRSs", "newRSs"} => cur \in Finished

\* ... and their real servers.
CleanRealServers ==
    clean /\ pc \in Checking \cup Creating =>
        /\ \A v \in Finished : \/ RealServersAt(v) = Expected(v)
                               \/ v = cur /\ pc \in {"getRSs", "syncRSs", "newRSs"}
        /\ pc \in {"syncRSs", "newRSs"} => /\ Expected(cur) \subseteq RealServersAt(cur) \cup adds
                                           /\ RealServersAt(cur) \subseteq Expected(cur) \cup dels

BuildInv ==
    TypeOK /\ Control /\ CleanSysctl /\ CleanRules /\ CleanEntries /\ CleanServers /\ CleanRealServers

-----------------------------------------------------------------------------
(* What the calls into the kernel change. *)

\* A failure counts towards the bound, an undisturbed Build has none.
LEMMA Outcomes ==
    ASSUME TypeOK, Ok \/ Fails
    PROVE  /\ faults' \in 0..MaxFaults /\ clean' \in BOOLEAN
           /\ clean' => Ok /\ clean
<1>1. faults' \in 0..MaxFaults
  BY ConstantFacts DEF TypeOK, Ok, Fails, envVars
<1>2. clean' \in BOOLEAN /\ (clean' => Ok /\ clean)
  <2>1. CASE Ok
    <3>1. clean' = clean
      BY <2>1 DEF Ok, envVars
    <3> QED
      BY <2>1, <3>1 DEF TypeOK
  <2>2. CASE Fails
    BY <2>2 DEF Fails
  <2> QED
    BY <2>1, <2>2
<1> QED
  BY <1>1, <1>2

\* The rest of a list of rules.
LEMMA RangeOfTail ==
    ASSUME NEW S, NEW q \in Seq(S), q # <<>>
    PROVE  /\ Head(q) \in S /\ Tail(q) \in Seq(S)
           /\ Range(q) \subseteq {Head(q)} \cup Range(Tail(q)) /\ Range(Tail(q)) \subseteq S
<1>1. Head(q) \in S /\ Tail(q) \in Seq(S)
  OBVIOUS
<1>2. ASSUME NEW j \in DOMAIN q PROVE q[j] \in {Head(q)} \cup Range(Tail(q))
  <2>1. CASE j = 1
    BY <2>1
  <2>2. CASE j # 1
    <3>1. j - 1 \in DOMAIN Tail(q) /\ Tail(q)[j - 1] = q[j]
      BY <2>2
    <3> QED
      BY <3>1 DEF Range
  <2> QED
    BY <2>1, <2>2
<1>3. Range(q) \subseteq {Head(q)} \cup Range(Tail(q))
  BY <1>2 DEF Range
<1>4. Range(Tail(q)) \subseteq S
  BY <1>1 DEF Range
<1> QED
  BY <1>1, <1>3, <1>4

\* constRules is a list of its own elements.
LEMMA ConstRules == constRules \in Seq(Range(constRules)) /\ <<>> \in Seq(Range(constRules))
BY DEF constRules, Range

\* The tables after a virtual server was created, deleted or edited.
LEMMA CreatedServer ==
    ASSUME Control, NEW s, ipvs' = Created(s)
    PROVE  /\ ipvs' = [x \in DOMAIN ipvs' |-> ipvs'[x]]
           /\ DOMAIN ipvs' = DOMAIN ipvs \cup {s}
           /\ \A x \in DOMAIN ipvs : ipvs'[x] = ipvs[x]
           /\ s \notin DOMAIN ipvs => ipvs'[s] = {}
BY DEF Control, Created

\* DeleteVirtualServer and a flush leave the other servers alone.
LEMMA DeletedServer ==
    ASSUME Control, NEW D, D \subseteq DOMAIN ipvs, ipvs' = Restrict(ipvs, D)
    PROVE  /\ ipvs' = [x \in DOMAIN ipvs' |-> ipvs'[x]]
           /\ DOMAIN ipvs' = D
           /\ \A x \in D : ipvs'[x] = ipvs[x]
BY DEF Control, Restrict

\* AddRealServer and DeleteRealServer change one real server of one server.
LEMMA EditedServer ==
    ASSUME Control, NEW v, NEW r, AddRealServer(v, r) \/ DeleteRealServer(v, r)
    PROVE  /\ ipvs' = [x \in DOMAIN ipvs' |-> ipvs'[x]]
           /\ DOMAIN ipvs' = DOMAIN ipvs
           /\ \A x \in DOMAIN ipvs : x # toBackendService(v) => ipvs'[x] = ipvs[x]
           /\ Known(v) /\ AddRealServer(v, r)
                => ipvs'[toBackendService(v)] = ipvs[toBackendService(v)] \cup {r}
           /\ Known(v) /\ DeleteRealServer(v, r)
                => ipvs'[toBackendService(v)] = ipvs[toBackendService(v)] \ {r}
<1> DEFINE s == toBackendService(v)
<1>1. \/ ipvs' = IF s \in DOMAIN ipvs THEN [ipvs EXCEPT ![s] = ipvs[s] \cup {r}] ELSE ipvs
      \/ ipvs' = IF s \in DOMAIN ipvs THEN [ipvs EXCEPT ![s] = ipvs[s] \ {r}] ELSE ipvs
  BY DEF AddRealServer, DeleteRealServer, Known
<1>2. Known(v) <=> s \in DOMAIN ipvs
  BY DEF Known
<1> QED
  BY <1>1, <1>2 DEF Control, AddRealServer, DeleteRealServer

-----------------------------------------------------------------------------
(* Each step keeps the invariant. *)

\* Nothing is claimed of the kernel before the first Build.
LEMMA InitInv == Init => BuildInv
<1> SUFFICES ASSUME Init PROVE BuildInv
  OBVIOUS
<1>1. PICK D \in SUBSET InitialVSs : ipvs \in [D -> SUBSET RealServers]
  BY DEF Init
<1>2. faults \in 0..MaxFaults /\ changes \in 0..MaxChanges
  BY ConstantFacts DEF Init
<1>3. Range(ensure) = {} /\ ensure \in Seq(Range(constRules))
  BY ConstRules DEF Init, Range
<1>4. TypeOK
  BY <1>1, <1>2, <1>3, AllAreServices DEF Init, TypeOK, AllEntries
<1>5. Control
  BY <1>1, <1>3 DEF Init, Control
<1> QED
  BY <1>4, <1>5 DEF Init, BuildInv, CleanSysctl, CleanRules, CleanEntries, CleanServers, CleanRealServers

\* The steps of buildIptables().
LEMMA HostTypes ==
    ASSUME BuildInv, CreateSet \/ EnsureRule \/ ListEntries \/ DelEntry \/ AddEntry \/ EntriesDone
    PROVE  TypeOK' /\ Control'
<1> USE DEF BuildInv, kernelVars, localVars, envVars, Ports, Expected, Goto, At
<1>1. CASE CreateSet
  <2>1. faults' \in 0..MaxFaults /\ clean' \in BOOLEAN
    BY <1>1, Outcomes DEF CreateSet
  <2>2. ensure' \in Seq(Range(constRules)) /\ Range(ensure') \subseteq Range(constRules)
    BY <1>1, ConstRules DEF CreateSet, Control, TypeOK
  <2> QED
    BY <1>1, <2>1, <2>2 DEF CreateSet, TypeOK, Control
<1>2. CASE EnsureRule
  <2>1. faults' \in 0..MaxFaults /\ clean' \in BOOLEAN
    BY <1>2, Outcomes DEF EnsureRule
  <2>2. /\ Head(ensure) \in Range(constRules) /\ ensure' \in Seq(Range(constRules))
        /\ Range(ensure') \subseteq Range(constRules)
    BY <1>2, RangeOfTail DEF EnsureRule, Control
  <2> QED
    BY <1>2, <2>1, <2>2 DEF EnsureRule, TypeOK, Control
<1>3. CASE ListEntries
  <2>1. faults' \in 0..MaxFaults /\ clean' \in BOOLEAN
    BY <1>3, Outcomes DEF ListEntries
  <2>2. expectEntries = WantedEntries(input)
    BY <1>3, PortServiceMap DEF ListEntries, Control, expectEntries
  <2> QED
    BY <1>3, <2>1, <2>2 DEF ListEntries, TypeOK, Control
<1>4. CASE DelEntry
  <2>1. faults' \in 0..MaxFaults /\ clean' \in BOOLEAN
    BY <1>4, Outcomes DEF DelEntry
  <2> QED
    BY <1>4, <2>1 DEF DelEntry, ipsetDelEntry, TypeOK, Control
<1>5. CASE AddEntry
  <2>1. faults' \in 0..MaxFaults /\ clean' \in BOOLEAN
    BY <1>5, Outcomes DEF AddEntry
  <2>2. adds \subseteq AllEntries
    BY <1>5, WantedEntriesKnown DEF AddEntry, TypeOK, Control
  <2> QED
    BY <1>5, <2>1, <2>2 DEF AddEntry, ipsetAddEntry, TypeOK, Control
<1>6. CASE EntriesDone
  BY <1>6 DEF EntriesDone, TypeOK, Control
<1> QED
  BY <1>1, <1>2, <1>3, <1>4, <1>5, <1>6

\* A virtual server that was read is not lost in the conversions.
LEMMA VssAreServers ==
    ASSUME Control, NEW v \in vss
    PROVE  IsVirtualServer(v) /\ toBackendService(v) \in AllServices /\ Indexed(v) = v
<1>1. PICK s \in AllServices : v = toVirtualServer(s)
  BY DEF Control
<1> QED
  BY <1>1, AllAreServices, FromKernel, ToKernel

\* The steps that follow it.
LEMMA ServerTypes ==
    ASSUME BuildInv,
           \/ GetVirtualServers \/ CheckUnwanted \/ CheckWanted \/ GetRealServers \/ DelRealServer
           \/ AddOneRealServer \/ RealServersDone \/ ChecksDone \/ CreateVirtualServer \/ BuildReturns
    PROVE  TypeOK' /\ Control'
<1> USE DEF BuildInv, kernelVars, localVars, envVars, Ports, Expected, Goto, At
<1>1. CASE GetVirtualServers
  <2>1. faults' \in 0..MaxFaults /\ clean' \in BOOLEAN
    BY <1>1, Outcomes DEF GetVirtualServers
  <2> QED
    BY <1>1, <2>1 DEF GetVirtualServers, TypeOK, Control
<1>2. CASE CheckUnwanted
  <2>1. faults' \in 0..MaxFaults /\ clean' \in BOOLEAN
    BY <1>2, Outcomes DEF CheckUnwanted
  <2>2. /\ ipvs' = [s \in DOMAIN ipvs' |-> ipvs'[s]]
        /\ DOMAIN ipvs' \subseteq DOMAIN ipvs /\ \A s \in DOMAIN ipvs' : ipvs'[s] = ipvs[s]
    BY <1>2, DeletedServer DEF CheckUnwanted, DeleteVirtualServer, Control
  <2> QED
    BY <1>2, <2>1, <2>2 DEF CheckUnwanted, TypeOK, Control
<1>3. CASE CheckWanted
  <2>1. PICK v \in vss : ~Unwanted(v) /\ vss' = vss \ {v} /\ want' = want \ {Indexed(v)} /\ cur' = v
    BY <1>3 DEF CheckWanted
  <2>2. v \in want
    BY <2>1, VssAreServers DEF Unwanted
  <2> QED
    BY <1>3, <2>1, <2>2 DEF CheckWanted, TypeOK, Control
<1>4. CASE GetRealServers
  <2>1. faults' \in 0..MaxFaults /\ clean' \in BOOLEAN
    BY <1>4, Outcomes DEF GetRealServers
  <2>2. Indexed(cur) = cur
    BY <1>4, PortServiceMap, ToKernel DEF GetRealServers, Control
  <2> QED
    BY <1>4, <2>1, <2>2 DEF GetRealServers, TypeOK, Control
<1>5. CASE DelRealServer
  <2>1. faults' \in 0..MaxFaults /\ clean' \in BOOLEAN
    BY <1>5, Outcomes DEF DelRealServer
  <2>2. PICK r \in dels : dels' = dels \ {r} /\ (DeleteRealServer(cur, r) \/ UNCHANGED ipvs)
    BY <1>5 DEF DelRealServer
  <2>3. /\ ipvs' = [s \in DOMAIN ipvs' |-> ipvs'[s]]
        /\ DOMAIN ipvs' = DOMAIN ipvs /\ \A s \in DOMAIN ipvs : ipvs'[s] \subseteq ipvs[s]
    <3>1. CASE UNCHANGED ipvs
      BY <3>1 DEF Control
    <3>2. CASE DeleteRealServer(cur, r) /\ Known(cur)
      BY <3>2, EditedServer DEF Control
    <3>3. CASE DeleteRealServer(cur, r) /\ ~Known(cur)
      BY <3>3 DEF Control, DeleteRealServer
    <3> QED
      BY <2>2, <3>1, <3>2, <3>3
  <2> QED
    BY <1>5, <2>1, <2>2, <2>3 DEF DelRealServer, TypeOK, Control
<1>6. CASE AddOneRealServer
  <2>1. faults' \in 0..MaxFaults /\ clean' \in BOOLEAN
    BY <1>6, Outcomes DEF AddOneRealServer
  <2>2. PICK r \in adds : adds' = adds \ {r} /\ (AddRealServer(cur, r) \/ UNCHANGED ipvs)
    BY <1>6 DEF AddOneRealServer
  <2>3. r \in RealServers
    BY <1>6, <2>2, ConstantFacts DEF AddOneRealServer, Control, TypeOK
  <2>4. /\ ipvs' = [s \in DOMAIN ipvs' |-> ipvs'[s]]
        /\ DOMAIN ipvs' = DOMAIN ipvs /\ \A s \in DOMAIN ipvs : ipvs'[s] \subseteq ipvs[s] \cup {r}
    <3>1. CASE UNCHANGED ipvs
      BY <3>1 DEF Control
    <3>2. CASE AddRealServer(cur, r) /\ Known(cur)
      BY <3>2, EditedServer DEF Control
    <3>3. CASE AddRealServer(cur, r) /\ ~Known(cur)
      BY <3>3 DEF Control, AddRealServer
    <3> QED
      BY <2>2, <3>1, <3>2, <3>3
  <2> QED
    BY <1>6, <2>1, <2>2, <2>3, <2>4 DEF AddOneRealServer, TypeOK, Control
<1>7. CASE RealServersDone \/ ChecksDone \/ BuildReturns
  BY <1>7 DEF RealServersDone, ChecksDone, BuildReturns, TypeOK, Control
<1>8. CASE CreateVirtualServer
  <2>1. faults' \in 0..MaxFaults /\ clean' \in BOOLEAN
    BY <1>8, Outcomes DEF CreateVirtualServer
  <2>2. PICK v \in want :
          /\ want' = want \ {v}
          /\ \/ /\ AddVirtualServer(v) /\ ~Known(v) /\ pc' = "newRSs" /\ cur' = v
                /\ dels' = {} /\ adds' = getExpectRSs(input, v)
             \/ UNCHANGED <<ipvs, pc, cur, dels, adds>>
    BY <1>8 DEF CreateVirtualServer
  <2>3. toBackendService(v) \in AllServices
    BY <2>2, AllAreServices DEF TypeOK
  <2>4. /\ ipvs' = [s \in DOMAIN ipvs' |-> ipvs'[s]]
        /\ DOMAIN ipvs' \subseteq AllServices /\ \A s \in DOMAIN ipvs' : ipvs'[s] \subseteq RealServers
    <3>1. CASE UNCHANGED ipvs
      BY <3>1 DEF Control, TypeOK
    <3>2. CASE AddVirtualServer(v) /\ ~Known(v)
      <4> DEFINE s == toBackendService(v)
      <4>1. ipvs' = Created(s) /\ s \notin DOMAIN ipvs
        BY <3>2 DEF AddVirtualServer, Known
      <4> HIDE DEF s
      <4>2. /\ ipvs' = [x \in DOMAIN ipvs' |-> ipvs'[x]]
            /\ DOMAIN ipvs' = DOMAIN ipvs \cup {s}
            /\ \A x \in DOMAIN ipvs : ipvs'[x] = ipvs[x]
            /\ ipvs'[s] = {}
        BY <4>1, CreatedServer
      <4> QED
        BY <2>3, <4>2 DEF TypeOK, s
    <3> QED
      BY <2>2, <3>1, <3>2
  <2> QED
    BY <1>8, <2>1, <2>2, <2>4 DEF CreateVirtualServer, TypeOK, Control
<1> QED
  BY <1>1, <1>2, <1>3, <1>4, <1>5, <1>6, <1>7, <1>8

Clean == CleanSysctl /\ CleanRules /\ CleanEntries /\ CleanServers /\ CleanRealServers

\* What buildIptables() has done so far stays done.
LEMMA HostClean ==
    ASSUME BuildInv, CreateSet \/ EnsureRule \/ ListEntries \/ DelEntry \/ AddEntry \/ EntriesDone
    PROVE  Clean'
<1> USE DEF kernelVars, localVars, envVars, Goto, At, Checking, Creating
<1> SUFFICES ASSUME clean' PROVE Clean'
  BY DEF Clean, CleanSysctl, CleanRules, CleanEntries, CleanServers, CleanRealServers
<1>0. TypeOK /\ clean /\ Ok
  BY Outcomes DEF BuildInv, CreateSet, EnsureRule, ListEntries, DelEntry, AddEntry, EntriesDone, Ok
<1>1. ~Fails
  BY <1>0 DEF Fails
<1>2. sysctl' /\ input' = input /\ pc' \in {"ensureRules", "delEntries", "getVSs"}
  BY <1>0, <1>1 DEF BuildInv, CleanSysctl, CreateSet, EnsureRule, ListEntries, DelEntry, AddEntry, EntriesDone
<1>3. CleanSysctl' /\ CleanServers' /\ CleanRealServers'
  BY <1>2 DEF CleanSysctl, CleanServers, CleanRealServers
<1>4. CleanRules'
  <2>1. CASE EnsureRule
    <3>1. Range(ensure) \subseteq {Head(ensure)} \cup Range(Tail(ensure))
      BY <2>1, RangeOfTail DEF EnsureRule, BuildInv, Control
    <3> QED
      BY <1>0, <1>1, <2>1, <3>1 DEF BuildInv, CleanRules, EnsureRule
  <2>2. CASE CreateSet
    BY <1>1, <2>2 DEF CreateSet, CleanRules
  <2>3. CASE ListEntries
    <3>1. Range(ensure) = {}
      BY <2>3 DEF ListEntries, Range
    <3> QED
      BY <1>0, <1>1, <2>3, <3>1 DEF ListEntries, CleanRules, BuildInv
  <2>4. CASE DelEntry \/ AddEntry \/ EntriesDone
    BY <1>0, <2>4 DEF DelEntry, AddEntry, EntriesDone, CleanRules, BuildInv
  <2> QED
    BY <2>1, <2>2, <2>3, <2>4
<1>5. CleanEntries'
  <2>1. CASE CreateSet \/ EnsureRule
    BY <1>1, <2>1 DEF CreateSet, EnsureRule, CleanEntries
  <2>2. CASE ListEntries
    <3>1. expectEntries = WantedEntries(input)
      BY <2>2, PortServiceMap DEF ListEntries, BuildInv, Control, expectEntries, Ports
    <3> QED
      BY <1>1, <2>2, <3>1 DEF ListEntries, CleanEntries
  <2>3. CASE DelEntry
    BY <1>0, <1>1, <2>3 DEF DelEntry, ipsetDelEntry, CleanEntries, BuildInv, Control
  <2>4. CASE AddEntry
    BY <1>0, <1>1, <2>4 DEF AddEntry, ipsetAddEntry, CleanEntries, BuildInv, Control
  <2>5. CASE EntriesDone
    BY <1>0, <2>5 DEF EntriesDone, CleanEntries, BuildInv
  <2> QED
    BY <2>1, <2>2, <2>3, <2>4, <2>5
<1> QED
  BY <1>3, <1>4, <1>5 DEF Clean

\* The rest of Build leaves that alone.
LEMMA HostStaysClean ==
    ASSUME BuildInv, clean', clean, UNCHANGED <<sysctl, rules, entries, input>>,
           pc \in {"getVSs"} \cup Checking \cup Creating, pc' \in {"getVSs"} \cup Checking \cup Creating
    PROVE  CleanSysctl' /\ CleanRules' /\ CleanEntries'
BY DEF BuildInv, CleanSysctl, CleanRules, CleanEntries, Checking, Creating

\* Virtual servers and kernel services correspond one to one.
LEMMA OneToOne ==
    ASSUME BuildInv
    PROVE  /\ \A v \in vss \cup Ports, w \in vss \cup Ports : toBackendService(v) = toBackendService(w) => v = w
           /\ \A v \in vss \cup Ports : toVirtualServer(toBackendService(v)) = v /\ Indexed(v) = v
           /\ \A s \in DOMAIN ipvs : toBackendService(toVirtualServer(s)) = s
<1>1. \A v \in vss \cup Ports : IsVirtualServer(v)
  BY VssAreServers, PortServiceMap DEF BuildInv, Ports
<1>2. \A s \in DOMAIN ipvs : IsService(s)
  BY AllAreServices DEF BuildInv, TypeOK
<1>3. \A v \in vss \cup Ports : toVirtualServer(toBackendService(v)) = v /\ Indexed(v) = v
  BY <1>1, ToKernel
<1>4. \A s \in DOMAIN ipvs : toBackendService(toVirtualServer(s)) = s
  BY <1>2, FromKernel
<1> QED
  BY <1>3, <1>4

\* The kernel's answer is the list of what is to be checked.
LEMMA GetVirtualServersClean ==
    ASSUME BuildInv, GetVirtualServers, clean'
    PROVE  CleanServers' /\ CleanRealServers'
<1>1. pc' = "checkVS" /\ vss' = {toVirtualServer(s) : s \in DOMAIN ipvs} /\ UNCHANGED <<ipvs, want, input>>
  BY DEF GetVirtualServers, Fails, Goto, kernelVars
<1>2. Finished' = {}
  BY <1>1 DEF GetVirtualServers, Goto, BuildInv, Control, Finished, Ports
<1>3. \A v \in vss' : toBackendService(v) \in DOMAIN ipvs
  BY <1>1, OneToOne
<1> QED
  BY <1>1, <1>2, <1>3 DEF CleanServers, CleanRealServers, Checking, Creating, Known

\* A virtual server that nobody wants is removed and takes no other along.
LEMMA CheckUnwantedClean ==
    ASSUME BuildInv, CheckUnwanted, clean', clean
    PROVE  CleanServers' /\ CleanRealServers'
<1>1. PICK v \in vss : Unwanted(v) /\ vss' = vss \ {v} /\ DeleteVirtualServer(v)
  BY DEF CheckUnwanted, Fails
<1> DEFINE s == toBackendService(v)
<1>2. /\ pc = "checkVS" /\ pc' = "checkVS" /\ UNCHANGED <<input, want, cur>>
  BY DEF CheckUnwanted, At
<1>3. DOMAIN ipvs' = DOMAIN ipvs \ {s} /\ \A x \in DOMAIN ipvs' : ipvs'[x] = ipvs[x]
  BY <1>1, DeletedServer DEF DeleteVirtualServer, BuildInv
<1>4. Finished' = Finished /\ Finished \subseteq Ports /\ v \notin Finished
  BY <1>1, <1>2 DEF Finished, Ports, BuildInv, CleanServers, Checking
<1>5. \A w \in vss' \cup Finished : toBackendService(w) # s /\ toBackendService(w) \in DOMAIN ipvs
  BY <1>1, <1>2, <1>4, OneToOne DEF BuildInv, CleanServers, Checking, Known
<1>6. \A x \in DOMAIN ipvs' : toVirtualServer(x) \in vss' \cup Finished
  BY <1>1, <1>2, <1>3, OneToOne DEF BuildInv, CleanServers, Checking
<1> HIDE DEF s
<1>7. CleanServers'
  BY <1>1, <1>2, <1>3, <1>4, <1>5, <1>6 DEF BuildInv, CleanServers, Checking, Creating, Known
<1>8. CleanRealServers'
  BY <1>2, <1>3, <1>4, <1>5 DEF BuildInv, CleanRealServers, Checking, Creating, RealServersAt, Expected
<1> QED
  BY <1>7, <1>8

\* A wanted one is taken up.
LEMMA CheckWantedClean ==
    ASSUME BuildInv, CheckWanted, clean', clean
    PROVE  CleanServers' /\ CleanRealServers'
<1>1. PICK v \in vss : ~Unwanted(v) /\ vss' = vss \ {v} /\ want' = want \ {Indexed(v)} /\ cur' = v
  BY DEF CheckWanted
<1>2. pc = "checkVS" /\ pc' = "getRSs" /\ UNCHANGED <<ipvs, input>>
  BY DEF CheckWanted, Goto, kernelVars
<1>3. v \in want /\ want' = want \ {v} /\ v \in Ports
  BY <1>1, OneToOne DEF Unwanted, BuildInv, TypeOK, Ports
<1>4. Finished' = Finished \cup {v} /\ v \notin Finished
  BY <1>2, <1>3 DEF Finished, Ports
<1>5. CleanServers'
  BY <1>1, <1>2, <1>4 DEF BuildInv, CleanServers, Checking, Creating, Known
<1>6. CleanRealServers'
  BY <1>1, <1>2, <1>4 DEF BuildInv, CleanRealServers, Checking, Creating, RealServersAt, Expected
<1> QED
  BY <1>5, <1>6

\* Its real servers are read and compared.
LEMMA GetRealServersClean ==
    ASSUME BuildInv, GetRealServers, clean', clean
    PROVE  CleanServers' /\ CleanRealServers'
<1>1. pc = "getRSs" /\ UNCHANGED <<ipvs, input, vss, want, cur>>
  BY DEF GetRealServers, Goto, kernelVars
<1>2. cur \in Finished /\ Known(cur) /\ Indexed(cur) = cur
  BY <1>1, OneToOne DEF BuildInv, CleanServers, Checking, Finished
<1>3. /\ pc' = "syncRSs" /\ dels' = RealServersAt(cur) \ Expected(cur)
      /\ adds' = Expected(cur) \ RealServersAt(cur)
  BY <1>2 DEF GetRealServers, Fails, Goto, Expected
<1>4. CleanServers'
  BY <1>1, <1>3 DEF BuildInv, CleanServers, Checking, Creating, Known, Finished, Ports
<1>5. CleanRealServers'
  BY <1>1, <1>3 DEF BuildInv, CleanRealServers, Checking, Creating, RealServersAt, Finished, Ports, Expected
<1> QED
  BY <1>4, <1>5

\* One real server is deleted or added; the other virtual servers keep theirs.
LEMMA EditClean ==
    ASSUME BuildInv, clean', clean, pc \in {"syncRSs", "newRSs"}, UNCHANGED <<pc, input, vss, want, cur>>,
           \E r : \/ r \in dels /\ dels' = dels \ {r} /\ UNCHANGED adds /\ DeleteRealServer(cur, r)
                  \/ r \in adds /\ adds' = adds \ {r} /\ UNCHANGED dels /\ AddRealServer(cur, r)
    PROVE  CleanServers' /\ CleanRealServers'
<1>1. PICK r : \/ r \in dels /\ dels' = dels \ {r} /\ UNCHANGED adds /\ DeleteRealServer(cur, r)
               \/ r \in adds /\ adds' = adds \ {r} /\ UNCHANGED dels /\ AddRealServer(cur, r)
  OBVIOUS
<1> DEFINE s == toBackendService(cur)
<1>2. cur \in Finished /\ Known(cur) /\ Finished' = Finished /\ Finished \subseteq Ports
  BY DEF BuildInv, CleanServers, Checking, Creating, Finished, Ports
<1>3. /\ DOMAIN ipvs' = DOMAIN ipvs /\ \A x \in DOMAIN ipvs : x # s => ipvs'[x] = ipvs[x]
      /\ AddRealServer(cur, r) => ipvs'[s] = ipvs[s] \cup {r}
      /\ DeleteRealServer(cur, r) => ipvs'[s] = ipvs[s] \ {r}
  BY <1>1, <1>2, EditedServer DEF BuildInv
<1>4. \A v \in Finished : v # cur => toBackendService(v) # s
  BY <1>2, OneToOne
<1>5. \A v \in Finished : toBackendService(v) \in DOMAIN ipvs
  BY DEF BuildInv, CleanServers, Checking, Creating, Known
<1> HIDE DEF s
<1>6. CleanServers'
  BY <1>2, <1>3 DEF BuildInv, CleanServers, Checking, Creating, Known
<1>7. \A v \in Finished : v # cur => ipvs'[toBackendService(v)] = Expected(v)
  BY <1>3, <1>4, <1>5 DEF BuildInv, CleanRealServers, Checking, Creating, RealServersAt
<1>8. Expected(cur) \subseteq ipvs'[s] \cup adds' /\ ipvs'[s] \subseteq Expected(cur) \cup dels'
  <2>1. Expected(cur) \subseteq ipvs[s] \cup adds /\ ipvs[s] \subseteq Expected(cur) \cup dels
    BY DEF BuildInv, CleanRealServers, Checking, Creating, RealServersAt, s
  <2>2. dels \cap Expected(cur) = {} /\ adds \subseteq Expected(cur)
    BY DEF BuildInv, Control
  <2> QED
    BY <1>1, <1>3, <2>1, <2>2
<1>9. CleanRealServers'
  BY <1>2, <1>7, <1>8 DEF CleanRealServers, Checking, Creating, RealServersAt, Expected, s
<1> QED
  BY <1>6, <1>9

\* A virtual server that is missing is created, and is really missing.
LEMMA CreateVirtualServerClean ==
    ASSUME BuildInv, CreateVirtualServer, clean', clean
    PROVE  CleanServers' /\ CleanRealServers'
<1>1. PICK v \in want :
         /\ want' = want \ {v}
         /\ \/ /\ AddVirtualServer(v) /\ ~Known(v) /\ pc' = "newRSs" /\ cur' = v
               /\ dels' = {} /\ adds' = getExpectRSs(input, v)
            \/ Known(v)
  BY DEF CreateVirtualServer, Fails
<1> DEFINE s == toBackendService(v)
<1>2. pc = "createVSs" /\ vss = {} /\ UNCHANGED <<input, vss>>
  BY DEF CreateVirtualServer, At, BuildInv, CleanServers, Creating
<1>3. v \in Ports /\ v \notin Finished /\ Finished \subseteq Ports
  BY <1>1 DEF BuildInv, TypeOK, Ports, Finished
<1>4. ~Known(v)
  BY <1>2, <1>3, OneToOne DEF Known, BuildInv, CleanServers, Creating
<1>5. /\ DOMAIN ipvs' = DOMAIN ipvs \cup {s} /\ ipvs'[s] = {}
      /\ \A x \in DOMAIN ipvs : ipvs'[x] = ipvs[x]
  BY <1>1, <1>4, CreatedServer DEF AddVirtualServer, BuildInv, Known
<1>6. Finished' = Finished \cup {v}
  BY <1>1, <1>2, <1>3 DEF Finished, Ports
<1>7. \A w \in Finished : toBackendService(w) \in DOMAIN ipvs
  BY <1>2 DEF BuildInv, CleanServers, Creating, Known
<1>8. toVirtualServer(s) = v
  BY <1>3, OneToOne
<1> HIDE DEF s
<1>9. CleanServers'
  BY <1>1, <1>2, <1>4, <1>5, <1>6, <1>7, <1>8 DEF BuildInv, CleanServers, Checking, Creating, Known, s
<1>10. CleanRealServers'
  BY <1>1, <1>2, <1>4, <1>5, <1>6, <1>7
     DEF BuildInv, CleanRealServers, Checking, Creating, RealServersAt, Expected, s
<1> QED
  BY <1>9, <1>10

\* The loops end when there is nothing left to do.
LEMMA LoopEndsClean ==
    ASSUME BuildInv, RealServersDone \/ ChecksDone \/ BuildReturns, clean', clean
    PROVE  CleanServers' /\ CleanRealServers'
<1>1. UNCHANGED <<ipvs, input, vss, want, cur, dels, adds>>
  BY DEF RealServersDone, ChecksDone, BuildReturns, kernelVars, localVars
<1>2. Finished' = Finished
  BY <1>1 DEF Finished, Ports
<1>3. CleanServers'
  BY <1>1, <1>2 DEF RealServersDone, ChecksDone, BuildReturns, Goto, BuildInv, CleanServers, Checking, Creating, Known
<1>4. \A v \in Finished : RealServersAt(v) = Expected(v)
  <2>1. CASE ChecksDone \/ BuildReturns
    BY <2>1 DEF ChecksDone, BuildReturns, Goto, BuildInv, CleanRealServers, Checking, Creating
  <2>2. CASE RealServersDone
    BY <2>2 DEF RealServersDone, Goto, BuildInv, CleanRealServers, Checking, Creating
  <2> QED
    BY <2>1, <2>2
<1>5. pc' \notin {"getRSs", "syncRSs", "newRSs"}
  BY DEF RealServersDone, ChecksDone, BuildReturns, Goto
<1>6. CleanRealServers'
  BY <1>1, <1>2, <1>4, <1>5 DEF CleanRealServers, RealServersAt, Expected
<1> QED
  BY <1>3, <1>6

ServerStep ==
    \/ GetVirtualServers \/ CheckUnwanted \/ CheckWanted \/ GetRealServers \/ DelRealServer
    \/ AddOneRealServer \/ RealServersDone \/ ChecksDone \/ CreateVirtualServer \/ BuildReturns

\* The steps on the IPVS tables keep what an undisturbed Build has achieved.
LEMMA ServerClean ==
    ASSUME BuildInv, ServerStep
    PROVE  Clean'
<1> SUFFICES ASSUME clean' PROVE Clean'
  BY DEF Clean, CleanSysctl, CleanRules, CleanEntries, CleanServers, CleanRealServers
<1> USE DEF ServerStep, kernelVars, localVars, envVars, Goto, At
<1>1. TypeOK /\ clean /\ Ok
  BY Outcomes DEF BuildInv, GetVirtualServers, CheckUnwanted, CheckWanted, GetRealServers, DelRealServer,
                  AddOneRealServer, RealServersDone, ChecksDone, CreateVirtualServer, BuildReturns, Ok
<1>2. ~Fails
  BY <1>1 DEF Fails
<1>3. /\ pc \in {"getVSs"} \cup Checking \cup Creating /\ pc' \in {"getVSs"} \cup Checking \cup Creating
      /\ UNCHANGED <<sysctl, rules, entries, input>>
  BY DEF GetVirtualServers, CheckUnwanted, CheckWanted, GetRealServers, DelRealServer, AddOneRealServer,
         RealServersDone, ChecksDone, CreateVirtualServer, BuildReturns, Checking, Creating
<1>4. CleanSysctl' /\ CleanRules' /\ CleanEntries'
  BY <1>1, <1>3, HostStaysClean
<1>5. CASE DelRealServer \/ AddOneRealServer
  <2>1. \E r : \/ r \in dels /\ dels' = dels \ {r} /\ UNCHANGED adds /\ DeleteRealServer(cur, r)
               \/ r \in adds /\ adds' = adds \ {r} /\ UNCHANGED dels /\ AddRealServer(cur, r)
    BY <1>2, <1>5 DEF DelRealServer, AddOneRealServer
  <2>2. pc \in {"syncRSs", "newRSs"} /\ UNCHANGED <<pc, input, vss, want, cur>>
    BY <1>5 DEF DelRealServer, AddOneRealServer
  <2> QED
    BY <1>1, <1>4, <2>1, <2>2, EditClean DEF Clean
<1> QED
  BY <1>1, <1>4, <1>5, GetVirtualServersClean, CheckUnwantedClean, CheckWantedClean, GetRealServersClean,
     LoopEndsClean, CreateVirtualServerClean DEF Clean

\* The daemon is killed, the kernel is changed, or other services are listed.
LEMMA EnvironmentInv ==
    ASSUME BuildInv, NewInput \/ Crash \/ Interference
    PROVE  BuildInv'
<1> USE ConstantFacts DEF kernelVars, localVars, envVars
<1>1. CASE NewInput
  <2>1. TypeOK' /\ Control'
    BY <1>1 DEF NewInput, BuildInv, TypeOK, Control
  <2> QED
    BY <1>1, <2>1 DEF NewInput, BuildInv, CleanSysctl, CleanRules, CleanEntries, CleanServers, CleanRealServers,
                      Checking, Creating
<1>2. CASE Crash \/ Interference
  <2>1. faults' \in 0..MaxFaults /\ clean' = FALSE
    BY <1>2, Outcomes DEF Crash, Interference, Fails, BuildInv
  <2>2. TypeOK' /\ Control'
    <3>1. CASE Crash
      <4>1. Range(ensure') = {} /\ ensure' \in Seq(Range(constRules))
        BY <3>1, ConstRules DEF Crash, Range
      <4> QED
        BY <2>1, <3>1, <4>1 DEF Crash, BuildInv, TypeOK, Control
    <3>2. CASE Interference
      <4>1. /\ ipvs' = [s \in DOMAIN ipvs' |-> ipvs'[s]]
            /\ DOMAIN ipvs' \subseteq AllServices /\ \A s \in DOMAIN ipvs' : ipvs'[s] \subseteq RealServers
        <5>1. CASE UNCHANGED ipvs
          BY <5>1 DEF BuildInv, TypeOK, Control
        <5>2. CASE ipvs' = Restrict(ipvs, {})
          BY <5>2, DeletedServer DEF BuildInv
        <5>3. ASSUME NEW s \in Strangers, ipvs' = Created(s)
              PROVE  /\ ipvs' = [x \in DOMAIN ipvs' |-> ipvs'[x]]
                     /\ DOMAIN ipvs' \subseteq AllServices
                     /\ \A x \in DOMAIN ipvs' : ipvs'[x] \subseteq RealServers
          <6>1. /\ ipvs' = [x \in DOMAIN ipvs' |-> ipvs'[x]] /\ DOMAIN ipvs' = DOMAIN ipvs \cup {s}
                /\ \A x \in DOMAIN ipvs : ipvs'[x] = ipvs[x]
                /\ s \notin DOMAIN ipvs => ipvs'[s] = {}
            BY <5>3, CreatedServer DEF BuildInv
          <6>2. DOMAIN ipvs' \subseteq AllServices
            BY <6>1, AllAreServices DEF BuildInv, TypeOK
          <6> QED
            BY <6>1, <6>2 DEF BuildInv, TypeOK
        <5> QED
          BY <3>2, <5>1, <5>2, <5>3 DEF Interference
      <4> QED
        BY <2>1, <3>2, <4>1 DEF Interference, BuildInv, TypeOK, Control, Ports, Expected
    <3> QED
      BY <1>2, <3>1, <3>2
  <2> QED
    BY <2>1, <2>2 DEF BuildInv, CleanSysctl, CleanRules, CleanEntries, CleanServers, CleanRealServers
<1> QED
  BY <1>1, <1>2

\* Build starts.
LEMMA BuildStartsInv ==
    ASSUME BuildInv, Build
    PROVE  BuildInv'
<1> USE ConstantFacts DEF kernelVars, localVars, envVars
<1>1. faults' \in 0..MaxFaults /\ clean' \in BOOLEAN /\ sysctl' \in BOOLEAN /\ (clean' => sysctl')
  BY Outcomes DEF Build, checkSysctl, Fails, BuildInv, TypeOK
<1>2. TypeOK' /\ Control'
  BY <1>1 DEF Build, BuildInv, TypeOK, Control, Ports
<1> QED
  BY <1>1, <1>2 DEF Build, BuildInv, CleanSysctl, CleanRules, CleanEntries, CleanServers, CleanRealServers,
                    Checking, Creating

\* The invariant is inductive.
LEMMA NextInv == BuildInv /\ [Next]_vars => BuildInv'
<1> SUFFICES ASSUME BuildInv, [Next]_vars PROVE BuildInv'
  OBVIOUS
<1>1. CASE ServerStep
  BY <1>1, ServerTypes, ServerClean DEF ServerStep, BuildInv, Clean
<1>2. CASE CreateSet \/ EnsureRule \/ ListEntries \/ DelEntry \/ AddEntry \/ EntriesDone
  BY <1>2, HostTypes, HostClean DEF BuildInv, Clean
<1>3. CASE UNCHANGED vars
  BY <1>3 DEF vars, kernelVars, localVars, envVars, BuildInv, TypeOK, Control, CleanSysctl, CleanRules,
              CleanEntries, CleanServers, CleanRealServers, Checking, Creating, Finished, Ports, Expected,
              Known, RealServersAt
<1> QED
  BY <1>1, <1>2, <1>3, BuildStartsInv, EnvironmentInv DEF Next, BuildStep, ServerStep

\* The invariant holds in every reachable state.
LEMMA AlwaysBuildInv == Spec => []BuildInv
BY InitInv, NextInv, PTL DEF Spec

-----------------------------------------------------------------------------
(* The real servers that the code computes are those of the reference, as  *)
(* long as no service offers a port number twice.                          *)

\* getTargetPort finds the port.
LEMMA TargetPort ==
    ASSUME NEW svc, svc.ports \in Seq(Range(svc.ports)),
           \A i, j \in DOMAIN svc.ports : svc.ports[i].port = svc.ports[j].port => i = j,
           NEW n \in DOMAIN svc.ports
    PROVE  getTargetPort(svc.ports[n].port, svc) = svc.ports[n]
<1> DEFINE ps == svc.ports
           First(i) == ps[i].port = ps[n].port /\ \A j \in 1..(i - 1) : ~(ps[j].port = ps[n].port)
<1>1. \A j \in 1..(n - 1) : j \in DOMAIN ps /\ j # n
  OBVIOUS
<1>2. First(n)
  BY <1>1
<1>3. \A i \in DOMAIN ps : First(i) => i = n
  OBVIOUS
<1>4. (CHOOSE i \in DOMAIN ps : First(i)) = n
  <2> HIDE DEF First, ps
  <2>1. n \in DOMAIN ps
    BY DEF ps
  <2> QED
    BY <1>2, <1>3, <2>1
<1> QED
  BY <1>4 DEF getTargetPort, FirstThat

\* getTargetIntPort finds the endpoint port of that name, or none.
LEMMA TargetIntPort ==
    ASSUME NEW t, NEW s, s.ports \in Seq(Range(s.ports)),
           \A i, j \in DOMAIN s.ports : s.ports[i].name = s.ports[j].name => i = j
    PROVE  /\ \A n \in DOMAIN s.ports : s.ports[n].name = t.name => getTargetIntPort(t, s) = s.ports[n].port
           /\ (\A n \in DOMAIN s.ports : s.ports[n].name # t.name) => getTargetIntPort(t, s) = 0
<1> DEFINE ps == s.ports
<1>1. ASSUME NEW n \in DOMAIN ps, ps[n].name = t.name PROVE getTargetIntPort(t, s) = ps[n].port
  <2> DEFINE First(i) == ps[i].name = t.name /\ \A j \in 1..(i - 1) : ~(ps[j].name = t.name)
  <2>1. \A j \in 1..(n - 1) : j \in DOMAIN ps /\ j # n
    OBVIOUS
  <2>2. First(n)
    BY <1>1, <2>1
  <2>3. \A i \in DOMAIN ps : First(i) => i = n
    BY <1>1
  <2>4. (CHOOSE i \in DOMAIN ps : First(i)) = n
    <3> HIDE DEF First, ps
    <3> QED
      BY <2>2, <2>3, <1>1
  <2> QED
    BY <1>1, <2>4 DEF getTargetIntPort, FirstThat
<1>2. ASSUME \A n \in DOMAIN ps : ps[n].name # t.name PROVE getTargetIntPort(t, s) = 0
  BY <1>2 DEF getTargetIntPort, FirstThat, NoPort
<1> QED
  BY <1>1, <1>2

\* The real servers behind one subset.
LEMMA BehindOneSubset ==
    ASSUME NEW in, UnambiguousPorts(in), NEW v, NEW svc \in ServicesAt(in, v),
           NEW e \in in.eps, NEW s \in e.subsets
    PROVE  LET int == getTargetIntPort(getTargetPort(v.port, svc), s)
           IN  (IF int = 0 THEN {} ELSE {[ip |-> a, port |-> int] : a \in s.addrs}) = BehindSubset(s, svc, v)
<1> DEFINE t   == getTargetPort(v.port, svc)
           int == getTargetIntPort(t, s)
<1>1. /\ svc.ports \in Seq(Range(svc.ports))
      /\ \A i, j \in DOMAIN svc.ports : svc.ports[i].port = svc.ports[j].port => i = j
  BY DEF UnambiguousPorts, ServicesAt
<1>2. /\ s.ports \in Seq(Range(s.ports))
      /\ \A i, j \in DOMAIN s.ports : s.ports[i].name = s.ports[j].name => i = j
      /\ \A i \in DOMAIN s.ports : s.ports[i].port # 0
  BY DEF UnambiguousPorts
<1>3. PICK n \in DOMAIN svc.ports : VirtualServer(svc.ports[n]) = v
  BY DEF ServicesAt, VirtualServersOf, Range
<1>4. \A p : VirtualServer(p) = v => p.port = v.port
  BY DEF VirtualServer
<1>5. t = svc.ports[n]
  BY <1>1, <1>3, <1>4, TargetPort
<1>6. NamedPorts(svc, v) = {t}
  BY <1>1, <1>3, <1>4, <1>5 DEF NamedPorts, Range
<1> HIDE DEF t
<1>7. BehindSubset(s, svc, v) = {[ip |-> a, port |-> q.port] : a \in s.addrs, q \in {x \in Range(s.ports) : x.name = t.name}}
  BY <1>6 DEF BehindSubset
<1>8. CASE \E k \in DOMAIN s.ports : s.ports[k].name = t.name
  <2>1. PICK k \in DOMAIN s.ports : s.ports[k].name = t.name
    BY <1>8
  <2>2. int = s.ports[k].port /\ int # 0
    BY <1>2, <2>1, TargetIntPort
  <2>3. {x \in Range(s.ports) : x.name = t.name} = {s.ports[k]}
    BY <1>2, <2>1 DEF Range
  <2>4. BehindSubset(s, svc, v) = {[ip |-> a, port |-> int] : a \in s.addrs}
    BY <1>7, <2>2, <2>3
  <2> QED
    BY <2>2, <2>4 DEF t
<1>9. CASE ~ \E k \in DOMAIN s.ports : s.ports[k].name = t.name
  <2>1. int = 0
    BY <1>2, <1>9, TargetIntPort
  <2>2. {x \in Range(s.ports) : x.name = t.name} = {}
    BY <1>9 DEF Range
  <2>3. BehindSubset(s, svc, v) = {}
    BY <1>7, <2>2
  <2> QED
    BY <2>1, <2>3 DEF t
<1> QED
  BY <1>8, <1>9

\* Behind all of them.
LEMMA ExpectedIsReference ==
    ASSUME NEW in, UnambiguousPorts(in), NEW v
    PROVE  getExpectRSs(in, v) = ReferenceRS(in, v)
<1> DEFINE Behind(s, svc) == LET int == getTargetIntPort(getTargetPort(v.port, svc), s)
                             IN  IF int = 0 THEN {} ELSE {[ip |-> a, port |-> int] : a \in s.addrs}
<1>1. \A svc : addExpectRS(in.eps, v.port, svc)
                 = UNION {UNION {Behind(s, svc) : s \in e.subsets} : e \in {x \in in.eps : x.key = svc.key}}
  BY DEF addExpectRS
<1>2. \A svc \in ServicesAt(in, v) : \A e \in in.eps : \A s \in e.subsets : Behind(s, svc) = BehindSubset(s, svc, v)
  BY BehindOneSubset
<1> HIDE DEF Behind
<1>3. \A svc \in ServicesAt(in, v) :
         addExpectRS(in.eps, v.port, svc) = UNION {BehindSubset(s, svc, v) : s \in SubsetsOf(in, svc)}
  BY <1>1, <1>2 DEF SubsetsOf
<1>4. \A svc \in in.svcs \ ServicesAt(in, v) : \A s : BehindSubset(s, svc, v) = {}
  <2>1. \A svc \in in.svcs \ ServicesAt(in, v) : NamedPorts(svc, v) = {}
    BY DEF ServicesAt, VirtualServersOf, NamedPorts
  <2> QED
    BY <2>1 DEF BehindSubset
<1>5. ServicesAt(in, v) \subseteq in.svcs
  BY DEF ServicesAt
<1> QED
  BY <1>3, <1>4, <1>5 DEF getExpectRSs, ReferenceRS

-----------------------------------------------------------------------------
(* The theorems. *)

\* Build and the kernel stay within their types, whatever fails.
THEOREM TypeCorrect == Spec => []TypeOK
<1>1. BuildInv => TypeOK
  BY DEF BuildInv
<1> QED
  BY <1>1, AlwaysBuildInv, PTL

\* What an undisturbed Build has done when it returns.
LEMMA DoneIsConverged ==
    ASSUME BuildInv, pc = "done", clean
    PROVE  /\ DOMAIN ipvs = {Numbered(v) : v \in Wanted(input)}
           /\ \A v \in Wanted(input) : ipvs[Numbered(v)] = getExpectRSs(input, v)
           /\ entries = WantedEntries(input)
           /\ rules = Range(constRules)
           /\ sysctl
<1>1. want = {} /\ vss = {} /\ Finished = Wanted(input) /\ Ports = Wanted(input)
  BY PortServiceMap DEF BuildInv, Control, CleanServers, Creating, Finished, Ports
<1>2. \A v \in Wanted(input) : toBackendService(v) = Numbered(v)
  BY PortServiceMap, ToKernel
<1>3. \A s \in DOMAIN ipvs : toVirtualServer(s) \in Wanted(input) /\ s = toBackendService(toVirtualServer(s))
  BY <1>1, AllAreServices, FromKernel DEF BuildInv, TypeOK, CleanServers, Creating
<1>4. \A v \in Wanted(input) : toBackendService(v) \in DOMAIN ipvs
  BY <1>1 DEF BuildInv, CleanServers, Creating, Known
<1>5. DOMAIN ipvs = {Numbered(v) : v \in Wanted(input)}
  BY <1>2, <1>3, <1>4
<1>6. \A v \in Wanted(input) : ipvs[Numbered(v)] = getExpectRSs(input, v)
  BY <1>1, <1>2 DEF BuildInv, CleanRealServers, Creating, RealServersAt, Expected
<1>7. entries = WantedEntries(input) /\ rules = Range(constRules) /\ sysctl
  BY DEF BuildInv, TypeOK, CleanEntries, CleanRules, CleanSysctl
<1> QED
  BY <1>5, <1>6, <1>7

\* One Build in which no call failed makes the kernel's tables right, whatever
\* they held and whoever changed them before: for every set of inputs in which
\* getTargetPort and getTargetIntPort have only one port to find.
THEOREM OneBuildConverges ==
    (\A in \in Inputs : UnambiguousPorts(in)) => (Spec => []CleanBuildConverges)
<1> SUFFICES ASSUME \A in \in Inputs : UnambiguousPorts(in)
             PROVE  Spec => []CleanBuildConverges
  OBVIOUS
<1>1. BuildInv => CleanBuildConverges
  <2> SUFFICES ASSUME BuildInv, pc = "done", clean
               PROVE  CleanBuildConverges
    BY DEF CleanBuildConverges
  <2>1. \A v : getExpectRSs(input, v) = ReferenceRS(input, v)
    BY ExpectedIsReference DEF BuildInv, TypeOK
  <2> QED
    BY <2>1, DoneIsConverged DEF CleanBuildConverges
<1> QED
  BY <1>1, AlwaysBuildInv, PTL

\* Unless a call of this Build has failed, a virtual server appears only when
\* the ipset entry and the masquerading rules for it are there.
THEOREM EntriesComeFirst == Spec => EntryBeforeServer
<1>1. ASSUME BuildInv, [Next]_vars, clean, clean'
      PROVE  \A s \in DOMAIN ipvs' \ DOMAIN ipvs :
                Entry(toVirtualServer(s)) \in entries /\ rules = Range(constRules)
  <2>1. CASE CreateVirtualServer
    <3>1. PICK v \in want : ipvs' = ipvs \/ ipvs' = Created(toBackendService(v))
      BY <2>1 DEF CreateVirtualServer, AddVirtualServer
    <3>2. v \in Ports /\ toVirtualServer(toBackendService(v)) = v /\ Entry(v) \in WantedEntries(input)
      BY PortServiceMap, ToKernel, <1>1, <3>1 DEF BuildInv, TypeOK, Ports
    <3>3. DOMAIN ipvs' \subseteq DOMAIN ipvs \cup {toBackendService(v)}
      BY <1>1, <3>1, CreatedServer DEF BuildInv
    <3>4. pc = "createVSs"
      BY <2>1 DEF CreateVirtualServer, At
    <3>5. entries = WantedEntries(input) /\ rules = Range(constRules)
      BY <1>1, <3>4 DEF BuildInv, TypeOK, CleanEntries, CleanRules
    <3> QED
      BY <3>2, <3>3, <3>5
  <2>2. CASE CheckUnwanted
    <3>1. DOMAIN ipvs' \subseteq DOMAIN ipvs
      BY <1>1, <2>2, DeletedServer DEF CheckUnwanted, DeleteVirtualServer, BuildInv
    <3> QED
      BY <3>1
  <2>3. CASE DelRealServer \/ AddOneRealServer
    <3>1. DOMAIN ipvs' = DOMAIN ipvs
      BY <1>1, <2>3, EditedServer DEF DelRealServer, AddOneRealServer, BuildInv
    <3> QED
      BY <3>1
  <2>4. CASE Interference
    BY <1>1, <2>4 DEF Interference, Fails
  <2>5. CASE UNCHANGED ipvs
    BY <2>5
  <2> QED
    BY <1>1, <2>1, <2>2, <2>3, <2>4, <2>5
       DEF Next, BuildStep, Build, CreateSet, EnsureRule, ListEntries, DelEntry, AddEntry, EntriesDone,
           GetVirtualServers, CheckWanted, GetRealServers, RealServersDone, ChecksDone, BuildReturns,
           NewInput, Crash, vars, kernelVars
<1>2. BuildInv /\ [Next]_vars =>
        [clean /\ clean' =>
           \A v \in DOMAIN ipvs' \ DOMAIN ipvs :
              Entry(toVirtualServer(v)) \in entries /\ rules = Range(constRules)]_vars
  BY <1>1
<1> QED
  BY <1>2, AlwaysBuildInv, PTL DEF Spec, EntryBeforeServer

-----------------------------------------------------------------------------
(* LvsAdaptor implements Reconciler, but for liveness.                     *)

\* The items of Reconciler, by kind.
ServerItem(s)        == <<"vs", s>>
RealServerItem(s, r) == <<"rs", s, r>>
EntryItem(e)         == <<"entry", e>>
RuleItem(c)          == <<"rule", c>>
SysctlItem           == <<"sysctl">>

Held == ItemsOf(ipvs, entries, rules, sysctl)

\* No item is of two kinds.
LEMMA ItemsDiffer ==
    /\ \A s, t : ServerItem(s) = ServerItem(t) => s = t
    /\ \A s, r, t, q : RealServerItem(s, r) = RealServerItem(t, q) => s = t /\ r = q
    /\ \A e, f : EntryItem(e) = EntryItem(f) => e = f
    /\ \A c, d : RuleItem(c) = RuleItem(d) => c = d
    /\ \A s, t, r : ServerItem(s) # RealServerItem(t, r)
    /\ \A s, e : ServerItem(s) # EntryItem(e)
    /\ \A s, c : ServerItem(s) # RuleItem(c)
    /\ \A s : ServerItem(s) # SysctlItem
    /\ \A s, r, e : RealServerItem(s, r) # EntryItem(e)
    /\ \A s, r, c : RealServerItem(s, r) # RuleItem(c)
    /\ \A s, r : RealServerItem(s, r) # SysctlItem
    /\ \A e, c : EntryItem(e) # RuleItem(c)
    /\ \A e : EntryItem(e) # SysctlItem
    /\ \A c : RuleItem(c) # SysctlItem
BY DEF ServerItem, RealServerItem, EntryItem, RuleItem, SysctlItem

SysctlItems(ctl) == {<<"sysctl">> : x \in {TRUE} \cap {ctl}}

\* The sysctl is an item when it is set.
LEMMA SysctlItemsAre ==
    /\ SysctlItems(TRUE) = {SysctlItem}
    /\ SysctlItems(FALSE) = {}
BY DEF SysctlItems, SysctlItem

\* What is an item of a table, and of what is wanted.
LEMMA ItemsAre ==
    ASSUME NEW I, NEW E, NEW L, NEW ctl, NEW i
    PROVE  i \in ItemsOf(I, E, L, ctl) <=>
             \/ \E s \in DOMAIN I : i = ServerItem(s)
             \/ \E s \in DOMAIN I : \E r \in I[s] : i = RealServerItem(s, r)
             \/ \E e \in E : i = EntryItem(e)
             \/ \E c \in L : i = RuleItem(c)
             \/ i \in SysctlItems(ctl)
<1>1. ItemsOf(I, E, L, ctl) =
        {ServerItem(s) : s \in DOMAIN I}
        \cup (UNION {{RealServerItem(s, r) : r \in I[s]} : s \in DOMAIN I})
        \cup {EntryItem(e) : e \in E} \cup {RuleItem(c) : c \in L} \cup SysctlItems(ctl)
  BY Zenon DEF ItemsOf, ServerItem, RealServerItem, EntryItem, RuleItem, SysctlItems
<1> QED
  BY <1>1

\* The items of an input.
LEMMA TargetIs ==
    ASSUME NEW in \in Inputs, NEW i
    PROVE  i \in Target[in] <=>
             \/ \E v \in portServiceMap(in) : i = ServerItem(toBackendService(v))
             \/ \E v \in portServiceMap(in) : \E r \in getExpectRSs(in, v) : i = RealServerItem(toBackendService(v), r)
             \/ \E e \in WantedEntries(in) : i = EntryItem(e)
             \/ \E c \in Range(constRules) : i = RuleItem(c)
             \/ i = SysctlItem
<1>1. /\ Wanted(in) = portServiceMap(in)
      /\ \A v \in portServiceMap(in) : toBackendService(v) = Numbered(v) /\ toVirtualServer(Numbered(v)) = v
  BY PortServiceMap, ToKernel
<1> DEFINE vs    == {Numbered(v) : v \in Wanted(in)}
           table == [s \in vs |-> getExpectRSs(in, toVirtualServer(s))]
<1>2. Target[in] = ItemsOf(table, WantedEntries(in), Range(constRules), TRUE)
  BY DEF Target
<1>3. DOMAIN table = vs /\ \A s \in vs : table[s] = getExpectRSs(in, toVirtualServer(s))
  OBVIOUS
<1> HIDE DEF table
<1>4. i \in Target[in] <=>
        \/ \E s \in DOMAIN table : i = ServerItem(s)
        \/ \E s \in DOMAIN table : \E r \in table[s] : i = RealServerItem(s, r)
        \/ \E e \in WantedEntries(in) : i = EntryItem(e)
        \/ \E c \in Range(constRules) : i = RuleItem(c)
        \/ i = SysctlItem
  <2>1. i \in ItemsOf(table, WantedEntries(in), Range(constRules), TRUE) <=>
          \/ \E s \in DOMAIN table : i = ServerItem(s)
          \/ \E s \in DOMAIN table : \E r \in table[s] : i = RealServerItem(s, r)
          \/ \E e \in WantedEntries(in) : i = EntryItem(e)
          \/ \E c \in Range(constRules) : i = RuleItem(c)
          \/ i \in SysctlItems(TRUE)
    BY ItemsAre
  <2> QED
    BY <1>2, <2>1, SysctlItemsAre
<1> QED
  BY <1>1, <1>3, <1>4

\* What a table can hold is among the items Reconciler knows.
LEMMA ItemsKnown ==
    ASSUME NEW I, NEW E, NEW L, NEW ctl,
           DOMAIN I \subseteq AllServices, \A s \in DOMAIN I : I[s] \subseteq RealServers,
           E \subseteq AllEntries, L \subseteq Range(constRules)
    PROVE  ItemsOf(I, E, L, ctl) \subseteq AllItems
BY DEF AllItems, ItemsOf

\* A step that adds at most one item that is wanted, ...
LEMMA AddIsRepair ==
    ASSUME NEW i \in Target[input], Held' = Held \cup {i}, UNCHANGED <<input, faults, changes>>
    PROVE  [R!Next]_(R!vars)
<1>1. CASE i \in Held
  <2>1. Held' = Held
    BY <1>1
  <2> QED
    BY <2>1 DEF R!vars, Held
<1>2. CASE i \notin Held
  <2>1. R!Add
    BY <1>2 DEF R!Add, Held
  <2> QED
    BY <2>1 DEF R!Next, R!Repair
<1> QED
  BY <1>1, <1>2

\* ... one that takes away items that are not, ...
LEMMA RemoveIsRepair ==
    ASSUME NEW U, U \cap Target[input] = {}, Held' = Held \ U, UNCHANGED <<input, faults, changes>>
    PROVE  [R!Next]_(R!vars)
<1>1. CASE U \cap Held = {}
  <2>1. Held' = Held
    BY <1>1
  <2> QED
    BY <2>1 DEF R!vars, Held
<1>2. CASE U \cap Held # {}
  <2>1. U \cap Held \in SUBSET (Held \ Target[input]) /\ Held' = Held \ (U \cap Held)
    OBVIOUS
  <2>2. R!Remove
    BY <1>2, <2>1 DEF R!Remove, Held
  <2> QED
    BY <2>2 DEF R!Next, R!Repair
<1> QED
  BY <1>1, <1>2

\* ... and one that fails, or is somebody else's.
LEMMA FailureIsDisturb ==
    ASSUME TypeOK', Fails, UNCHANGED <<input, changes>>
    PROVE  R!Next
<1>1. Held' \subseteq AllItems
  BY ItemsKnown DEF Held, TypeOK
<1>2. R!Disturb
  BY <1>1 DEF R!Disturb, Fails, Held
<1> QED
  BY <1>2 DEF R!Next

\* What the kernel holds before and after a step.
LEMMA HeldIs ==
    /\ \A i : i \in Held <=>
         \/ \E s \in DOMAIN ipvs : i = ServerItem(s)
         \/ \E s \in DOMAIN ipvs : \E r \in ipvs[s] : i = RealServerItem(s, r)
         \/ \E e \in entries : i = EntryItem(e)
         \/ \E c \in rules : i = RuleItem(c)
         \/ i \in SysctlItems(sysctl)
    /\ \A i : i \in Held' <=>
         \/ \E s \in DOMAIN ipvs' : i = ServerItem(s)
         \/ \E s \in DOMAIN ipvs' : \E r \in ipvs'[s] : i = RealServerItem(s, r)
         \/ \E e \in entries' : i = EntryItem(e)
         \/ \E c \in rules' : i = RuleItem(c)
         \/ i \in SysctlItems(sysctl')
BY ItemsAre DEF Held

\* What each call adds or removes.
LEMMA EntryItems ==
    ASSUME NEW e, UNCHANGED <<ipvs, rules, sysctl>>
    PROVE  /\ ipsetAddEntry(e) => Held' = Held \cup {EntryItem(e)}
           /\ ipsetDelEntry(e) => Held' = Held \ {EntryItem(e)}
<1>1. ASSUME ipsetAddEntry(e) PROVE Held' = Held \cup {EntryItem(e)}
  <2>1. \A i : i \in Held' <=> i \in Held \/ i = EntryItem(e)
    BY <1>1, HeldIs DEF ipsetAddEntry
  <2> QED
    BY <2>1
<1>2. ASSUME ipsetDelEntry(e) PROVE Held' = Held \ {EntryItem(e)}
  <2>1. \A i : i \in Held' <=> i \in Held /\ i # EntryItem(e)
    <3>1. EntryItem(e) \notin Held'
      BY <1>2, HeldIs, ItemsDiffer, SysctlItemsAre DEF ipsetDelEntry, SysctlItems, SysctlItem
    <3>2. \A i : i # EntryItem(e) => (i \in Held' <=> i \in Held)
      BY <1>2, HeldIs DEF ipsetDelEntry
    <3> QED
      BY <3>1, <3>2, HeldIs DEF ipsetDelEntry
  <2> QED
    BY <2>1
<1> QED
  BY <1>1, <1>2

\* A rule that EnsureRule appends is one more item.
LEMMA RuleItems ==
    ASSUME NEW c, UNCHANGED <<ipvs, entries, sysctl>>, rules' = rules \cup {c}
    PROVE  Held' = Held \cup {RuleItem(c)}
<1>1. \A i : i \in Held' <=> i \in Held \/ i = RuleItem(c)
  BY HeldIs
<1> QED
  BY <1>1

\* So is the sysctl.
LEMMA SysctlSet ==
    ASSUME UNCHANGED <<ipvs, entries, rules>>, sysctl \in BOOLEAN, sysctl' = TRUE
    PROVE  Held' = Held \cup {SysctlItem}
<1>1. SysctlItems(sysctl) \subseteq {SysctlItem} /\ SysctlItems(sysctl') = {SysctlItem}
  <2>1. CASE sysctl = TRUE
    BY <2>1, SysctlItemsAre, Zenon
  <2>2. CASE sysctl = FALSE
    BY <2>2, SysctlItemsAre, Zenon
  <2> QED
    BY <2>1, <2>2
<1>2. \A i : i \in Held' <=> i \in Held \/ i = SysctlItem
  BY <1>1, HeldIs
<1> QED
  BY <1>2

\* A new virtual server comes without real servers.
LEMMA ServerCreatedItems ==
    ASSUME NEW s, s \notin DOMAIN ipvs, UNCHANGED <<entries, rules, sysctl>>,
           DOMAIN ipvs' = DOMAIN ipvs \cup {s}, ipvs'[s] = {}, \A x \in DOMAIN ipvs : ipvs'[x] = ipvs[x]
    PROVE  Held' = Held \cup {ServerItem(s)}
<1>1. \A i : i \in Held' <=> i \in Held \/ i = ServerItem(s)
  BY HeldIs
<1> QED
  BY <1>1

\* A virtual server that is deleted takes its real servers along.
LEMMA ServerDeletedItems ==
    ASSUME NEW s, UNCHANGED <<entries, rules, sysctl>>,
           DOMAIN ipvs' = DOMAIN ipvs \ {s}, \A x \in DOMAIN ipvs' : ipvs'[x] = ipvs[x]
    PROVE  Held' = Held \ {i \in Held : i = ServerItem(s) \/ \E r : i = RealServerItem(s, r)}
<1>1. \A i : i = ServerItem(s) \/ (\E r : i = RealServerItem(s, r)) => i \notin Held'
  BY HeldIs, ItemsDiffer DEF SysctlItems, SysctlItem
<1>2. \A i : ~(i = ServerItem(s) \/ \E r : i = RealServerItem(s, r)) => (i \in Held' <=> i \in Held)
  BY HeldIs
<1>3. Held' \subseteq Held
  BY HeldIs
<1> QED
  BY <1>1, <1>2, <1>3

\* Adding or deleting a real server adds or removes one item.
LEMMA RealServerItems ==
    ASSUME NEW s \in DOMAIN ipvs, NEW r, UNCHANGED <<entries, rules, sysctl>>,
           DOMAIN ipvs' = DOMAIN ipvs, \A x \in DOMAIN ipvs : x # s => ipvs'[x] = ipvs[x]
    PROVE  /\ ipvs'[s] = ipvs[s] \cup {r} => Held' = Held \cup {RealServerItem(s, r)}
           /\ ipvs'[s] = ipvs[s] \ {r} => Held' = Held \ {RealServerItem(s, r)}
<1>1. ASSUME ipvs'[s] = ipvs[s] \cup {r} PROVE Held' = Held \cup {RealServerItem(s, r)}
  <2>1. \A x \in DOMAIN ipvs : \A q : q \in ipvs'[x] <=> q \in ipvs[x] \/ (x = s /\ q = r)
    BY <1>1
  <2>2. \A i : i \in Held' <=> i \in Held \/ i = RealServerItem(s, r)
    BY <2>1, HeldIs
  <2> QED
    BY <2>2
<1>2. ASSUME ipvs'[s] = ipvs[s] \ {r} PROVE Held' = Held \ {RealServerItem(s, r)}
  <2>1. \A x \in DOMAIN ipvs : \A q : q \in ipvs'[x] <=> q \in ipvs[x] /\ ~(x = s /\ q = r)
    BY <1>2
  <2>2. RealServerItem(s, r) \notin Held'
    BY <2>1, HeldIs, ItemsDiffer DEF SysctlItems, SysctlItem
  <2>3. \A i : i # RealServerItem(s, r) => (i \in Held' <=> i \in Held)
    BY <2>1, HeldIs
  <2>4. Held' \subseteq Held
    BY <2>1, HeldIs
  <2> QED
    BY <2>2, <2>3, <2>4
<1> QED
  BY <1>1, <1>2

\* Whatever fails, no virtual server is looked at twice in one Build: one that
\* was taken for wanted is not found missing from portServiceMap later on.
ReadOnce == pc \in Checking => vss \cap Finished = {}

\* ReadOnce holds in every reachable state.
LEMMA AlwaysReadOnce == Spec => []ReadOnce
<1>1. Init => ReadOnce
  BY DEF Init, ReadOnce, Checking
<1>2. ASSUME BuildInv, ReadOnce, [Next]_vars PROVE ReadOnce'
  <2> USE DEF ReadOnce, Checking, Finished, Ports, Goto, At
  <2>1. CASE GetVirtualServers
    <3>1. UNCHANGED input /\ pc = "getVSs" /\ (pc' = "checkVS" => want' = want)
      BY <2>1 DEF GetVirtualServers
    <3>2. want = Ports
      BY <1>2, <3>1 DEF BuildInv, Control
    <3> QED
      BY <2>1, <3>1, <3>2 DEF GetVirtualServers
  <2>2. CASE CheckUnwanted
    BY <1>2, <2>2 DEF CheckUnwanted
  <2>3. CASE CheckWanted
    <3>1. PICK v \in vss : vss' = vss \ {v} /\ want' = want \ {v}
      BY <1>2, <2>3, OneToOne DEF CheckWanted
    <3> QED
      BY <1>2, <2>3, <3>1 DEF CheckWanted
  <2>4. CASE pc' \in Checking => pc \in Checking /\ UNCHANGED <<vss, want, input>>
    BY <1>2, <2>4
  <2> QED
    BY <1>2, <2>1, <2>2, <2>3, <2>4
       DEF Next, BuildStep, Build, CreateSet, EnsureRule, ListEntries, DelEntry, AddEntry, EntriesDone,
           GetRealServers, DelRealServer, AddOneRealServer, RealServersDone, ChecksDone, CreateVirtualServer,
           BuildReturns, NewInput, Crash, Interference, vars, localVars
<1> QED
  BY <1>1, <1>2, AlwaysBuildInv, PTL DEF Spec

\* The steps that change the host, when they succeed.
LEMMA HostRepairs ==
    ASSUME BuildInv, Ok, EnsureRule \/ DelEntry \/ AddEntry
    PROVE  [R!Next]_(R!vars)
<1>0. ~Fails /\ input \in Inputs /\ UNCHANGED <<input, faults, changes, ipvs, sysctl>>
  BY DEF Ok, Fails, envVars, BuildInv, TypeOK, EnsureRule, DelEntry, AddEntry
<1>1. CASE EnsureRule
  <2>1. rules' = rules \cup {Head(ensure)} /\ UNCHANGED entries /\ Head(ensure) \in Range(constRules)
    BY <1>0, <1>1, RangeOfTail DEF EnsureRule, BuildInv, Control
  <2>2. Held' = Held \cup {RuleItem(Head(ensure))} /\ RuleItem(Head(ensure)) \in Target[input]
    BY <1>0, <2>1, RuleItems, TargetIs
  <2> QED
    BY <1>0, <2>2, AddIsRepair
<1>2. CASE DelEntry
  <2>1. PICK e \in dels : ipsetDelEntry(e)
    BY <1>0, <1>2 DEF DelEntry
  <2>2. e \notin WantedEntries(input) /\ UNCHANGED rules
    BY <1>2, <2>1 DEF DelEntry, At, BuildInv, Control
  <2>3. Held' = Held \ {EntryItem(e)} /\ EntryItem(e) \notin Target[input]
    BY <1>0, <2>1, <2>2, EntryItems, TargetIs, ItemsDiffer
  <2> QED
    BY <1>0, <2>3, RemoveIsRepair
<1>3. CASE AddEntry
  <2>1. PICK e \in adds : ipsetAddEntry(e)
    BY <1>0, <1>3 DEF AddEntry
  <2>2. e \in WantedEntries(input) /\ UNCHANGED rules
    BY <1>3, <2>1 DEF AddEntry, At, BuildInv, Control
  <2>3. Held' = Held \cup {EntryItem(e)} /\ EntryItem(e) \in Target[input]
    BY <1>0, <2>1, <2>2, EntryItems, TargetIs
  <2> QED
    BY <1>0, <2>3, AddIsRepair
<1> QED
  BY <1>1, <1>2, <1>3

\* The steps that change the IPVS tables, when they succeed.
LEMMA ServerRepairs ==
    ASSUME BuildInv, ReadOnce, Ok, CheckUnwanted \/ DelRealServer \/ AddOneRealServer \/ CreateVirtualServer
    PROVE  [R!Next]_(R!vars)
<1>0. ~Fails /\ input \in Inputs /\ UNCHANGED <<input, faults, changes, entries, rules, sysctl>>
  BY DEF Ok, Fails, envVars, BuildInv, TypeOK, CheckUnwanted, DelRealServer, AddOneRealServer, CreateVirtualServer
<1>1. CASE CheckUnwanted
  <2>1. PICK v \in vss : Unwanted(v) /\ DeleteVirtualServer(v)
    BY <1>0, <1>1 DEF CheckUnwanted
  <2> DEFINE s == toBackendService(v)
             U == {i \in Held : i = ServerItem(s) \/ \E r : i = RealServerItem(s, r)}
  <2>2. v \notin Ports
    BY <1>1, <2>1, OneToOne, PortServiceMap DEF CheckUnwanted, At, Unwanted, ReadOnce, Checking, Finished, Ports
  <2>3. \A w \in portServiceMap(input) : toBackendService(w) # s
    BY <2>1, <2>2, OneToOne DEF Ports
  <2>4. DOMAIN ipvs' = DOMAIN ipvs \ {s} /\ \A x \in DOMAIN ipvs' : ipvs'[x] = ipvs[x]
    BY <2>1, DeletedServer DEF DeleteVirtualServer, BuildInv
  <2> HIDE DEF s
  <2>5. Held' = Held \ U
    BY <1>0, <2>4, ServerDeletedItems
  <2>6. \A i \in Target[input] : i \notin U
    BY <1>0, <2>3, TargetIs, ItemsDiffer
  <2> HIDE DEF U
  <2> QED
    BY <1>0, <2>5, <2>6, RemoveIsRepair
<1>2. CASE DelRealServer
  <2>1. PICK r \in dels : DeleteRealServer(cur, r)
    BY <1>0, <1>2 DEF DelRealServer
  <2> DEFINE s == toBackendService(cur)
  <2>2. r \notin getExpectRSs(input, cur) /\ cur \in Ports
    BY <1>2, <2>1 DEF DelRealServer, At, BuildInv, Control, Expected
  <2>3. CASE s \in DOMAIN ipvs
    <3>1. Held' = Held \ {RealServerItem(s, r)}
      <4>1. /\ DOMAIN ipvs' = DOMAIN ipvs /\ ipvs'[s] = ipvs[s] \ {r}
            /\ \A x \in DOMAIN ipvs : x # s => ipvs'[x] = ipvs[x]
        BY <2>1, <2>3, EditedServer DEF BuildInv, Known
      <4> HIDE DEF s
      <4> QED
        BY <1>0, <2>3, <4>1, RealServerItems
    <3>2. \A w \in portServiceMap(input) : toBackendService(w) = s => w = cur
      BY <2>2, OneToOne DEF Ports
    <3> HIDE DEF s
    <3>3. RealServerItem(s, r) \notin Target[input]
      BY <1>0, <2>2, <3>2, TargetIs, ItemsDiffer
    <3> QED
      BY <1>0, <3>1, <3>3, RemoveIsRepair
  <2>4. CASE s \notin DOMAIN ipvs
    BY <1>0, <2>1, <2>4 DEF DeleteRealServer, Known, R!vars
  <2> QED
    BY <2>3, <2>4
<1>3. CASE AddOneRealServer
  <2>1. PICK r \in adds : AddRealServer(cur, r)
    BY <1>0, <1>3 DEF AddOneRealServer
  <2> DEFINE s == toBackendService(cur)
  <2>2. r \in getExpectRSs(input, cur) /\ cur \in portServiceMap(input)
    BY <1>3, <2>1 DEF AddOneRealServer, BuildInv, Control, Expected, Ports
  <2>3. CASE s \in DOMAIN ipvs
    <3>1. Held' = Held \cup {RealServerItem(s, r)}
      <4>1. /\ DOMAIN ipvs' = DOMAIN ipvs /\ ipvs'[s] = ipvs[s] \cup {r}
            /\ \A x \in DOMAIN ipvs : x # s => ipvs'[x] = ipvs[x]
        BY <2>1, <2>3, EditedServer DEF BuildInv, Known
      <4> HIDE DEF s
      <4> QED
        BY <1>0, <2>3, <4>1, RealServerItems
    <3>2. RealServerItem(s, r) \in Target[input]
      BY <1>0, <2>2, TargetIs
    <3> QED
      BY <1>0, <3>1, <3>2, AddIsRepair
  <2>4. CASE s \notin DOMAIN ipvs
    BY <1>0, <2>1, <2>4 DEF AddRealServer, Known, R!vars
  <2> QED
    BY <2>3, <2>4
<1>4. CASE CreateVirtualServer
  <2>1. PICK v \in want : UNCHANGED ipvs \/ (~Known(v) /\ AddVirtualServer(v))
    BY <1>0, <1>4 DEF CreateVirtualServer
  <2>2. CASE UNCHANGED ipvs
    BY <1>0, <2>2 DEF R!vars
  <2>3. CASE ~Known(v) /\ AddVirtualServer(v)
    <3> DEFINE s == toBackendService(v)
    <3>1. /\ s \notin DOMAIN ipvs /\ DOMAIN ipvs' = DOMAIN ipvs \cup {s} /\ ipvs'[s] = {}
          /\ \A x \in DOMAIN ipvs : ipvs'[x] = ipvs[x]
      BY <2>3, CreatedServer DEF AddVirtualServer, BuildInv, Known
    <3>2. ServerItem(s) \in Target[input]
      BY <1>0, <2>1, TargetIs DEF BuildInv, TypeOK
    <3> HIDE DEF s
    <3>3. Held' = Held \cup {ServerItem(s)}
      BY <1>0, <3>1, ServerCreatedItems
    <3> QED
      BY <1>0, <3>2, <3>3, AddIsRepair
  <2> QED
    BY <2>1, <2>2, <2>3
<1> QED
  BY <1>1, <1>2, <1>3, <1>4

\* Every other step starts a Build, fails, brings a new input or stutters.
LEMMA StepRefines ==
    ASSUME BuildInv, TypeOK', ReadOnce, [Next]_vars
    PROVE  [R!Next]_(R!vars)
<1> USE DEF kernelVars, localVars, envVars
<1>1. CASE Fails /\ Next /\ ~NewInput
  <2>1. UNCHANGED <<input, changes>>
    BY <1>1 DEF Next, BuildStep, Build, CreateSet, EnsureRule, ListEntries, DelEntry, AddEntry, EntriesDone,
           GetVirtualServers, CheckUnwanted, CheckWanted, GetRealServers, DelRealServer, AddOneRealServer,
           RealServersDone, ChecksDone, CreateVirtualServer, BuildReturns, Crash, Interference
  <2> QED
    BY <1>1, <2>1, FailureIsDisturb
<1>2. CASE NewInput
  <2>1. Target[input'] \in Range(Target)
    BY <1>2 DEF NewInput, Target, Range
  <2>2. R!Retarget
    BY <1>2, <2>1 DEF R!Retarget, NewInput
  <2> QED
    BY <2>2 DEF R!Next
<1>3. CASE Build /\ ~Fails
  <2>1. sysctl' = TRUE /\ UNCHANGED <<faults, ipvs, entries, rules, input, changes>>
    BY <1>3 DEF Build, checkSysctl
  <2>2. Held' = Held \cup {SysctlItem} /\ SysctlItem \in Target[input]
    BY <2>1, SysctlSet, TargetIs DEF BuildInv, TypeOK
  <2> QED
    BY <2>1, <2>2, AddIsRepair
<1>4. CASE UNCHANGED <<ipvs, entries, rules, sysctl, input, faults, changes>>
  BY <1>4 DEF R!vars
<1>5. CASE Ok /\ (EnsureRule \/ DelEntry \/ AddEntry)
  BY <1>5, HostRepairs
<1>6. CASE Ok /\ (CheckUnwanted \/ DelRealServer \/ AddOneRealServer \/ CreateVirtualServer)
  BY <1>6, ServerRepairs
<1>7. CASE BuildStep /\ ~Fails
  <2>1. Ok
    BY <1>7 DEF BuildStep, CreateSet, EnsureRule, ListEntries, DelEntry, AddEntry, EntriesDone,
           GetVirtualServers, CheckUnwanted, CheckWanted, GetRealServers, DelRealServer, AddOneRealServer,
           RealServersDone, ChecksDone, CreateVirtualServer, BuildReturns, Ok
  <2>2. CASE CreateSet \/ ListEntries \/ EntriesDone \/ GetVirtualServers \/ CheckWanted \/ GetRealServers
             \/ RealServersDone \/ ChecksDone \/ BuildReturns
    BY <1>4, <2>1, <2>2 DEF CreateSet, ListEntries, EntriesDone, GetVirtualServers, CheckWanted, GetRealServers,
           RealServersDone, ChecksDone, BuildReturns, Ok
  <2> QED
    BY <1>5, <1>6, <1>7, <2>1, <2>2 DEF BuildStep
<1> QED
  BY <1>1, <1>2, <1>3, <1>4, <1>7 DEF Next, vars, Crash, Interference

\* With calls failing, crashes and interference at any point, Build only
\* removes items of the kernel that are not wanted and adds ones that are: the
\* safety part of Reconciles.  That it also finishes is left to TLC.
THEOREM BuildRefinesReconciler == Spec => R!Init /\ [][R!Next]_(R!vars)
<1>1. Init => R!Init
  <2> SUFFICES ASSUME Init PROVE R!Init
    OBVIOUS
  <2>1. Held \subseteq AllItems
    BY InitInv, ItemsKnown DEF BuildInv, TypeOK, Held
  <2>2. Target[input] \in Range(Target)
    BY DEF Init, Target, Range
  <2> QED
    BY <2>1, <2>2 DEF Init, R!Init, Held
<1>2. BuildInv /\ BuildInv' /\ ReadOnce /\ [Next]_vars => [R!Next]_(R!vars)
  BY StepRefines DEF BuildInv
<1> QED
  BY <1>1, <1>2, AlwaysBuildInv, AlwaysReadOnce, PTL DEF Spec

=============================================================================
