----------------------------- MODULE LvsAdaptor -----------------------------
(***************************************************************************)
(* lvs/adaptor: LVSAdaptor.Build brings ipset, iptables and the kernel's   *)
(* IPVS tables in line with the LoadBalancer services and endpoints it is  *)
(* given.  Every call that leaves the process is a step of its own, may    *)
(* fail, and is skipped over when it does; the daemon may be killed        *)
(* between any two of them, and somebody else may change the kernel.       *)
(* Kernel state outlives the daemon, the maps Build computes do not.       *)
(***************************************************************************)
EXTENDS Naturals, Sequences, FiniteSets, Functions

CONSTANTS
    VIP,         \* virtualServerAddress
    Inputs,      \* the arguments Build can be called with
    InitialVSs,  \* virtual servers there may be when the daemon starts
    RealServers, \* everything that can be a real server
    Strangers,   \* virtual servers somebody else may create
    MaxFaults,   \* bound on failed calls, crashes and interference
    MaxChanges   \* bound on changes of the input

\* What others create is TCP or UDP, 6 or 17: bmlb loses every other protocol.
ASSUME LvsAdaptorAssumption ==
    /\ MaxFaults \in Nat /\ MaxChanges \in Nat
    /\ \A s \in InitialVSs \cup Strangers :
         s = [addr |-> s.addr, proto |-> s.proto, port |-> s.port] /\ s.proto \in {6, 17}

VARIABLES
    ipvs,     \* kernel: virtual server -> set of real servers
    entries,  \* kernel: members of ipset bmlb-vip-vport
    rules,    \* kernel: chains of the nat table that hold our rule
    sysctl,   \* kernel: net/ipv4/vs/conntrack is 1
    input,    \* [svcs, eps]: arguments of the current or next call of Build
    pc,       \* where Build is
    ensure,   \* Build: const rules still to be ensured
    vss,      \* Build: virtual servers read and still to be checked
    want,     \* Build: keys left in portServiceMap
    cur,      \* Build: the virtual server whose real servers are synced
    dels,     \* Build: what the current loop still has to delete
    adds,     \* Build: what it still has to add
    faults,   \* number of failures so far
    clean,    \* history: nothing failed since Build was called
    changes   \* number of changes of the input so far

kernelVars == <<ipvs, entries, rules, sysctl>>
localVars  == <<ensure, vss, want, cur, dels, adds>>
envVars    == <<faults, clean>>
vars == <<kernelVars, input, pc, localVars, envVars, changes>>

-----------------------------------------------------------------------------
(* Services and endpoints.  A service is [key, ports], where ports is a    *)
(* sequence of [name, port, proto]; an Endpoints is [key, subsets], where  *)
(* a subset is [addrs, ports] and ports a sequence of [name, port].        *)

protocolIndex(proto) == IF proto = "UDP" THEN "UDP" ELSE "TCP"

VirtualServer(p) == [addr |-> VIP, proto |-> protocolIndex(p.proto), port |-> p.port]

\* The keys of portServiceMap, and the services under one of them.
VirtualServersOf(svc)     == {VirtualServer(p) : p \in Range(svc.ports)}
portServiceMap(in)        == UNION {VirtualServersOf(svc) : svc \in in.svcs}
ServicesAt(in, v)         == {svc \in in.svcs : v \in VirtualServersOf(svc)}

\* The first element of s that satisfies P, or none.
FirstThat(s, P(_), none) ==
    IF \E i \in DOMAIN s : P(s[i])
      THEN s[CHOOSE i \in DOMAIN s : P(s[i]) /\ \A j \in 1..(i - 1) : ~P(s[j])]
      ELSE none

NoPort == [name |-> "", port |-> 0]

\* The protocol of the virtual server is not looked at.
getTargetPort(port, svc) == FirstThat(svc.ports, LAMBDA p : p.port = port, NoPort)

getTargetIntPort(target, subset) ==
    FirstThat(subset.ports, LAMBDA p : p.name = target.name, NoPort).port

addExpectRS(eps, port, svc) ==
    UNION {UNION {LET int == getTargetIntPort(getTargetPort(port, svc), subset)
                  IN  IF int = 0 THEN {} ELSE {[ip |-> a, port |-> int] : a \in subset.addrs}
                  : subset \in e.subsets}
           : e \in {e \in eps : e.key = svc.key}}

getExpectRSs(in, v) == UNION {addExpectRS(in.eps, v.port, svc) : svc \in ServicesAt(in, v)}

\* The virtual server of a kernel entry as portServiceMap would index it.
Indexed(v) == [v EXCEPT !.proto = protocolIndex(v.proto)]

-----------------------------------------------------------------------------
(* The kernel, through lvs.Interface.  It knows a virtual server by the    *)
(* number of its protocol, and a call for one that does not exist fails.   *)

stringToProtocolNumber(protocol) ==
    CASE protocol = "TCP" -> 6 [] protocol = "UDP" -> 17 [] OTHER -> 0

protocolNumbeToString(proto) == CASE proto = 6 -> "TCP" [] proto = 17 -> "UDP" [] OTHER -> ""

\* What bmlb asks the kernel about, and what it makes of the kernel's answer:
\* a protocol other than TCP and UDP is lost on the way.
toBackendService(vs) == [vs EXCEPT !.proto = stringToProtocolNumber(@)]
toVirtualServer(svc) == [svc EXCEPT !.proto = protocolNumbeToString(@)]

Created(svc) == [x \in DOMAIN ipvs \cup {svc} |-> IF x \in DOMAIN ipvs THEN ipvs[x] ELSE {}]

\* Mutant: the conversion forgets the port.
AddVirtualServer_noPort(vs) == ipvs' = Created([toBackendService(vs) EXCEPT !.port = 0])

AddVirtualServer(vs) == ipvs' = Created(toBackendService(vs))

DeleteVirtualServer(vs) == ipvs' = Restrict(ipvs, DOMAIN ipvs \ {toBackendService(vs)})

Known(vs) == toBackendService(vs) \in DOMAIN ipvs

RealServersAt(vs) == ipvs[toBackendService(vs)]

AddRealServer(vs, rs) ==
    ipvs' = IF Known(vs) THEN [ipvs EXCEPT ![toBackendService(vs)] = @ \cup {rs}] ELSE ipvs

DeleteRealServer(vs, rs) ==
    ipvs' = IF Known(vs) THEN [ipvs EXCEPT ![toBackendService(vs)] = @ \ {rs}] ELSE ipvs

\* Everything the kernel may come to hold.
AllServices == InitialVSs \cup Strangers \cup UNION {{toBackendService(v) : v \in portServiceMap(in)} : in \in Inputs}

ASSUME RealServersAssumption ==
    \A in \in Inputs : \A v \in portServiceMap(in) : getExpectRSs(in, v) \subseteq RealServers

-----------------------------------------------------------------------------
(* The set bmlb-vip-vport and the rules that match it.                     *)

\* The entry that matches the packets to a virtual server.
Entry(vs) == [ip |-> vs.addr, protocol |-> IF vs.proto = "UDP" THEN "udp" ELSE "tcp", port |-> vs.port]

AllEntries == {Entry(toVirtualServer(svc)) : svc \in AllServices}

\* ipset add -exist, and ipset del.
ipsetAddEntry(e) == entries' = entries \cup {e}
ipsetDelEntry(e) == entries' = entries \ {e}

constRules == <<"OUTPUT", "PREROUTING", "POSTROUTING">>

-----------------------------------------------------------------------------
(* Outcomes of a call. *)

Ok == UNCHANGED envVars

Fails ==
    /\ faults < MaxFaults
    /\ faults' = faults + 1
    /\ clean' = FALSE

At(from)       == pc = from
Goto(from, to) == pc = from /\ pc' = to

-----------------------------------------------------------------------------
(* Build. *)

\* A failure to set net/ipv4/vs/conntrack is only logged.
checkSysctl ==
    \/ sysctl' = TRUE /\ clean' = TRUE /\ UNCHANGED faults
    \/ Fails /\ UNCHANGED sysctl

\* Mutant: Build does nothing when the input is the one it had before.
Build_onChange ==
    /\ pc = "idle"
    /\ pc' = "createSet"
    /\ checkSysctl
    /\ want' = portServiceMap(input)
    /\ UNCHANGED <<ipvs, entries, rules, input, ensure, vss, cur, dels, adds, changes>>

\* Up to the call of buildIptables().
Build ==
    /\ pc \in {"idle", "done"}
    /\ pc' = "createSet"
    /\ checkSysctl
    /\ want' = portServiceMap(input)
    /\ UNCHANGED <<ipvs, entries, rules, input, ensure, vss, cur, dels, adds, changes>>

\* buildIptables(): a failure here skips iptables and ipset altogether.
CreateSet ==
    /\ \/ Goto("createSet", "ensureRules") /\ Ok /\ ensure' = constRules
       \/ Goto("createSet", "getVSs") /\ Fails /\ UNCHANGED ensure
    /\ UNCHANGED <<kernelVars, input, vss, want, cur, dels, adds, changes>>

EnsureRule ==
    /\ At("ensureRules")
    /\ ensure # <<>>
    /\ \/ Ok /\ rules' = rules \cup {Head(ensure)}
       \/ Fails /\ UNCHANGED rules
    /\ ensure' = Tail(ensure)
    /\ UNCHANGED <<ipvs, entries, sysctl, input, pc, vss, want, cur, dels, adds, changes>>

expectEntries == {Entry(vs) : vs \in want}

\* Mutant: entries are removed but no new ones are added.
ListEntries_noAdd ==
    /\ At("ensureRules")
    /\ ensure = <<>>
    /\ Goto("ensureRules", "delEntries") /\ Ok
    /\ dels' = entries \ expectEntries
    /\ adds' = {}
    /\ UNCHANGED <<kernelVars, input, ensure, vss, want, cur, changes>>

ListEntries ==
    /\ At("ensureRules")
    /\ ensure = <<>>
    /\ \/ /\ Goto("ensureRules", "delEntries") /\ Ok
          /\ dels' = entries \ expectEntries
          /\ adds' = expectEntries \ entries
       \/ /\ Goto("ensureRules", "getVSs") /\ Fails
          /\ UNCHANGED <<dels, adds>>
    /\ UNCHANGED <<kernelVars, input, ensure, vss, want, cur, changes>>

DelEntry ==
    /\ At("delEntries")
    /\ \E e \in dels :
         /\ dels' = dels \ {e}
         /\ \/ Ok /\ ipsetDelEntry(e)
            \/ Fails /\ UNCHANGED entries
    /\ UNCHANGED <<ipvs, rules, sysctl, input, pc, ensure, vss, want, cur, adds, changes>>

AddEntry ==
    /\ At("delEntries")
    /\ dels = {}
    /\ \E e \in adds :
         /\ adds' = adds \ {e}
         /\ \/ Ok /\ ipsetAddEntry(e)
            \/ Fails /\ UNCHANGED entries
    /\ UNCHANGED <<ipvs, rules, sysctl, input, pc, ensure, vss, want, cur, dels, changes>>

EntriesDone ==
    /\ Goto("delEntries", "getVSs")
    /\ dels = {} /\ adds = {}
    /\ UNCHANGED <<kernelVars, input, localVars, envVars, changes>>

GetVirtualServers ==
    /\ \/ /\ Goto("getVSs", "checkVS") /\ Ok
          /\ vss' = {toVirtualServer(v) : v \in DOMAIN ipvs}
          /\ UNCHANGED want
       \/ /\ Goto("getVSs", "done") /\ Fails
          /\ vss' = {} /\ want' = {}
    /\ UNCHANGED <<kernelVars, input, ensure, cur, dels, adds, changes>>

\* Mutant: start from nothing every time.
Unwanted_all(v) == TRUE

Unwanted(v) == v.addr # VIP \/ Indexed(v) \notin want

\* An existing virtual server at another address, or at a port no service has.
CheckUnwanted ==
    /\ At("checkVS")
    /\ \E v \in vss :
         /\ Unwanted(v)
         /\ vss' = vss \ {v}
         /\ \/ Ok /\ DeleteVirtualServer(v)
            \/ Fails /\ UNCHANGED ipvs
    /\ UNCHANGED <<entries, rules, sysctl, input, pc, ensure, want, cur, dels, adds, changes>>

\* An existing virtual server that some service wants.
CheckWanted ==
    /\ Goto("checkVS", "getRSs")
    /\ \E v \in vss :
         /\ ~Unwanted(v)
         /\ vss' = vss \ {v}
         /\ want' = want \ {Indexed(v)}
         /\ cur' = v
    /\ UNCHANGED <<kernelVars, input, ensure, dels, adds, envVars, changes>>

\* Mutant: real servers that are gone are kept.
GetRealServers_noDelete ==
    /\ Goto("getRSs", "syncRSs") /\ Ok
    /\ Known(cur)
    /\ dels' = {}
    /\ adds' = getExpectRSs(input, Indexed(cur)) \ RealServersAt(cur)
    /\ UNCHANGED <<kernelVars, input, ensure, vss, want, cur, changes>>

GetRealServers ==
    /\ \/ /\ Goto("getRSs", "syncRSs") /\ Ok
          /\ Known(cur)
          /\ dels' = RealServersAt(cur) \ getExpectRSs(input, Indexed(cur))
          /\ adds' = getExpectRSs(input, Indexed(cur)) \ RealServersAt(cur)
       \/ /\ Goto("getRSs", "checkVS")
          /\ IF Known(cur) THEN Fails ELSE Ok
          /\ UNCHANGED <<dels, adds>>
    /\ UNCHANGED <<kernelVars, input, ensure, vss, want, cur, changes>>

DelRealServer ==
    /\ At("syncRSs")
    /\ \E r \in dels :
         /\ dels' = dels \ {r}
         /\ \/ Ok /\ DeleteRealServer(cur, r)
            \/ Fails /\ UNCHANGED ipvs
    /\ UNCHANGED <<entries, rules, sysctl, input, pc, ensure, vss, want, cur, adds, changes>>

\* addRealServers(), for an existing (syncRSs) or a new (newRSs) virtual server.
AddOneRealServer ==
    /\ pc \in {"syncRSs", "newRSs"}
    /\ dels = {}
    /\ \E r \in adds :
         /\ adds' = adds \ {r}
         /\ \/ Ok /\ AddRealServer(cur, r)
            \/ Fails /\ UNCHANGED ipvs
    /\ UNCHANGED <<entries, rules, sysctl, input, pc, ensure, vss, want, cur, dels, changes>>

RealServersDone ==
    /\ Goto("syncRSs", "checkVS") \/ Goto("newRSs", "createVSs")
    /\ dels = {} /\ adds = {}
    /\ UNCHANGED <<kernelVars, input, localVars, envVars, changes>>

ChecksDone ==
    /\ Goto("checkVS", "createVSs")
    /\ vss = {}
    /\ UNCHANGED <<kernelVars, input, localVars, envVars, changes>>

CreateVirtualServer ==
    /\ At("createVSs")
    /\ \E v \in want :
         /\ want' = want \ {v}
         /\ \/ /\ Ok
               /\ ~Known(v)
               /\ AddVirtualServer(v)
               /\ pc' = "newRSs"
               /\ cur' = v
               /\ dels' = {}
               /\ adds' = getExpectRSs(input, v)
            \/ /\ IF ~Known(v) THEN Fails ELSE Ok
               /\ UNCHANGED <<ipvs, pc, cur, dels, adds>>
    /\ UNCHANGED <<entries, rules, sysctl, input, ensure, vss, changes>>

BuildReturns ==
    /\ Goto("createVSs", "done")
    /\ want = {}
    /\ UNCHANGED <<kernelVars, input, localVars, envVars, changes>>

-----------------------------------------------------------------------------
(* The environment. *)

\* The sync loop lists other services or endpoints for its next call.
NewInput ==
    /\ pc \in {"idle", "done"}
    /\ pc' = "idle"
    /\ changes < MaxChanges
    /\ changes' = changes + 1
    /\ input' \in Inputs
    /\ UNCHANGED <<kernelVars, localVars, envVars>>

\* The daemon is killed and started again.
Crash ==
    /\ Fails
    /\ pc' = "idle"
    /\ ensure' = <<>> /\ vss' = {} /\ want' = {} /\ dels' = {} /\ adds' = {}
    /\ UNCHANGED <<kernelVars, input, cur, changes>>

\* Somebody flushes the firewall or IPVS, or creates a virtual server.
Interference ==
    /\ Fails
    /\ \/ entries' = {} /\ rules' = {} /\ UNCHANGED ipvs
       \/ ipvs' = Restrict(ipvs, {}) /\ UNCHANGED <<entries, rules>>
       \/ \E v \in Strangers : ipvs' = Created(v) /\ UNCHANGED <<entries, rules>>
    /\ UNCHANGED <<sysctl, input, pc, localVars, changes>>

-----------------------------------------------------------------------------
\* The kernel is as an earlier run, or somebody else, left it.
Init ==
    /\ \E D \in SUBSET InitialVSs : ipvs \in [D -> SUBSET RealServers]
    /\ entries \in SUBSET {Entry(toVirtualServer(v)) : v \in InitialVSs}
    /\ rules \in {{}, Range(constRules)}
    /\ sysctl \in BOOLEAN
    /\ input \in Inputs
    /\ pc = "idle"
    /\ ensure = <<>> /\ vss = {} /\ want = {} /\ dels = {} /\ adds = {}
    /\ cur = [addr |-> VIP, proto |-> "TCP", port |-> 0]
    /\ faults = 0
    /\ clean = FALSE
    /\ changes = 0

BuildStep ==
    \/ CreateSet \/ EnsureRule \/ ListEntries \/ DelEntry \/ AddEntry \/ EntriesDone
    \/ GetVirtualServers \/ CheckUnwanted \/ CheckWanted
    \/ GetRealServers \/ DelRealServer \/ AddOneRealServer \/ RealServersDone
    \/ ChecksDone \/ CreateVirtualServer \/ BuildReturns

Next == Build \/ BuildStep \/ NewInput \/ Crash \/ Interference

Spec == Init /\ [][Next]_vars

\* Calls return, and the tick keeps calling Build.
FairSpec == Spec /\ WF_vars(Build) /\ WF_vars(BuildStep)

-----------------------------------------------------------------------------
(* Properties. *)

\* What the kernel should hold for an input, said without the code's maps: a
\* real server for each address of a subset, at the port of the subset that
\* has the name of the service port.
NamedPorts(svc, v) == {p \in Range(svc.ports) : VirtualServer(p) = v}

SubsetsOf(in, svc) == UNION {e.subsets : e \in {x \in in.eps : x.key = svc.key}}

BehindSubset(s, svc, v) ==
    {[ip |-> a, port |-> q.port] :
       a \in s.addrs, q \in {x \in Range(s.ports) : \E p \in NamedPorts(svc, v) : p.name = x.name}}

ReferenceRS(in, v) == UNION {UNION {BehindSubset(s, svc, v) : s \in SubsetsOf(in, svc)} : svc \in in.svcs}

\* The API server has seen to it that ports have numbers and that the ports of
\* a subset have names of their own; no service offers a port number twice.
UnambiguousPorts(in) ==
    /\ \A svc \in in.svcs :
         /\ svc.ports \in Seq(Range(svc.ports))
         /\ \A i, j \in DOMAIN svc.ports : svc.ports[i].port = svc.ports[j].port => i = j
    /\ \A e \in in.eps : \A s \in e.subsets :
         /\ s.ports \in Seq(Range(s.ports))
         /\ \A i, j \in DOMAIN s.ports : s.ports[i].name = s.ports[j].name => i = j
         /\ \A i \in DOMAIN s.ports : s.ports[i].port # 0

Wanted(in) == UNION {{VirtualServer(p) : p \in Range(svc.ports)} : svc \in in.svcs}

\* Protocols have their numbers from IANA.
Numbered(v) == [v EXCEPT !.proto = IF @ = "UDP" THEN 17 ELSE 6]

WantedEntries(in) ==
    {[ip |-> VIP, protocol |-> IF v.proto = "UDP" THEN "udp" ELSE "tcp", port |-> v.port] : v \in Wanted(in)}

TypeOK ==
    /\ DOMAIN ipvs \subseteq AllServices
    /\ \A v \in DOMAIN ipvs : ipvs[v] \subseteq RealServers
    /\ entries \subseteq AllEntries
    /\ rules \subseteq Range(constRules)
    /\ sysctl \in BOOLEAN
    /\ input \in Inputs
    /\ pc \in {"idle", "createSet", "ensureRules", "delEntries", "getVSs", "checkVS", "getRSs",
               "syncRSs", "createVSs", "newRSs", "done"}
    /\ want \subseteq portServiceMap(input)
    /\ Range(ensure) \subseteq Range(constRules)
    /\ faults \in 0..MaxFaults
    /\ changes \in 0..MaxChanges
    /\ clean \in BOOLEAN

\* One undisturbed Build is enough: whatever the kernel held before, it then
\* holds exactly the virtual servers, real servers, ipset entries and iptables
\* rules that the services and endpoints call for, and tracks connections.
CleanBuildConverges ==
    pc = "done" /\ clean =>
        /\ DOMAIN ipvs = {Numbered(v) : v \in Wanted(input)}
        /\ \A v \in Wanted(input) : ipvs[Numbered(v)] = ReferenceRS(input, v)
        /\ entries = WantedEntries(input)
        /\ rules = Range(constRules)
        /\ sysctl

\* A virtual server starts to receive traffic only when its ipset entry and
\* the masquerading rules are there, unless one of those calls failed.
EntryBeforeServer ==
    [][clean /\ clean' =>
         \A v \in DOMAIN ipvs' \ DOMAIN ipvs :
            Entry(toVirtualServer(v)) \in entries /\ rules = Range(constRules)]_vars

\* Field Name of vendor/k8s.io/api/core/v1/types.go:3502 "maps to the 'Name'
\* field in EndpointPort objects": the real servers of a virtual server are at
\* the endpoint ports named like the service port with its port and protocol.
PortsMatchByName ==
    pc = "done" /\ clean =>
        \A v \in Wanted(input) : ipvs[Numbered(v)] = ReferenceRS(input, v)

-----------------------------------------------------------------------------
(* LvsAdaptor implements Reconciler. *)

\* A table of virtual and real servers, the entries, the rules and the sysctl
\* as one set of items.
ItemsOf(table, ents, rls, ctl) ==
    {<<"vs", v>> : v \in DOMAIN table}
    \cup (UNION {{<<"rs", v, r>> : r \in table[v]} : v \in DOMAIN table})
    \cup {<<"entry", e>> : e \in ents}
    \cup {<<"rule", c>> : c \in rls}
    \cup {<<"sysctl">> : x \in {TRUE} \cap {ctl}}

\* Computed once for each input.
Target == [in \in Inputs |->
    ItemsOf([svc \in {Numbered(v) : v \in Wanted(in)} |-> getExpectRSs(in, toVirtualServer(svc))],
            WantedEntries(in), Range(constRules), TRUE)]

AllItems == ItemsOf([svc \in AllServices |-> RealServers], AllEntries, Range(constRules), TRUE)

R == INSTANCE Reconciler WITH
       Items        <- AllItems,
       Targets      <- Range(Target),
       Disturbances <- MaxFaults,
       Changes      <- MaxChanges,
       desired      <- Target[input],
       actual       <- ItemsOf(ipvs, entries, rules, sysctl),
       disturbed    <- faults,
       changed      <- changes

\* Build keeps the promise of a backend under every order in which the kernel
\* lists its tables and Go iterates its maps, with calls failing and crashes in
\* between: it only removes what is not wanted, only adds what is, and the
\* retries announced in its comments make the kernel right in the end.
Reconciles == R!Spec

\* What that comes to: after the last failure, crash or interference and the
\* last change of services or endpoints, Build leaves the kernel with exactly
\* the items that are wanted, and later calls of Build change nothing.
KernelSettles == R!Settles
=============================================================================
