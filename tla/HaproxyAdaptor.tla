--------------------------- MODULE HaproxyAdaptor ---------------------------
(***************************************************************************)
(* haproxy/adaptor: HAProxyAdaptor.Build renders the listed services and   *)
(* endpoints as an haproxy configuration.  The lists come from informer    *)
(* caches, in an order that changes from call to call, and the text        *)
(* follows that order; a configuration is modelled as the sequence of its  *)
(* sections: the listen section of the fixed header, then a frontend and   *)
(* backend pair for each service.                                          *)
(***************************************************************************)
EXTENDS Naturals, Sequences, FiniteSets, SequencesExt

-----------------------------------------------------------------------------
(* A service is [ns, name, ports], an Endpoints [ns, name, subsets] with   *)
(* subsets a sequence of [addrs, ports]; addresses and ports are           *)
(* sequences, a port is [name, port].  The text has the numbers only.      *)

\* endpointsMap[svc.Namespace][svc.Name]
endpointsOf(svc, eps) ==
    FlattenSeq([i \in 1..Len(eps) |->
                  IF eps[i].ns = svc.ns /\ eps[i].name = svc.name THEN <<eps[i]>> ELSE <<>>])

\* for m over Addresses, for n over Ports.
subsetServers(s) ==
    FlattenSeq([m \in 1..Len(s.addrs) |->
                  [n \in 1..Len(s.ports) |-> [ip |-> s.addrs[m], port |-> s.ports[n].port]]])

\* Mutant: ports and addresses are paired up.
servers_zip(svc, eps) ==
    LET flat == FlattenSeq([i \in 1..Len(endpointsOf(svc, eps)) |->
                  FlattenSeq([j \in 1..Len(endpointsOf(svc, eps)[i].subsets) |->
                    LET s == endpointsOf(svc, eps)[i].subsets[j]
                    IN  [n \in 1..(IF Len(s.addrs) < Len(s.ports) THEN Len(s.addrs) ELSE Len(s.ports)) |->
                            [ip |-> s.addrs[n], port |-> s.ports[n].port]]])])
    IN  [i \in 1..Len(flat) |-> [name |-> <<svc.name, i - 1>>, ip |-> flat[i].ip, port |-> flat[i].port]]

\* Mutant: the number restarts with every subset.
servers_perSubset(svc, eps) ==
    FlattenSeq([i \in 1..Len(endpointsOf(svc, eps)) |->
      FlattenSeq([j \in 1..Len(endpointsOf(svc, eps)[i].subsets) |->
        LET flat == subsetServers(endpointsOf(svc, eps)[i].subsets[j])
        IN  [n \in 1..Len(flat) |-> [name |-> <<svc.name, n - 1>>, ip |-> flat[n].ip, port |-> flat[n].port]]])])

\* The servers of the backend, named by their number in it.
servers(svc, eps) ==
    LET found == endpointsOf(svc, eps)
        flat  == FlattenSeq([i \in 1..Len(found) |->
                   FlattenSeq([j \in 1..Len(found[i].subsets) |-> subsetServers(found[i].subsets[j])])])
    IN  [i \in 1..Len(flat) |-> [name |-> <<svc.name, i - 1>>, ip |-> flat[i].ip, port |-> flat[i].port]]

section(svc, eps) ==
    [name |-> svc.name, binds |-> [i \in 1..Len(svc.ports) |-> svc.ports[i].port], servers |-> servers(svc, eps)]

\* Services without an Endpoints object are skipped.
sections(lbSvcs, eps) ==
    FlattenSeq([i \in 1..Len(lbSvcs) |->
                  IF endpointsOf(lbSvcs[i], eps) = <<>> THEN <<>> ELSE <<section(lbSvcs[i], eps)>>])

\* "listen stats", a frontend and a backend in one, without servers.
header == [name |-> "stats", binds |-> <<8081>>, servers |-> <<>>]

Conf(lbSvcs, eps) == <<header>> \o sections(lbSvcs, eps)

-----------------------------------------------------------------------------
(* What a configuration should be, for the sets of services and Endpoints  *)
(* objects in.svcs and in.eps.                                             *)

IsSeq(s) == s \in Seq(ToSet(s))

\* What the informer caches can hold: finitely many objects.
WellFormed(in) ==
    /\ IsFiniteSet(in.svcs)
    /\ IsFiniteSet(in.eps)
    /\ \A svc \in in.svcs : IsSeq(svc.ports)
    /\ \A e \in in.eps :
         /\ IsSeq(e.subsets)
         /\ \A j \in DOMAIN e.subsets : IsSeq(e.subsets[j].addrs) /\ IsSeq(e.subsets[j].ports)

HasEndpoints(in, svc) == \E e \in in.eps : e.ns = svc.ns /\ e.name = svc.name

SubsetsOf(in, svc) == UNION {ToSet(e.subsets) : e \in {x \in in.eps : x.ns = svc.ns /\ x.name = svc.name}}

\* Where connections go: from a port that a section binds to any of its servers.
Routes(conf) ==
    UNION {{<<c.name, b, s.ip, s.port>> : b \in ToSet(c.binds), s \in ToSet(c.servers)} : c \in ToSet(conf)}

\* Where they should go: the name of a service's port "maps to the 'Name' field
\* in EndpointPort objects" (types.go:3502), whose number is the pod's port.
NamedRoutes(svc, sub) ==
    {<<svc.name, m[1].port, a, m[2].port>> :
        m \in {x \in ToSet(svc.ports) \X ToSet(sub.ports) : x[1].name = x[2].name}, a \in ToSet(sub.addrs)}

ReferenceRoutes(in) == UNION {UNION {NamedRoutes(svc, sub) : sub \in SubsetsOf(in, svc)} : svc \in in.svcs}

\* The ports of a service and of its endpoints all have one name.
OnePort(in) ==
    \A svc \in in.svcs : \A sub \in SubsetsOf(in, svc) :
        \A p \in ToSet(svc.ports), q \in ToSet(sub.ports) : p.name = q.name

OwnAddress(in, r) ==
    \E svc \in in.svcs : r[1] = svc.name /\ \E sub \in SubsetsOf(in, svc) : r[3] \in ToSet(sub.addrs)

\* One section for each service that has an Endpoints object, and the header's.
\* Every port reaches all that it should, nothing reaches the pods of another
\* service, and where names have nothing to tell apart nothing else is reached.
MatchesReference(conf, in) ==
    LET served == {svc \in in.svcs : HasEndpoints(in, svc)}
    IN  /\ Len(conf) = Cardinality(served) + 1
        /\ {c.name : c \in ToSet(conf)} = {svc.name : svc \in served} \cup {"stats"}
        /\ ReferenceRoutes(in) \subseteq Routes(conf)
        /\ \A r \in Routes(conf) : OwnAddress(in, r)
        /\ OnePort(in) => Routes(conf) = ReferenceRoutes(in)
=============================================================================
