-------------------------- MODULE MCHaproxySystem --------------------------
(* Instances of HaproxySystem for TLC: services with one and two ports,    *)
(* two of one name in different namespaces, one named like the header's    *)
(* section, with zero to two subsets each.                                 *)
EXTENDS HaproxySystem

CONSTANTS ns1, ns2, web, dns, pod1, pod2, http, https, domain

Port(n, p) == [name |-> n, port |-> p]

Web   == [ns |-> ns1, name |-> web, ports |-> <<Port(http, 80), Port(https, 443)>>]
Web2  == [ns |-> ns2, name |-> web, ports |-> <<Port(http, 80)>>]
Dns   == [ns |-> ns1, name |-> dns, ports |-> <<Port(domain, 53)>>]
Stats == [ns |-> ns1, name |-> "stats", ports |-> <<Port(http, 80)>>]

\* For two ports: both pods alike, two subsets, one with no ready address.
Nobody == <<>>
Two    == <<[addrs |-> <<pod1, pod2>>, ports |-> <<Port(http, 8080), Port(https, 8443)>>]>>
Split  == <<[addrs |-> <<pod1>>, ports |-> <<Port(http, 8080)>>],
            [addrs |-> <<pod2>>, ports |-> <<Port(http, 9090), Port(https, 8443)>>]>>
Empty  == <<[addrs |-> <<>>, ports |-> <<Port(http, 8080)>>],
            [addrs |-> <<pod2, pod1>>, ports |-> <<Port(http, 8080)>>]>>

\* For one port.
Pair(n)   == <<[addrs |-> <<pod1, pod2>>, ports |-> <<Port(n, 5353)>>]>>
Spread(n) == <<[addrs |-> <<pod1, pod2>>, ports |-> <<Port(n, 5353)>>],
               [addrs |-> <<pod1>>, ports |-> <<Port(n, 5300)>>]>>

Eps(svc, s) == [ns |-> svc.ns, name |-> svc.name, subsets |-> s]

\* Every kind of Endpoints for one service and for two of different names.
Fixed ==
    {[svcs |-> {Web}, eps |-> {Eps(Web, s)}] : s \in {Nobody, Two, Split, Empty}}
    \cup {[svcs |-> {Web, Dns}, eps |-> {Eps(Web, s), Eps(Dns, t)}]
            : s \in {Two, Split}, t \in {Pair(domain), Spread(domain)}}
    \cup {[svcs |-> {Web2, Dns}, eps |-> {Eps(Web2, s), Eps(Dns, Pair(domain))}] : s \in {Nobody, Spread(http)}}
    \cup {[svcs |-> {}, eps |-> {Eps(Web, Two)}],
          [svcs |-> {Dns, Stats}, eps |-> {Eps(Dns, Pair(domain)), Eps(Stats, Pair(http))}],
          [svcs |-> {Web, Dns, Web2}, eps |-> {Eps(Dns, Spread(domain)), Eps(Web2, Spread(http))}]}

\* Endpoints come late, the other namespace gets a service of the same name.
Changing ==
    {<<[svcs |-> {Web}, eps |-> {Eps(Dns, Pair(domain))}], [svcs |-> {Web}, eps |-> {Eps(Web, Two)}]>>,
     <<[svcs |-> {Web}, eps |-> {Eps(Web, Two)}],
       [svcs |-> {Web, Web2}, eps |-> {Eps(Web, Two), Eps(Web2, Pair(http))}]>>,
     <<[svcs |-> {Web2, Dns}, eps |-> {Eps(Web2, Pair(http)), Eps(Dns, Spread(domain))}],
       [svcs |-> {Dns}, eps |-> {Eps(Dns, Pair(domain))}]>>}

MCFeeds == {<<in>> : in \in Fixed} \cup Changing

MCConfs == UNION Range(Renderings)
MCValid == {conf \in MCConfs : Accepts(conf)}
=============================================================================
