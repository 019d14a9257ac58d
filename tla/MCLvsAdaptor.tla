---------------------------- MODULE MCLvsAdaptor ----------------------------
(* Instances of LvsAdaptor for TLC: port 80 over TCP and UDP on the VIP,   *)
(* left over from an earlier run or not, a virtual server that somebody    *)
(* creates at another address, two pods.                                   *)
EXTENDS LvsAdaptor

CONSTANTS vip, oldVip, pod1, pod2, s1, s2

VS(a, p) == [addr |-> a, proto |-> p, port |-> 80]
RS(a, p) == [ip |-> a, port |-> p]

Web    == [key |-> s1, ports |-> <<[name |-> "web", port |-> 80, proto |-> "TCP"]>>]
Dns    == [key |-> s2, ports |-> <<[name |-> "dns", port |-> 80, proto |-> "UDP"]>>]
Shared == [key |-> s2, ports |-> <<[name |-> "alt", port |-> 80, proto |-> "TCP"]>>]

\* One service with the same port number over both protocols, under two names.
Both == [key |-> s1, ports |-> <<[name |-> "tcp", port |-> 80, proto |-> "TCP"],
                                 [name |-> "udp", port |-> 80, proto |-> "UDP"]>>]

Subset(pods, name, port) == [addrs |-> pods, ports |-> <<[name |-> name, port |-> port]>>]

Eps(k, subsets) == [key |-> k, subsets |-> subsets]

MCRealServers == {RS(pod1, 1), RS(pod2, 1)}
MCInitialVSs  == {VS(vip, 6), VS(vip, 17)}
MCStrangers   == {VS(oldVip, 6)}

\* No service; one without endpoints; two that share a port; two protocols.
MCInputs == {
    [svcs |-> {}, eps |-> {}],
    [svcs |-> {Web}, eps |-> {Eps(s2, {Subset({pod1}, "dns", 1)})}],
    [svcs |-> {Web, Shared}, eps |-> {Eps(s1, {Subset({pod1}, "web", 1)}), Eps(s2, {Subset({pod2}, "alt", 1)})}],
    [svcs |-> {Web, Dns}, eps |-> {Eps(s1, {Subset({pod2}, "web", 1), Subset({pod1}, "old", 1)}),
                                   Eps(s2, {Subset({pod1, pod2}, "dns", 1)})}]}

\* These are inputs for which the code's maps are known to find the right ports.
ASSUME MCInputsUnambiguous == \A in \in MCInputs : UnambiguousPorts(in)

BothInputs == {
    [svcs |-> {Both}, eps |-> {Eps(s1, {[addrs |-> {pod1}, ports |-> <<[name |-> "tcp", port |-> 1],
                                                                       [name |-> "udp", port |-> 2]>>]})}]}
BothRealServers == {RS(pod1, 1), RS(pod1, 2)}
=============================================================================
