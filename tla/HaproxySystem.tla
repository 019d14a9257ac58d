---------------------------- MODULE HaproxySystem ----------------------------
(***************************************************************************)
(* The haproxy backend as a whole: HaproxyLB.Build lists nothing itself,   *)
(* it renders what the sync loop listed (HaproxyAdaptor) and hands the     *)
(* text to the goroutine that checks and runs it (Haproxy).  The informer  *)
(* caches list their objects in any order, which changes from call to      *)
(* call, and the text follows that order.                                  *)
(***************************************************************************)
EXTENDS Haproxy, HaproxyAdaptor

CONSTANT Feeds   \* sequences of inputs [svcs, eps] that the caches go through

VARIABLES
    feed,  \* what the caches hold now, and will hold later
    sent   \* history: the input of the last call of Build

systemVars == <<vars, feed, sent>>

\* External, haproxy -c: no two sections, and no two servers of a backend, of
\* one name.
Accepts(conf) ==
    /\ \A i, j \in DOMAIN conf : conf[i].name = conf[j].name => i = j
    /\ \A c \in ToSet(conf) : \A i, j \in DOMAIN c.servers :
            c.servers[i].name = c.servers[j].name => i = j

Inputs == UNION {ToSet(f) : f \in Feeds}

\* What Build can make of an input, one text for each order (computed once).
Renderings == [in \in Inputs |-> {Conf(s, e) : s \in SetToSeqs(in.svcs), e \in SetToSeqs(in.eps)}]

\* Haproxy's configurations are these texts, and haproxy -c judges them by
\* their names alone.
ASSUME SystemAssumption ==
    /\ \A f \in Feeds : IsSeq(f) /\ f # <<>>
    /\ \A in \in Inputs : WellFormed(in)
    /\ Confs = UNION {Renderings[in] : in \in Inputs}
    /\ Valid = {conf \in Confs : Accepts(conf)}

-----------------------------------------------------------------------------
SystemInit == Init /\ feed \in Feeds /\ sent = None

\* HaproxyLB.Build, up to the send on ConfigChan.
Build ==
    /\ offer' \in Renderings[Head(feed)]
    /\ Send
    /\ sent' = Head(feed)
    /\ UNCHANGED feed

\* The next call of Build is given other services or endpoints.
Change ==
    /\ Len(feed) > 1
    /\ feed' = Tail(feed)
    /\ UNCHANGED <<vars, sent>>

SystemNext ==
    \/ Build
    \/ Change
    \/ (Run \/ RestartContainer) /\ UNCHANGED <<feed, sent>>

SystemSpec == SystemInit /\ [][SystemNext]_systemVars /\ WF_vars(Run)

-----------------------------------------------------------------------------
(* Properties. *)

Settled == pc = "recv" /\ offer = None /\ lastConf # None /\ ~failed

\* End to end: when Run waits again and none of its steps failed, haproxy
\* serves the services and endpoints that Build was last called with, in
\* whatever order they were listed: every port of a service leads to every
\* endpoint of its name, never to another service's pods, and to nothing else
\* if the services have one port each.
ServesLastInput == Settled => \E conf \in Running : MatchesReference(conf, sent)

\* types.go:3502 says of the name of a service's port: "This maps to the 'Name'
\* field in EndpointPort objects".  What haproxy runs sends the connections to
\* a port to the endpoint ports of its name and to no other.
RoutesByName == Settled => \E conf \in Running : Routes(conf) = ReferenceRoutes(sent)

\* Names that haproxy can tell apart, the header's section included.
DistinctNames(in) ==
    /\ \A s, t \in in.svcs : s.name = t.name => s = t
    /\ \A s \in in.svcs : s.name # header.name

\* haproxy refuses a configuration as a whole, so that one bad section stops
\* every service.  Services whose names differ from each other and from
\* "stats" never give a bad one: the numbers of the servers go on across
\* addresses, ports, subsets and Endpoints objects.  (Sections are named
\* without the namespace, adaptor.go:59: two services of one name in different
\* namespaces do, and so does a service named like the header's section.)
DistinctNamesAccepted ==
    offer # None /\ DistinctNames(sent) => offer \in Valid
=============================================================================
