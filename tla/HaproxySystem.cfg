SPECIFICATION SystemSpec
CONSTANTS
    ns1 = ns1
    ns2 = ns2
    web = web
    dns = dns
    pod1 = pod1
    pod2 = pod2
    http = http
    https = https
    domain = domain
    None = None
    Gens = {1, 2, 3, 4}
    MaxFaults = 2
    Feeds <- MCFeeds
    Confs <- MCConfs
    Valid <- MCValid
INVARIANTS TypeOK OnlyCheckedConfs AppliedUnlessFailed OneGeneration ServesLastInput DistinctNamesAccepted
PROPERTY SendReturns
