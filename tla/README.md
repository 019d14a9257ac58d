# A TLA+ model of kube-bmlb

kube-bmlb is a load balancer for Kubernetes on bare metal. A daemon on each
load-balancing node watches Services and Endpoints, configures LVS (IPVS,
iptables, ipset) or haproxy on its own host, and announces the node's address in
the status of the services of type LoadBalancer. This directory models what the
daemon does after its flags are parsed, checks the models with TLC on small
instances, and proves their safety properties with TLAPS for all of them.

`PROJECT.json` has the same content in a form for tools: the lines of code behind
every definition ("map"), the runs, a mutation of the code that each property
detects, the hazards the properties are for, the findings and the theorems.

## The system

| component | state | operations | talks to |
|---|---|---|---|
| `watch/` | the informers' caches and event queues | event handlers (add, update, delete), `List`, `HasSynced` | API server; calls the handlers of `server/bmlb` |
| `server/bmlb` | `syncChan` (capacity 2), the loop's position, the services whose status is being written | `maybeSync`, `syncing`, `filter`, `updateSvcs` | reads and *mutates* the cached objects; calls `LoadBalance.Build`; writes statuses |
| `lvs/adaptor`, `lvs`, `utils/{ipset,iptables,sysctl}` | none of its own; the kernel's IPVS tables, ipset, nat rules, one sysctl | `Build` | called by `syncing` |
| `haproxy/adaptor` | none | `Build`: objects to configuration text | called by `syncing` |
| `haproxy` | `lastConf`, the configuration files, the haproxy processes and their pid file | `Run`, `buildConf`, `restart` | receives configurations on an unbuffered channel |
| `utils/iptables` runner | a mutex, version flags, the two xtables locks | `EnsureRule`, `DeleteRule`, `EnsureChain`, ..., `Restore` | called by the LVS `Build`; shares the table with other programs |
| `utils/iptables` signal handler, `utils/dbus` | the channel `runner.signal` (capacity 10), the reload functions | `connectToFirewallD`, `dbusSignalHandler`, `reload`, `AddReloadFunc`, `Destroy` | the D-Bus library fills the channel when FirewallD starts or reloads |
| `utils/bits` | words of bits | `Allocate`, `Allocated`, `Revoke` | called by nobody yet |

What is hard about it:

* Four goroutines share `syncChan` and the caches. Handlers drop their token
  when the channel does not exist or is full, while the loop may be anywhere
  between taking a token and listing the caches.
* Some changes are deliberately not reported (updates to another service type,
  deletions found by a relist, endpoint updates in kube-system); only the
  one-minute tick brings them to `Build`.
* `filter` appends the node's address to the *cached* object, so from then on the
  cache shows a status that the API server may not have.
* `updateSvcs` retries with the object listed before `Build`; the retries of an
  outdated object fail for two minutes, replies get lost, other nodes write the
  same status.
* Every kernel call of the LVS `Build`, and every step between receiving an haproxy
  configuration and running it, may fail, is logged and skipped. The daemon may
  die in between, and the kernel remembers what the daemon does not.
* The iptables runner checks and then changes; `Restore` reads and writes the
  whole table. Other programs edit the same table under a lock whose kind depends
  on the version, and a wait for it may time out half-way.
* The daemon may be killed at any moment; API server and kernel go on without it,
  and the next process has only what these two tell it.
* FirewallD flushes the tables and says so before (start) or after (reload); the
  library delivers each signal in a goroutine of its own through a bounded channel
  that `Destroy` uses too.
* `utils/bits` is lock-free; a load and a compare-and-swap are two steps.

## Modules

**`SyncLoop`** (`server/bmlb`, `watch`). One variable per piece of shared state.
An API object carries the fields that some code path tells apart: the type
(`lb`), the Ingress addresses, the resource version and everything else (`ver`).
The API server and the client-go informers are external and modelled as this code
relies on them: a write goes to the store and to a queue per key; `Pop` moves
the head of a queue into the cache and, under the informer's lock, runs the
handler up to `maybeSync`, which is a step of its own because the loop can run
in between; `Relist` loses the events not delivered so far and replaces them by
a fresh list, with `Lost` for cached keys that are gone
(`DeletedFinalStateUnknown`, which the handlers' type assertion rejects). Events
that are in the informer's queue already count as delivered before a relist.
`syncing` is split where another goroutine can interfere: the two `HasSynced`
calls, creating the channel, the first send, the select, listing services
(with `filter`, which touches the cache), listing endpoints, `Build`, and
waiting for the status writes. `silent` and `gaveUp` are history variables: the
keys whose last change nobody reported, and those whose status write timed
out. `syncChan` is read by the handlers without synchronisation; on the
platforms the daemon is built for a pointer is read whole, so the reader sees
nil or the channel, and both orders are among the interleavings.

**`LvsAdaptor`** (`lvs/adaptor`, and what it calls in `lvs` and `utils`). Every
call that leaves the process is an action and may fail; `Crash` loses the local
maps, `Interference` flushes tables or adds a virtual server. The iteration
order of maps and of the kernel's lists is left open. The kernel's services are
keyed by protocol number, and the conversions of `lvs.go` stand between them and
`Build`: `toVirtualServer` turns a number other than 6 and 17 into no protocol,
`Indexed` counts that as TCP, and `toBackendService` makes it 0, as the code does.
Members of the ipset are records in the form `Entry.String` gives them. Scheduler,
flags, timeouts and weights are constant in what `Build` writes and never compared.

**`Reconciler`** is the abstract promise of a backend: repair the difference
between wanted and actual items, never remove a wanted one nor add an unwanted
one, and settle. `LvsAdaptor` is shown to implement it (`Reconciles`), with
items being virtual servers, real servers, ipset entries, rules and the sysctl.

**`Haproxy`** (`haproxy/haproxy.go`). A configuration is an opaque value; what
counts is whether haproxy accepts it and whether two are equal. A generation of
haproxy processes listens with a configuration until a later one names it after
`-sf`. All steps can fail; a container restart takes everything along (bmlb is
the container's command).

**`HaproxyAdaptor`** (`haproxy/adaptor`, templates). `Build` as a function from
the listed sequences to the sequence of sections, the header's `listen stats` among
them. Ports have names and numbers in the input and numbers only in the text. The
reference is not the code's product of addresses and ports but the rule of
`types.go:3502`: connections to a port of the service go to the endpoint ports of
its name (`ReferenceRoutes`). `Build` keeps only a part of it, see `ServesLastInput` and
finding 5.

**`HaproxySystem`** composes the two: `Build` renders what the caches hold, in
any order, and sends it; `Run` checks and starts it. What `haproxy -c` accepts is
no longer opaque here: names of sections (`stats` is one), and of the servers in
one, differ.

**`Daemon`** composes `SyncLoop` with the LVS backend and the kernel. Its backend
is an assumption that `LvsAdaptor` discharges: an undisturbed call of `Build` leaves the kernel
with what it was given (`CleanBuildConverges`), a disturbed or interrupted one
never removes what is wanted nor adds what is not (`Reconciles`), so of each
object it leaves the old state, the new one or nothing (it replaces by deleting
and adding). `Restart` can strike anywhere, in
`Build` and in a status update too: caches, channel and goroutines are gone, API
server and kernel stay, the watches begin with a list.

**`Iptables`** (`utils/iptables`, with the comparison of `utils/version`).
Goroutines call the runner: entry, mutex, the check of `EnsureRule` and
`DeleteRule`, each command, and in `Restore` the opening of the lock file, the
two polls, reading, writing back and `Close` are steps of their own. `newInternal`
derives the flags from the installed version, or from 1.4.11 when it cannot be
read. External: what iptables does to the table (a count per chain and rule;
positions are left out); that it takes no lock before 1.4.20, the socket before
1.6.0 and then the file, and gives up at once, after five seconds or never
according to `-w`; that iptables-restore reads and writes the table in two steps, under that lock since
1.6.2 (so that it fails on the runner's own lock when its version could not be read);
another program that does the same under the lock. Commands are one step,
as nobody that locks can run in between. Return values other than success and
failure are left out.

**`Firewalld`** (`utils/iptables`, `utils/dbus`). `dbusSignalHandler` step by
step, `AddReloadFunc` in two steps because it appends to a slice that the handler
reads without a lock (the reader gets the old slice, the new one or a torn one),
and `Destroy`. External: FirewallD, which owns its bus name before it empties the tables
and reports a reload afterwards; the vendored D-Bus library, which starts a goroutine per
signal, sends one copy per registration under a read lock, appends on every
`Signal`, and closes every registered channel when the connection ends.

**`Bits`** (`utils/bits`). Callers with a load and a compare-and-swap step each;
the word size is a parameter (32 in the code).

The `MC*` modules hold the instances, the eight `*Proofs` modules the theorems
(`DaemonProofs` builds on `SyncLoopProofs`, `HaproxySystemProofs` on
`HaproxyProofs`). Definitions whose name ends in `_something` and
whose comment starts with "Mutant" are plausible bugs; they are not used by
the specifications.

## Runs

States and seconds are those of TLC with two workers.

| run | states | s | shows |
|---|---|---|---|
| `sync_loop` | 154,836 | 78 | `NoLostWakeup`: a reported change that `Build` has not been given has a token, or a handler about to send one, or a loop still to list. `ShownMeansWritten`: where an up-to-date cached object shows this node's address, the API server has it, a goroutine is still writing it, or its write timed out. `IngressKept`: no status write removes another node's address. Without relying on the tick: `ReportedChangeIsListed`, and `LoopKeepsGoing`: the loop comes back to its select. `TypeOK` includes that no status goroutine outlives its round. |
| `daemon` | 445,254 | 157 | `KernelFollowsApi`: after the last change and the last fault the kernel serves what the API server holds, unreported changes, flushes, failed and interrupted `Build`s included. `AnnouncedWhenServed`: the address gets into a status only when the kernel serves the service. `StatusPursued`: a service without this node's address is taken up. Both liveness properties are about a loop past its first send: a restarted process can hang there as the first one can (finding 1), and the runs reach that state. `NoLostWakeup` and `ShownMeansWritten` hold across restarts. The key is in kube-system, where endpoint updates are not reported. |
| `sync_startup` | | | violation, see findings |
| `lvs_reconciles` | 336,756 | 128 | `CleanBuildConverges`: whatever the kernel held, one `Build` in which nothing fails leaves exactly what is wanted. `EntryBeforeServer`: ipset entry and rules precede the virtual server. `Reconciles` (refinement of `Reconciler`, liveness included) and its consequence `KernelSettles`. |
| `lvs_port_names` | | | violation, see findings |
| `haproxy_system` | 76,492 | 43 | `OnlyCheckedConfs`, `AppliedUnlessFailed`, `OneGeneration`, and `SendReturns`: the sync loop never hangs in its send. `ServesLastInput`: unless a step failed, what runs has a section for each service of the last input that has endpoints, in whatever order they were listed; each port reaches all endpoints of its name and no pod of another service, and nothing else if the ports have one name. `DistinctNamesAccepted`: services whose names differ from each other and from `stats` never give a configuration that haproxy refuses. |
| `haproxy_ports` | | | violation, see findings |
| `haproxy_unchanged` | | | violation, see findings |
| `iptables` | 205,222 | 56 | `RuleOnce`: concurrent calls never double a rule. `SnapshotsStayFresh`: between the reading and the writing of iptables-restore, or of another program, nobody else changes the table. `LocksAreReturned`: an xtables lock is held only inside `Restore`, whatever times out. `CallsReturn`. The first two hold for iptables from 1.4.20 on, which locks at all. |
| `firewalld` | 288,000 | 66 | `RulesComeBack`: a reload function whose rules FirewallD removed is run afterwards, in whatever order signals come and however full the channel. `DestroyReturns`: `Destroy` never blocks for good. `TypeOK` includes that the handler has its channel registered at most once until it ends. |
| `firewalld_destroy` | | | violation, see findings |
| `bits` | 121,263 | 17 | `OneOwner`, `SetMeansOwned`, `AloneIsExact` (an undisturbed `Allocate` grants the smallest free ordinal and answers nil only when there is none), `CallsReturn` |

### Bounds

* `SyncLoop`: one key with its service and endpoints. Keys interact only through
  `syncChan` and the `Started` handshake, and the two informers already
  contend for it. `MaxRev` = 2 writes by others (the
  daemon's own writes are not bounded by it) gives: change and change back,
  change plus another node's status, delete and recreate, deletion during a
  status write. Relists are unlimited. The capacity is the code's 2. `sync_loop` has
  one value for the rest of an object, so that liveness can be checked with two
  writes; `daemon` has two, and the safety properties are proved for any number.
* `Daemon`: two writes by others and one fault, from a LoadBalancer service that nobody
  announces and that has no endpoints (`MCInit`; other first states are within reach
  of a write). A restart or a failed `Build` before, during and after each change is
  then covered, and two handlers can fill the channel of the restarted process. A
  second fault starts again from a kernel state that the first can leave too.
* `LvsAdaptor`: ports 80/TCP and 80/UDP at the address, left over or not and
  with any real servers; a virtual server that somebody creates at an old address;
  two pods; no service, a service without endpoints, two services sharing a port,
  two protocols. Two failures, crashes or acts of interference and one change of
  input cover a failure inside the repair of another.
* `HaproxySystem`: four services, two of them of one name, one named `stats`, with one
  port or two and zero to two subsets each; inputs that stay and inputs that change once; two failures.
  `haproxy_unchanged` uses two good configurations and a bad one.
* `Firewalld`: two reload functions, a channel of 2 (10 in the code) and four
  acts of FirewallD, so that the channel can fill while the handler waits, and a
  stale signal can overtake or follow those of a later start.
* `Iptables`: two goroutines, two calls of any kind, a built-in chain and one whose
  name extends it, one rule; two failures or edits by another program; versions
  1.4.9, 1.4.19.1, 1.4.20.0, 1.4.22 and 1.6.2, one on each side of every limit.
  A race needs one call of each goroutine, a lost update one `Restore` and one edit.
* `Bits`: two callers, three ordinals in two words of two bits.

Deadlock is not checked where the system may stop: in `SyncLoop` (its startup can
deadlock, which is a finding), in `Daemon`, which contains it, and in
`Iptables` and `Firewalld`, whose callers may stop calling.

### Fairness

Goroutines that can run do run (weak fairness of each step of the loop and of
`maybeSync`); `Build` returns and a poll with a timeout ends. `Pop` is strongly
fair because the informer takes keys first in, first out. The tick is assumed only
by `DaemonSpec`. Nothing is assumed of the API server: status writes may
fail for ever, watches may break again and again. For LVS, calls return and the
tick keeps calling `Build`; for haproxy, file operations and process starts
end; for `Bits` and `Iptables`, a goroutine inside a call goes on, and another
program gives the xtables lock back; for `Firewalld`, goroutines that can run do,
and FirewallD ends the start or reload it began (the handler waits for it without
a timeout).

## Findings

1. **Startup deadlock** (`bmlb.go:93`, run `sync_startup`). `syncing` makes
   `syncChan` and then sends to it before it ever receives. Two handler calls in
   between fill it: the send blocks for ever and nothing is synchronised, while
   handlers drop their tokens because a "waiting job" exists.
2. **Ports of two protocols** (`lvs/adaptor/adaptor.go:185`, run
   `lvs_port_names`). `getTargetPort` ignores the protocol: the UDP virtual
   server of a service with the same port over TCP gets the TCP endpoints.
3. **A failed haproxy configuration is never retried** (`haproxy/haproxy.go:34`,
   run `haproxy_unchanged`). `lastConf` is set before the configuration is
   written and checked, so the next identical one is "unchanged".
4. **Destroy does not unregister** (`utils/iptables/iptables.go:658`, run
   `firewalld_destroy`). The handler calls `bus.Signal` again because `dbus.go:42`
   says it "registers or unregisters"; the test fake toggles, the library appends.
   The channel stays registered twice without a receiver: signals fill it, then
   the library's senders block, and closing the connection closes it twice, a panic.
5. **haproxy mixes the ports of a service** (`haproxy/adaptor/adaptor.go:67`, run
   `haproxy_ports`). All endpoint ports go into the one backend that all binds of the
   service lead to: with ports 80 and 443 and endpoints at 8080 and 8443, connections
   to 80 reach 8443 too. `types.go:3502` says that the name of a service's port "maps to
   the 'Name' field in EndpointPort objects".

The passing runs say what still holds in the presence of these: for example
`AppliedUnlessFailed`, `NoLostWakeup` (a loop stuck in its first send still
has to list) and `ServesLastInput`.

## Proofs

Every invariant and every action property that a passing run checks is also a
theorem, for all values of the constants. The proofs are checked by `tlapm` to the
last leaf. TLC has checked the inductive invariants on the instances, too.

### Assumptions

They are named in the modules, and TLC evaluates them on the instances.

* `SyncLoopAssumption`: the channel has room for one token, system keys are keys,
  the two addresses differ. `AbsentAssumption`: "no object" is no object.
* `HaproxyAssumption`: accepted configurations are configurations, `None` is none,
  there are finitely many generation names. `SystemAssumption`: the caches list
  finitely many objects with finite lists in them, the configurations are what
  `Build` renders from them, and haproxy accepts those in which no name is repeated
  (the only thing taken from outside the code).
* `BitsAssumption`: the bounds are in order. Ordinals are numbers that do not wrap
  around, as in a range below the largest int32.
* `RunnerAssumption`: built-in chains are chains, the policies include `ACCEPT`
  (that of a fresh table), versions are sequences of numbers.
* `FirewalldAssumption`, `DaemonAssumption`: bounds are numbers, the channel has room.
* `LvsAdaptorAssumption`: what other programs create in the kernel is TCP or UDP. The
  code cannot tell another protocol from TCP, see "Not modelled".
  `RealServersAssumption`: `RealServers` contains all that the inputs lead to.

`OneBuildConverges` has one hypothesis of its own, `UnambiguousPorts`: no service
offers one port number twice (over TCP and over UDP), ports of a subset have names
of their own and a number. Without it the theorem is false; the violation of
`PortsMatchByName` (finding 2) is such an input. The inputs of `lvs_reconciles`
satisfy it, which `MCInputsUnambiguous` has TLC evaluate.

### Arguments

**`SyncLoopProofs`**: `TypeOK`, `NoLostWakeup`, `ShownMeansWritten`, `IngressKept`,
for any set of keys, contents, capacity and number of writes. `NoLostWakeup` is not
inductive: whether a handler reports a deletion depends on the type the deleted
object had in the *event*, and whether the deletion matters on the type it has in the
*cache*. The invariant `Story` relates the two: in the queue of a service each deletion
carries the type of the event before it, the first one that of the cache, and
the last event leaves the type the API server has. With it `ChangeIsNotified`
shows that each change of what `Build` would see is reported unless it is one of
the `Unreported` kinds. `ChanMade` says that from the first send on a handler finds the
channel. Then a handler that finds the channel full leaves a token behind, and
the loop takes a token only on its way to listing both caches.

The two properties of the status writes rest on `StatusInv`. `VersionsOf`: no copy of
a service (cached, queued, or held by an update goroutine) is newer than the
stored one, and a copy of the same version has all of its addresses (and perhaps the
one that `filter` appended). So a write that the API server accepts, which is one from
the stored version, loses nothing. `LastOf`: the last event in the queue leads to the
stored object, so the cache gets there when the queue is empty. `ShownOf`: a cached
object that shows the address too early is held by a goroutine, unless that timed out;
`NoneHeld`: `updateSvcs` waits, so the next `filter` meets no goroutine of the last round;
it is a part of `TypeOK`, whose theorem therefore comes from `StatusInv` as well.

**`DaemonProofs`**: `NoLostWakeup` and `ShownMeansWritten` with restarts and a backend
that fails, and `AnnouncedWhenServed`. Steps of the loop keep the invariants of
`SyncLoopProofs`; a restart establishes them anew, because empty caches show nothing
and the first lists arrive in the queues. `HeldIsListed` (a status is written only for
a service that `Build` was given) and `ServesListed` (while statuses are written,
the kernel has what `Build` was given if nothing disturbed it) give the third.

**`LvsAdaptorProofs`**: `TypeOK`, `CleanBuildConverges`, `EntryBeforeServer` and the
safety part of `Reconciles`. `BuildInv` says of each step of `Build` what is right
already if nothing failed: sysctl, rules so far, entries, the virtual servers that
are checked or created, and their real servers; of the list still to be checked
that it covers the rest of the kernel's table. `Control` holds even when calls fail:
what `Build` is going to delete is unwanted and what it is going to add is wanted. At the
end of an undisturbed `Build` this leaves exactly `Target`, and `ExpectedIsReference`
shows that the nested loops of `getExpectRSs` compute the reference's real servers.
For the refinement each call is shown to add or remove one item (a virtual server that
is deleted takes its real servers along), and the item to be on the right side of
`Target`. This needs `ReadOnce`: no virtual server is looked at twice in one `Build`, or
the second look, finding it gone from `portServiceMap`, would delete a wanted one.

**`HaproxyProofs`**: `TypeOK`, `OnlyCheckedConfs`, `AppliedUnlessFailed` and
`OneGeneration`. The invariant adds `FilesFollow` (from receive to rename
the temporary file, and from then on the real file, holds `lastConf`, and it was
accepted before the rename) and `PidsKnown` (while it could be read every time,
the pid file names all that listen, and it names one generation).

**`HaproxySystemProofs`**: `ServesLastInput` and `DistinctNamesAccepted`, for any
services and endpoints. The sequences that `Build` appends to are `FlattenSeq`s; the
elements and, for sequences of at most one element, the length of a flattened
sequence are proved by induction, in the form "the set of counterexamples has
a least element, which is none". From these follow the servers of a backend
(`ServersFacts`), the sections (`SectionsFacts`, with the header `ConfFacts`) and where
connections go (`ConfRoutes`): from any port of a service to any port of its endpoints.
The routes by name are among these, and all of them when there is one name, which is
`ConfMatches`. There is one more section than served services, hence, when names differ
from each other and from the header's, as many names as sections, and no name is
repeated (`ConfAccepted`). `SentRendered` carries this to the processes: what waits in the send,
or else what `Run` took up last, was rendered from the input of the last call.
`SystemRunsHaproxy` transfers the theorems of `HaproxyProofs` to the composed system.

**`IptablesProofs`**: `TypeOK`, `RuleOnce`, `SnapshotsStayFresh`, `LocksAreReturned`. The
mutex alone does not protect the table, other programs and `EnsurePolicy` do
not take it. `LockPlaces` says which xtables locks a goroutine holds at each step,
and that a restore that is told to wait is one that locks by itself, `Snaps` that a
table that was read is kept only under the lock, `Fresh` that under the lock it is
still the table, and `Checked` that the rule `EnsureRule`
found missing is still missing when it is inserted, which is where the mutex and
the lock are needed together.

**`FirewalldProofs`**: `TypeOK`, which says that the second registration is the
handler's last act: until then the channel is registered at most once.

**`BitsProofs`**: `TypeOK`, `OneOwner`, `SetMeansOwned` and `AloneIsExact` for any word
size. The invariant adds that a caller inside `Revoke` still owns its ordinal; the step
is `SwapChangesOneBit`, which rests on `BitsAreDistinct` (quotient and remainder
determine the ordinal). For `AloneIsExact`, `AloneInv` says that an undisturbed call has
found every smaller ordinal taken and that the word it loaded is current.

### Only model-checked

Liveness: `KernelFollowsApi`, `StatusPursued`, `ReportedChangeIsListed`, `LoopKeepsGoing`,
the fairness part of `Reconciles`, `KernelSettles`, `SendReturns`, `CallsReturn`,
`RulesComeBack`, `DestroyReturns`. The prover has no rule for fairness. That the backend
of `Daemon` is what `LvsAdaptor` proves of `Build` is an argument of this document (see
`Daemon` above), not a theorem: the two describe the kernel at different levels.

## Not modelled

* Flags, `main`, the pprof server, the annotation encoder in `api/` and the
  in-memory fakes of the tests have no behaviour of their own.
* Operations nobody calls: `StopServiceWatcher`, `StopEndpointsWatcher`, the IPVS
  calls `UpdateVirtualServer`, `GetVirtualServer`, `Flush` and `Dump`, most of
  `utils/ipset` (one command line each, and validation of set types that the daemon does
  not use), the session bus. `AddReloadFunc` and `Destroy` are modelled although the
  daemon does not call them, because the signal handler runs in it.
* Text: log messages, templates beyond names and servers, the parsing of
  iptables-save output, of version strings and of the output of `ipset list`.
  Pre-release versions are compared by nobody.
* Data that `Build` writes as constants and never compares: weights, schedulers,
  flags. An existing ipset of the same name with other parameters makes
  `CreateSet` fail, which is one of the failures; that it fails for ever is not a
  case of the liveness properties.
* A virtual server of somebody else with a protocol other than TCP and UDP at the
  daemon's address: it counts as TCP in `Build`, which can neither delete it nor,
  on its port, see that the TCP one is missing. The definitions have it, the
  runs start without one. IPv6 addresses (the ipset's family is fixed to IPv4).
* haproxy: protocols (`Build` ignores them, as a TODO says), and what two sections do that
  bind one port of `0.0.0.0`, those of two services or a service's and the header's 8081.
* FirewallD is assumed to keep the rules when it stops. A range of `utils/bits`
  that ends at the largest int32 is excluded by assumption.

## Plan

Open, in this order:

1. The link between `Daemon` and `LvsAdaptor` as a theorem: the part of `Daemon`'s `Build`
   that concerns one key, as an abstraction of the items of `Reconciler`.
2. Safety consequences that the liveness runs rely on, as theorems of their own: in
   `Firewalld`, that rules which are missing have a signal or a reload on its way; in
   `SyncLoop`, that the loop stands still only in its first send.
