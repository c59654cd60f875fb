# A verification of sing-tun

sing-tun is a Go library that creates a tun device, takes the packets of the
system from it, and gives them to a handler as TCP connections, UDP packets and
ICMP messages. This directory holds TLA+ models of the library's own logic, the
TLC configurations that check them on small instances, and TLAPS proofs of what
matters most for instances of every size. `PROJECT.json` lists runs, mutants,
hazards, theorems and the source lines behind every definition.

    tlc -workers 2 -config MCTCPNat.cfg MCTCPNat     # one run
    tlapm TCPNatProofs.tla                           # one module's proofs

## 1. Inventory

| Component | State | Operations | Hard about it | What makes it correct |
|---|---|---|---|---|
| TCP NAT (`stack_system_nat.go`) | flow-to-port and port-to-flow maps, port index, sessions with a time, two RWMutexes and a mutex per session | `Lookup`, `LookupBack`, `checkTimeout` | read, unlock, lock, read again; scan then delete; wrap-around and exhaustion | behaves as an atomic table; evicts only idle sessions, and those in the end; calls return |
| System and Mixed stack (`stack_system.go`, `stack_mixed.go`) | listeners, one NAT per family, read buffers | read loops, `processPacket`, `acceptLoop`, UDP and ICMP writers, `Start`, `Close` | goroutines and the kernel share nothing but a port number; buffers are borrowed and reused; `Start` fails half way | connections, packets and answers belong to the flow that opened them; nothing leaks |
| gVisor stack, Mipstack (`stack_gvisor*.go`, `stack_mipstack*.go`) | handshakes under way, ICMP slots, batches in place | forwarders, `processPackets`, `Start`, `Close` | cancellation against a handshake; slots returned on every path | the stacks can be exchanged for one another |
| Linux tun device (`tun_linux.go`, `tun_offload*.go`) | GRO tables, flags, shared buffers | `New`, `BatchRead`, `BatchWrite`, `GSOSplit`, `handleGRO`, the probe | 16-bit arithmetic, limits, several writers | segments tile the payload; coalescing is invisible; every packet is accounted for |
| Auto-route (`tun_linux.go`, `route_dnat_linux.go`, `route_ipvs*_linux.go`) | kernel: routes, policy rules, firewall; process: what it remembers of them | `configure`, `Close`, `refreshIPVSDNSBypass`, `routeUpdate`, `rules` | every step may fail; the process may die; kernel state outlives it | nothing is left behind; rules before firewall; the list of rules decides as the options say |
| Auto-redirect (`redirect_*.go`) | nftables table and sets or iptables chains, a server | `Start`, `Close`, updates of the sets | kernel state built command by command and changed under traffic | packets go the way the options say, from first to last; clean-up |
| Options and packages (`tun.go`, `tun_rules.go`, `packages_android.go`) | four tables of packages | route ranges, Android rules, DNS and names | edges of ranges; tables replaced while used | what is routed is what was asked for |
| Direct routes and ping (`route_direct.go`, `ping/`) | LRU cache, request table, sockets per identifier, rewriters | `Lookup`, `WritePacket`, read loops, `Close` | destinations close themselves while in use | a reply reaches its requester and nobody else |
| Network monitors (`monitor_*.go`, `internal/winipcfg`) | default interface, timers, callback lists, subscriptions | loops, checks, `emit`, (un)register | asynchronous messages, callbacks outside the lock | no wake-up is lost; subscribers agree with `DefaultInterface`; silence after `Close` |
| macOS and Windows devices (`tun_darwin.go`, `tun_windows.go`) | descriptors, session, filters | `New`, reads, writes, `Close` | waking a blocked reader; use after the end | no use after close, everything ends |
| Checksums and headers (`internal/tschecksum`, `internal/gtcpip`) | none | sums, incremental updates | carries, odd bytes, two zeros | a receiver accepts what is sent |

How they interact: `New` configures the device and auto-route; a stack reads the
device in its own goroutine; the system stack sends TCP packets through the NAT
to its own listener; the monitors call auto-route (Android) and auto-redirect
through callbacks; ICMP goes through direct routes to ping.

## 2. Modules

| Module | Models | Notes |
|---|---|---|
| `NatTable` | what a NAT promises: an atomic table | abstract specification |
| `TCPNat` | the NAT with its locks, sessions, clock and timeout loop | refines `NatTable` |
| `SystemStack` | `tunLoop`, `acceptLoop`, the kernel's connections | extends `NatTable` |
| `AutoRoute` | `configure`, `Close`, DNAT and IPVS bypass, `routeUpdate`, crash | |
| `PolicyRules` | the list `rules()` makes, `setRules`, `unsetRules`, marks, the kernel's walk | |
| `NetworkMonitor` | both monitors on Linux | |
| `DefaultRoute` | `checkUpdate` of Android, macOS and Windows | |
| `DarwinMonitor` | the loop, sockets and watchers on macOS | |
| `WinChange` | winipcfg's registries and the Windows monitor | |
| `GSOSplit`, `GRO` | segmentation of what is read, coalescing of what is written | |
| `TunIO` | the Linux device's readers, writers, probe, offload set-up | coalescing abstracted |
| `TunLoops` | the read loops of all stacks on all devices | |
| `Dispatch` | where each stack sends each kind of packet; UDP writers | |
| `MipsPackets` | `processPackets`, `writePackets` | |
| `StackLifecycle` | `Start` and `Close` of the four stacks | |
| `TCPForward` | handshakes of gVisor, Mipstack and the system stack | |
| `ICMPPaths` | echo requests through the three implementations | |
| `PingDestination`, `UnprivilegedPing`, `PingRewriter` | direct routes, raw and unprivileged sockets, ping through gVisor | |
| `Checksum`, `PacketChecksums` | sums of all widths; checksums of everything the stacks send back | |
| `NftSet`, `RedirectChain`, `IPTablesSetup`, `AutoRedirect` | interval sets and their batches; the verdict of the chains; iptables commands; nftables life cycle and server | |
| `RouteRanges`, `Packages` | route ranges, gateways, DNS servers, names; packages and Android rules | |
| `DarwinTun`, `WinSession`, `WinSetup` | the macOS device; packets and `Close` on Windows; its set-up and filters | |
| `TCPNatProofs`, `SystemStackProofs`, `AutoRouteProofs`, `NetworkMonitorProofs` | theorems about the module they are named after | see section 4 |
| `PacketProofs` | theorems about `GSOSplit`, `Dispatch`, `MipsPackets` | extends `MCPackets` |
| `StackProofs` | theorems about `TCPForward`, `ICMPPaths`, `UnprivilegedPing`, `StackLifecycle`, `PingDestination`, `TunLoops`, `TunIO` | extends `MCStacks` |
| `DeviceProofs` | theorems about `DarwinTun`, `WinSession`, `DarwinMonitor`, `WinChange`, `DefaultRoute`, `WinSetup` | extends `MCPlatforms` |
| `RuleProofs` | theorems about `AutoRedirect`, `IPTablesSetup`, `RedirectChain`, `RouteRanges`, `NftSet`, `Packages`, `PolicyRules` | extends `MCRules` |
| `MC...` | instances for TLC | see section 3; `monitor` and `stack_tcp` run `NetworkMonitor` and `SystemStack` themselves |

### How state and actions correspond to the code

Variables keep the names of the fields where they have one, actions those of the
functions or of what a step of them does. A step ends where another goroutine,
the kernel or a failure can interfere; code between two such places is one
action. Kernel and third-party behaviour the code relies on is in definitions
marked external.

**TCPNat.** A nil map entry is `NoPort` or `NoSession`. A session is an address
in `Sessions`; `Reachable` says which are in use, so that memory is allocated
again as the garbage collector would allow it. Each thread has a program counter:
the read under `RLock`, the refresh, the write lock, the second read, the
insertion. Write locks are state since they are held across steps; the session
mutex never is. `checkTimeout` keeps the `now` it took, the list it scanned and
the two locks it takes in order. `lastUse` is history: when a session was last
used, while `LastActive` moves only every `Grain`.

**SystemStack.** A packet is the flow or port it names. `TunRead` starts the NAT
call, `NatAnswer` and `NatEvict` are the NAT's steps, `TunForward` and `TunReply`
finish the packet; `AcceptConn` and `AcceptDone` are the halves of `acceptLoop`.
The NAT is used through `NatTable`, which is sound because `TCPNat` is proved to
refine it. IPv6 is the same code with its own NAT, and Mixed calls it too.

**AutoRoute.** `ctl` is where the goroutine of `New` and `Close` is, `rpc` where
a refresh is. `rules`, `fwTable`, `fwOut` and `ipvsTable` belong to the kernel and
survive `Restart`. Every kernel operation has a `Works` and a `Fails` outcome, and
a failure leaves each partial result the code can leave. `residue` is history: a
clean-up failed, `New` found a firewall table, or the monitor delivered
`routeUpdate` after `Close`.

**PolicyRules.** `rules()` is translated rule by rule, with priorities, jumps,
inversions and masks. A mark is the set of its one-bits. `Verdict` walks the list
as the kernel does: in order of priority, a jump goes forward, a lookup that finds
nothing continues (external). `unsetRules` first deletes by `ruleIndex6`, and gives
up if that rule is not there (`UnsetFails`), then goes through the list it asked
for while the kernel's list gets shorter. Each of its calls may fail too
(`UnsetStops`): then it returns with rules in place, "left" when `Close` called it
and "broken" when `resetRules` did, which adds none then; and `setRules` may stop
in `resetRules` without undoing anything (`AddStops`). The next call of either goes
on from there. `StrictUnreachable` is about a
configuration with an address: without one `rules()` returns nothing
(`tun_linux.go:557`).

**NetworkMonitor, DefaultRoute, DarwinMonitor, WinChange.** On Linux the check is
cut at every system call and the network may change between any two.
`DefaultRoute` has the choice made from rules, routes and metrics on the other
platforms and the comparison that decides whether subscribers are told.
`DarwinMonitor` opens one socket per message, with one goroutine that closes it on
`Close`; the read and the parsing of a message may fail, and then the loop opens the
next socket. `WinChange` has both mutexes of a registry, the wait group of a callback,
the system's thread and the goroutines it starts.

**GSOSplit, GRO.** Bytes are positions, so "the same payload" is equality.
`GSOSplit` steps once per pass of the loop; `Word` is 65536 in the code. `GRO`
steps once per packet and table item; the tables, the order in which items are
tried, capacity, flags, checksum outcomes and headers of buffers are kept.
`Segments` is what the kernel makes of a written buffer (external).

**TunIO, TunLoops, Dispatch, MipsPackets.** `TunIO` has the two locks, the shared
list and tables, and every failure of a frame. `TunLoops` follows single buffers
from the device and back. `Dispatch` is the decision of each stack, one packet at
a time, with the reused read buffer and the writers that outlive it. A packet says
whether extension headers stand before its transport header: the system and the
mixed stack ask for the next header only (`TransportProtocol6`), the library stacks
look behind them. `MipsPackets` is the partition, slot by slot; a packet has the
protocol its IP or fragment header names and the one `UpperLayer` finds, since
`mipsValidLoopbackPacket` asks for the second in first fragments and for the first
in later ones.

**StackLifecycle, TCPForward, ICMPPaths.** The first takes resources one by one,
each of which may fail; `known` is what the fields of the stack remember, `open`
what is really open. The others have one program counter per request. In
`TCPForward` the watcher's `Notify` is heard only while `CreateEndpoint` is in the
waiter queue (`Registers`), and missed before. In `ICMPPaths` a handler may return a
destination together with an error: Mipstack closes it, the others forget it and
leave it open; gVisor's own reply may find no route.

**Ping.** `PingDestination` separates the lookup from the write, with several
goroutines between the two (`writes`), and closes, evicts and times out in between.
The reader's `Close` is two steps, as `Conn.Close` closes the socket before it stores
the flag that a lookup reads; the cache's own takes the lock that every lookup holds
and is one. The request table is a map in the code; here it
is the set of its entries, each with its age in ticks. Where several entries have
the greatest age, any of them may be the oldest: no two requests are taken to have
the same time. `UnprivilegedPing` has the mapping under its mutex and every step
outside of it, and the parent's context may end without `Close`. `PingRewriter` keeps for each checksum the
addresses it was computed over.

**Checksums.** `Checksum` translates the loops of the 32- and 64-bit sums, their
block sizes and folds; a byte is a digit of base `B`. `PacketChecksums` has the
incremental updates and every header the stacks write, as 16-bit words of `W`
values.

**Redirect.** `NftSet` has every batch and commit, each of which may fail. The key of
a user id is its bytes in the order of the host (`little`, with two bytes of `Digit`
values), while the kernel compares keys byte by byte; ranges of ids are sent as they
are in the options, touching and overlapping ones too. `RedirectChain` is the order of
expressions in both back ends, with conntrack's mark and translation (external).
`IPTablesSetup` and `AutoRedirect` are the commands and calls in their order, each
with failure and the death of the process. `cleanupNFTables` drops its errors, so at
`Start` and at `Close` the table and firewall4's file stay or go separately, and the
sets and chains of a `Start` add to a table that stayed.

**Ranges and packages.** Address and uid widths are scaled; sets of `netipx` are
sets. The four assignments of `decodePackages` are four steps beside a goroutine
that builds rules.

**Devices.** `WinSession` orders the counter, the flag and the event exactly as
the code. `WinSetup` has the filters with their weights. `DarwinTun` has the stop
pipe, the readers' wait, and the kernel's silent drop that `writeAccess` is there
to prevent.

## 3. Runs

### Runs of one component

| Run | Checks | Shows |
|---|---|---|
| `nat_safety` | `MapsAgree`, `EvictsOnlyIdle`, `Linearizable` | two callers, three flows, two ports, the checker: the maps stay inverse, `NatTable` is implemented, no session used within `Timeout - Grain` is evicted |
| `nat_live` | `CallsReturn`, `IdleIsEvicted` | two callers on two flows and their locks always return; idle sessions go |
| `stack_tcp` | `OrphansWereEvicted`, `HandlerSeesOpener`, `ReplyReachesOpener` | the handler sees, and a reply reaches, the flow that opened the connection, unless its binding was evicted under it |
| `route` | `FirewallCovered`, `RulesRemembered`, `StoppedLeavesNothing`, `CloseReturns`, `Converges` | three destinations of two families, two failures, one change of the IPVS table, one crash, on Linux and on Android |
| `monitor` | `ToldTheDefault`, `FollowsRoute`, `SubscriberFollows` | two interfaces, two changes, one failure, two subscribers in turn |

### Runs of several components

Components that share no state are checked together. `part` says which component a
behaviour is of and never changes; the variables `v1`, `v2`, ... are the state of
that component, handed to it by a named instance; the others keep a constant value.
The variables also have, as abbreviations,
the names they have in the component, and the components that are proved about take
their constants from the configuration. So the proof modules can extend the `MC`
module and prove the very properties the run checks, for every value of the constants.
An invariant of such a run is the conjunction of `part = "x" => X!Inv`, so each of
them says for several modules what the reader finds in those modules, by the same
names. `FairStep(k)` is the k-th action that some component's fairness is about.
Since a component's `P ~> Q` there has a `Q` that stays true, it is stated as
`<>[](P => Q)`, or, where requests come again, as `[]<>`.

| Run | Parts | Checks |
|---|---|---|
| `packets` | `GSOSplit`, `GRO` with and without validation, `Checksum`, `PacketChecksums`, `PingRewriter`, `Dispatch`, `MipsPackets` | `SplitIsExact`: segments tile the payload with the right sequence numbers and flags. `CoalescingIsInvisible`: what the kernel cuts is what was offered. `ChecksumsAccepted`: every sum is the one's complement sum, and a receiver accepts what is sent exactly if the original was right. `StacksAgree`, `AnswersGoHome`: four stacks hand over the same packets, but for IPv6 extension headers; answers go to the sender. `PartitionIsExact`: the in-place partition loses and doubles nothing. |
| `rules` | `NftSet`, `RouteRanges`, `RedirectChain`, `PolicyRules`, `IPTablesSetup` (Linux and Android), `AutoRedirect` (its own and a custom server), `Packages` | `SetsMatchExactly`: never wider than asked, and exact when complete; of user ids, what the host's byte order allows. `RangesAsAsked`: an address is routed exactly if the options ask for it. `FlowsGoTheirWay`: a flow keeps its path; own traffic escapes; both back ends agree. `PolicyDecides`: a packet is looked up in the tun's table exactly if no option keeps it away, and an `unsetRules` that comes to its end leaves none of the rules. `NothingIsLeft`: after `Close`, however far `Start` came. `AppsObeyed`: uids of stable packages are treated as asked. `RulesSettle`: the accept loop ends, the tables follow the file. |
| `stacks` | `TunIO`, `TunLoops`, `StackLifecycle`, `TCPForward`, `ICMPPaths`, `PingDestination` (in two parts), `UnprivilegedPing` | `EveryPacketAccounted`: written in one frame or reported. `BuffersReturned`: given back once, after their last use. `NothingLeaks`: listeners, handshakes, slots and sockets. `PingsAnsweredRight`: the handler's word is kept alike by all stacks. `RequestsFindTheirWay`: no destination that has closed is returned, no younger request forgotten. `StacksSettle`: everything that was started ends. |
| `platforms` | `DarwinMonitor`, `WinChange`, `DarwinTun`, `WinSession`, `WinSetup`, `DefaultRoute` | `NoUseAfterClose`: callbacks, session and sockets. `NoBatchDropped`: the kernel's silent drop does not happen. `FiltersHold`: own traffic passes, the rest is blocked once the device is up. `DefaultIsTold`: subscribers agree with the chosen interface. `PlatformsSettle`: loops end, changes are heard, packets read; `DefaultRoute` keeps its types. |

### Bounds, and why they are enough

- NAT: two callers and the checker show every race, which are between two
  parties. With two ports the index wraps and three flows exhaust the space
  (`nat_safety`). `MaxTime` lets a session expire, be used again and expire. The
  number of sessions is an allocation bound, above what is reachable at once.
- Stack: `MaxPackets = 2` lets a late packet of one connection stand beside the
  first packet of another; three flows on two ports make ports change hands.
- Auto-route: one IPv6 and two IPv4 destinations show partial additions and both
  families failing on their own; two failures are a failure and a failing
  clean-up. The proofs have no bound.
- Monitors: two changes suffice for one during a check and one after it; one
  failure for a retry that races a change.
- `packets`: with a 4-bit word every length, header and segment size of `GSOSplit`
  is tried, including products that would wrap. Batches of up to four packets of a
  flow let `GRO` append, prepend, skip an item and delete one. Lengths around every
  block size of the sums, with bytes that carry everywhere, nowhere and from one
  end only. Dispatch and partition see every kind of packet the code tells apart,
  IPv6 fragments with and without extension headers included.
- `rules`: all combinations of the options that meet in the same place, and one
  change at a time of those that do not; three bits of IPv4 and four of IPv6 have
  every relation two prefixes can have; batches of two elements on six addresses
  are cut at every place. User ids have two digits (`Digit`), the least in which
  their order matters, and every set of up to two ranges is tried, in both byte
  orders. Two reports of addresses (`Reports`) are one change; `MaxStarts` lets a
  process start on what another left.
- `stacks`: two writers with the probe, two readers; batches of two; three
  connections with two handshakes allowed; two requests for one slot; a table of
  one request for two sequence numbers; two destinations that replace one another,
  with two goroutines between `Lookup` and `WritePacket` (`MaxWrites`) where the
  destinations are few and one (`FewWrites`) where they are many;
  two identifiers, sockets and writers. Ping destinations are looked at twice, because
  requests and destinations together are too many: all requests to the destinations of
  `FewDest`, and all destinations with the requests of `FewSeqs` and `FewWire`.
- `platforms`: two monitors and a listener on the registries, with both
  registrations failing; one reader, two writers and two closers on Windows; two
  writers on macOS; tables of up to two rows with equal, better and worse metrics.

Deadlock is checked for the NAT and the stack. In the other runs the components
really may stop: they are closed, have failed for good, or nothing arrives any
more. Symmetry is used for sessions (`nat_safety`) and flows (`stack_tcp`), where
only invariants and action properties are checked.

### Fairness, and why the code justifies it

- NAT: strong fairness of each thread's and of the checker's steps: the Go
  scheduler runs every goroutine, and a `sync.RWMutex` starves no waiter though the
  lock may be taken by others again and again. Weak fairness of the ticker that
  starts `checkTimeout`. Nothing obliges a caller to call.
- Auto-route: weak fairness of every goroutine's steps and of the ticker; strong
  fairness of the ticker's goroutine seeing the closed channel, because `select`
  chooses between ready cases at random.
- Monitors: weak fairness of the loops, of armed timers and of checks.
- `rules`, `stacks`, `platforms`: weak fairness of each goroutine that is running,
  of time passing, and of the system's delivery of what has arrived. A notification
  ends `CreateEndpoint` only if it was heard, while it waited. `Start`,
  `Close`, packets, changes, failures and answers of the far end are never forced.

### What properties except, by name

Where the code does less than a reader may hope and no line of the repository
promises more, the model does what the code does and the property names the
exception:

- `MixedWithoutStack` (`StackLifecycle`): `Mixed.Close` returns early without a
  gVisor stack (`stack_mixed.go:278`).
- Empty datagrams (`GRO`): they are neither inserted nor merged, so a later one of
  the flow may overtake them (`tun_offload_linux.go:869`).
- `GaveUp` (`TunIO`): `enableGSO` failed and the device had been opened with a
  header (`tun_linux.go:346`).
- `dropped` (`DefaultRoute`): the VPN flag stored before a call that failed
  (`monitor_android.go:33`).
- `missed` (`Packages`): a change between the first reading and the watcher.
- `LeftOut`, `AllDropped` (`RouteRanges`): `0.0.0.0/8` and its like on macOS,
  which the list of sub ranges does not have; on macOS beside a list of routes, the
  device's own networks of 32 bits or more, IPv6 ones included; and DNS servers of
  families the device has no address of.
- `lost` (`WinSetup`): a route that could not be added while a later one could.
- `stranded` (`DarwinTun`): a reader that had not collected the event when the stop
  pipe was closed (`tun_darwin.go:190`).
- `stale` (`AutoRedirect`): the caller's route sets have changed and it has not
  called the update yet. `dirty` (`IPTablesSetup`): a removal itself failed.
- `residue` (`AutoRedirect`): `cleanupNFTables` could not open nftables, flush, or
  remove firewall4's file, and said nothing (`redirect_nftables.go:337`, `:345`). At
  `Close` table or file stay; at `Start` the chains of two processes add up.
- `unlisted` (`PolicyRules`): `nextIndex6` could not list the rules, so the rule has no
  priority and `unsetRules` does not remember it (`tun_linux.go:520`). The phases `left` and `broken`: an
  `unsetRules` that failed itself leaves rules until it is called again
  (`tun_linux.go:1070`, `:1081`).
- `Walks` (`Dispatch`): the system and the mixed stack reflect IPv6 packets with
  extension headers, gVisor and Mipstack hand them over.
- `FragmentsTogether` (`MipsPackets`): with extension headers between the fragment
  header and TCP, the first fragment goes back to the host and the later ones go to
  the stack (`stack_mipstack.go:352`).
- `little`, `Disjoint` (`NftSet`): on a little-endian host the ids inside a range are
  compared with their bytes exchanged (`redirect_nftables_rules.go:504`), so only its
  two ends are known; and the end of a range inside another ends that one too.
- `missed` (`TCPForward`): the context ended before `CreateEndpoint` was in the waiter
  queue (`stack_gvisor_tcp.go:86-94`), and the handshake waits for its client.
- `closing` (`PingDestination`): a lookup between the two halves of `Conn.Close`
  (`ping/ping.go:285`) returns the destination whose socket is closed already.

### Findings

- `gso_count`: when a packet has more segments than there are buffers, `GSOSplit`
  fills all of them and returns `i - 1`, although its comment says that it returns
  the number of buffers populated (`tun_offload.go:86`, `:179`).
- `gro_stale_header`: an item deleted from the TCP table for its checksum stays in
  the list of buffers to write, and nobody encodes its virtio header: it is written
  with what the headroom held (`tun_offload_linux.go:638`).
- `auto_redirect_local`: the set of local addresses is compared with itself and is
  never updated (`redirect_nftables_rules.go:78`).

Further observations are notes of hazards in `PROJECT.json`; one is that a family
without addresses is written to nftables as a start and an end of the same key
(`redirect_nftables_exprs.go:169`), a form the comment a few lines above says the
kernel rejects.

## 4. Proofs

Each theorem holds for every value of the constants that satisfies the
assumptions named in the module it is about. All are proved the same way: the
initial states satisfy an inductive invariant, each action keeps it, it implies
the property. `PacketProofs`, `StackProofs`, `DeviceProofs` and `RuleProofs`
extend `MCPackets`, `MCStacks`, `MCPlatforms` and `MCRules`: for each part an inductive invariant is proved under
`part = "x" =>`, and the theorem, `Spec => []P` for a `P` the run checks, collects
those of its parts. The invariants were checked with TLC before they were proved.

**`TCPNatProofs`**, for any threads, flows, sessions, ports and times:

- `NatInvariant`: `Spec => []NatInv`. `MapsAgree` alone is not inductive: that
  the insertion keeps the maps inverse needs that the flow is still unbound,
  which is known only because the thread holds the lock since it looked. `NatInv`
  adds who holds which lock where, what each local variable still says about the
  maps, and that a collected session has not been reused.
- `MapsAlwaysAgree`: `addrMap` and `portMap` are inverse.
- `EvictionBound`: no step of `checkTimeout` removes a session that was used
  within `Timeout - Grain`.
- `NatRefinesTable`: `Spec => Abstract!Spec`, where the table is `addrMap` and a
  call's answer is read from its program counter. The linearization point of
  `Lookup` is its first read, its second read or the insertion; of `LookupBack`,
  its read.

**`SystemStackProofs`**, for any flows, ports and packets:

- `StackInvariant`: a connection, a packet in the tun, a pending accept and an
  answer of the NAT each rest on a binding that still stands, or `lost` records
  that it was evicted. The properties are not inductive, because they are about
  one instant and the port number travels through three queues before it.
- `OrphansTheorem`, `HandlerTheorem`, `ReplyTheorem`: the two action properties
  follow because a port has one owner in `NatTable`.

**`AutoRouteProofs`**, for any destinations, options, failures, changes and restarts:

- `RouteInvariant`: `Spec => []RouteInv`. Beside the types it says who holds
  `routeAccess` (`LockHeld`), where a refresh can be while `ctl` moves
  (`RefreshPlace`), when each bypass exists (`BypassPlace`), that the rules are
  the base rules and those of the destinations remembered *so far* in the middle
  of a refresh (`RulesPlace`), how the firewall, its cache and the refresh relate
  (`OutputPlace`, `RefreshPhase`), and what is left when no clean-up failed
  (`CleanPlace`).
- `FirewallAlwaysCovered`, `RulesAlwaysRemembered`, `NothingLeftBehind` follow.

**`NetworkMonitorProofs`**, for any interfaces, changes and failures:
`MonitorInvariant` and `ToldTheorem`. A check publishes the interface before it
tells anybody, so `ToldTheDefault` fails in the middle of an emission; the
invariant says what is being emitted and who was not copied into its list.

**`PacketProofs`**:

- `SplitTheorem` (`SplitIsExact`), for every length, header, segment size and
  word: after `k` passes the next segment starts `k` segment sizes behind the
  header, so there are fewer passes than bytes and no product wraps.
- `AnswersTheorem`, `StacksTheorem`, for any clients: a writer that is kept is its
  own client's; the verdicts of the four stacks are compared case by case, pairs that
  `Walks` tells apart only for packets without extension headers.
- `PartitionTheorem` (`PartitionIsExact`), for batches of any length: the entries
  before the turn are two sorted runs, and no round writes to an entry whose turn
  has not come. Where an entry goes is decided by the packet alone, so fragments of
  one datagram part only where `ValidLoopback` asks their headers differently.

**`StackProofs`**, for any number of connections, requests, sockets, identifiers,
goroutines and failures:

- `LeaksTheorem` (`NothingLeaks`). The counters equal the cardinality of the set
  they count: handshakes (`TCPForward`) and detached requests (`ICMPPaths`). A
  socket is opened together with its entry in the mapping and whoever takes the
  entry out closes it next (`UnprivilegedPing`); an open destination is the one in
  the cache (`PingDestination`). What `Start` has left to do is one of a few lists,
  and what it opened is what the fields hold (`StackLifecycle`).
- `PingsTheorem` (`PingsAnsweredRight`): the table holds only requests the client
  still waits for, and has made room before a request enters it.
- `RequestsTheorem` (`RequestsFindTheirWay`, an action property): a destination in
  the cache whose flag is not set has an open socket, or its reader is between the
  two halves of `Conn.Close`.
- `BuffersTheorem` (`BuffersReturned`), for batches of any size: packets written,
  queued and still to process are three runs of the order of reading.
- `PacketsTheorem` (`EveryPacketAccounted`). For each call the packets of its
  batch are divided between the frames written, the frames in `gsoToWrite` and
  the errors kept, and these frames are disjoint; the other calls are unaffected
  because only the holder of `writeAccess` changes the list, and the probe ends
  before anybody else writes. What `configure` decided about the header and the
  offloads does not change while packets are written. For reads: the one reader
  with the lock splits the last frame sent, which is above all delivered ones.

**`DeviceProofs`**:

- `BatchTheorem` (`NoBatchDropped`): with `sendmsg_x` every writer holds
  `writeAccess` from before its first call into the kernel until after its last.
- `NoUseTheorem` (`NoUseAfterClose`): `t.running` is the number
  of goroutines inside a call, the flag is set before `Close` waits for zero, and
  whoever counts itself later finds the flag before the session. A callback is in
  a registry only while its user remembers it or is on its way to remove it. Each
  socket of the macOS monitor is opened after a message of the last was read.
- `DefaultTheorem` (`DefaultIsTold`): inductive as it stands.
- `FiltersTheorem` (`FiltersHold`): `configure` takes its steps in the order of
  their ranks, so no filter blocks before those that permit are there.

**`RuleProofs`**:

- `NothingLeftTheorem` (`NothingIsLeft`), for any number of rules, failing
  commands, starts and addresses. With iptables the commands still to run are of
  one of a few shapes, and each chain is where the commands left for it say: for a
  removal, absent or with its `-D`, `-F` and `-X` ahead; for a set-up, complete and
  jumped to, or with its `-N` ahead, or short of as many rules as are still to be
  added. No jump is added before the last rule, which is why no packet meets half a
  chain. With nftables only the creation of the sets adds the table, and an update
  that `Close` overtook finds no table and adds none; whether the last clean-up
  was complete is `residue`, so the table has no chain of another process without it.
- `FlowsTheorem` (`FlowsGoTheirWay`), for any sets of options, flows and route
  sets. The invariant says of the conntrack entry what `FlowKeepsPath` says of two
  packets: what is stored decides about every later packet as about the first
  (`PathKept`), and traffic of the program and for the host leaves nothing there
  (`StaysOut`).
- `RangesTheorem` (`RangesAsAsked`), for address families of any width. Two
  prefixes are disjoint or one is inside the other, because an address belongs to a
  prefix exactly if their quotients by its size agree; so the largest prefixes
  inside a set cover it, and the sub ranges of macOS are the powers of two.
- `SetsTheorem` (`SetsMatchExactly`), for any largest address and any even batch
  size. Up to an address there are as many starts as markers, or one start more,
  and one more exactly if the address is wanted; a message with an even number of
  elements therefore never ends with a start. The invariant `Filling` says that
  what the kernel has is below what is still to come, and even in number. For user
  ids: exchanging the bytes is one-to-one, so a start is matched by its own element
  and the marker of a range cuts off the id behind it, whatever the order.
- `AppsTheorem` (`AppsObeyed`), for any files, options and users. While the four
  tables are replaced they are of the file that is read as far as the update has
  come; each name of the options that every version of the file gives the same id
  is in the lists or still to be looked up.
- `PolicyTheorem` (`PolicyDecides`), for any configurations, packets and marks. The
  list is sorted, so a packet is followed from one priority to a later one: between
  two priorities every rule lets it pass, sends it on or ends its way (`Stretch`),
  in whatever order the rules of one priority were added. The ten priorities are
  enough for every combination of options (`Budget`), so a jump lands behind the
  lookups; and the bypass mark under its mask is never the input mark. Which
  rules are in the kernel is the invariant `PolicyInv`: what is there and what is
  still to be added make up the configuration's list. For the removal, which
  deletes the first rule of a family and priority, what is still to be looked at is
  the end of the kernel's list with nothing to remove before it (`Clearing`), so
  the first such rule is the one that was listed. After a failure what is known is
  that every rule in the kernel is the system's, in the range or remembered in
  `ruleIndex6`, which is what the next removal needs.

**Assumptions.** Names are distinct from each other and from `None`, `Nobody` and
the like; bounds, ports, limits and times are naturals; sets that are counted are
finite; packets, flows and batches have the kinds the code tells apart. The size of a
batch of nftables elements is even and positive (1000 in the code), and the last
address is a natural; the powers of two double up to the sum of the two widths
(what `2^k` is for every `k` is not known to the provers, and TLC evaluates it);
`None` and `Failed` are no addresses, names or sets of servers; in a packages file
that can be read, a package and a shared user of the same name have the same id,
and the ids of a user fit its range of uids. The policy rules start behind priority
0, their range ends before the kernel's rule for table main, and the fallback rule
of auto-redirect is behind that one; the input and the output mark differ. Modules that only
several-part runs use state theirs as an operator; the `MC` module has it as an
`ASSUME` about its instance, which TLC evaluates and the theorems rest on.

**Only model-checked**, and why:

- Liveness (`CallsReturn`, `IdleIsEvicted`, `CloseReturns`, `Converges`,
  `FollowsRoute`, `SubscriberFollows`, `RulesSettle`, `StacksSettle`,
  `PlatformsSettle`): fairness and `ENABLED` are out of the prover's reach.
- `ChecksumsAccepted`, `CoalescingIsInvisible`: what loops and folds compute over
  data of any length. The type invariant of `DefaultRoute`, whose choice is a fold
  over the table, for the same reason. Induction over the naturals is available (a
  set of naturals has a least element, `NatMin`) and is used for prefixes and
  elements; what a fold computes would need it for operators, which the provers
  cannot instantiate.

## 5. Not modelled

- Plain `Read` on Linux without batches, and a tun passed by file descriptor, for
  which `New` configures nothing.
- An `IPRoute2TableIndex` drawn at random: the model has one firewall table, as
  with a configured index.
- Addresses and routes of the macOS device; the dispatchers and processors of
  `internal/fdbased_darwin`; the dynamic store behind `systemconfiguration`.
- `rateJuggler`, which decides when a Windows reader spins; the Windows firewall
  rule of `internal/winfw`; loading and unloading of the Wintun library.
- Field accessors and parsers of headers, options and NDP (`internal/gtcpip`): no
  state; the amd64 assembly of the sums: generated. Bindings in
  `internal/winipcfg` and `internal/winsys`, `memmod`: data layouts and I/O.
- gVisor's and Mipstack's protocol stacks, which are other projects.

## 6. Plan

1. Proofs: the folds of `Checksum` and `GRO`.
2. `DefaultRoute` composed with `AutoRoute`: what a dropped VPN flag does to the
   rules on Android.
3. The addresses and routes of the macOS device.
