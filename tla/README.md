# olsrd in TLA+

TLA+ models of the core of olsrd, the routing daemon for the Optimized Link State
Routing protocol (`src/src`), with TLC configurations that check them on small
instances and TLAPS proofs about the duplicate set. `PROJECT.json` holds the same
information in tabular form: for every definition the lines of C it stands for, for
every property a mutant of the code that breaks it.

## 1. The system

olsrd is one process with one thread. Its main loop (`src/src/main.c`,
`olsr_socket.c`) updates the clock, walks the timer wheel, processes the changes the
timers made, and waits for packets. Everything else runs inside a timer callback or a
socket handler, so the interleavings are those of callbacks, packets of other nodes,
the kernel and the operator, not those of threads. (The plugins bmf, cl_roam and dyn_gw
start threads of their own; they are outside of these models.)

| Part | State | Operations | Interacts with |
|---|---|---|---|
| clock (`olsr_clock.c`) | base time, last time, milliseconds in 32 bits | init, update | timer wheel; wall clock set by operator or NTP |
| time codes (`olsr_clock.c`) | none | encode, decode | all message generators and parsers |
| timer wheel (`olsr_timer.c`) | slots, entries, position of the walk | start, stop, change, set, remove, walk | callbacks of all parts |
| output buffer (`net_olsr.c`) | a buffer and a hold timer per interface | push, output, add and remove buffer | generators, forwarding, interfaces |
| duplicate set (`duplicate_set.c`) | a 32-bit window per originator, twice | test and note, expire, flush | parser, forwarding, TC and HNA input (reset status) |
| parser (`parser.c`) | registered functions | parse packet, forward message | duplicate set, output buffer, MPR selectors |
| link set (`link_set.c`) | links with three timers | HELLO, expiry, interface removed | neighbor table, link quality |
| neighbor table (`neighbor_table.c`) | one-hop and two-hop neighbors, connectors | add, delete, link, status update | link set, MPR, topology set |
| HELLO processing (`process_package.c`) | none | hello_tap | link set, neighbor table, changes flags |
| MPR selection (`lq_mpr.c`) | is_mpr flags | calculate | neighbor table |
| topology set (`tc_set.c`) | nodes, edges, their inverses, two timers | TC input, expiry, garbage collection, TC output | neighbor table, MID, HNA, SPF |
| SPF (`olsr_spf.c`) | candidates, path list | calculate | topology set, routing table, backoff timer |
| routing table (`routing_table.c`) | paths per prefix and originator, best path | insert, update, delete, elect | HNA, SPF, interface locks |
| kernel routes (`process_routes.c`, `linux/kernel_routes.c`) | change list, failure counts | add, delete, change | kernel, which may refuse |
| HNA set (`hna_set.c`) | networks per node | input, expiry | routing table |
| MID set (`mid_set.c`) | aliases per node | input, expiry | topology set, neighbor table |
| interfaces (`interfaces.c`, `unix/ifnet.c`) | list, reference counts | add, remove, check | buffers, links, routes |
| main loop, sockets, callbacks, memory cookies | see section 7 | | everything |
| link quality plugins (`lq_plugin.c`, `lib/lq_*`) | quality per link | packet, HELLO, timer | link set, topology set |
| configuration, logging, control port, plugins, OS layers, GUI | | text and system calls | |

What makes it hard: sequence numbers and clocks that wrap; messages that are lost,
repeated, late and fragmented; nodes that restart; callbacks that change the wheel that
is calling them; counters and back pointers kept by hand over many deletion orders;
change flags that are collected in one place and cleared in another; a rate limit between
a change and its calculation; a kernel that fails between two calls that belong together.
The hazards of `PROJECT.json` list these at their lines.

## 2. Modules

| Module | Models | Run |
|---|---|---|
| `DupWindow` | `olsr_is_duplicate_message()` as a function of an entry and a number | |
| `DuplicateSet` | the duplicate set | `duplicate_set` |
| `DuplicateSetProof` | theorems about it | TLAPS |
| `OlsrClock`, `Vtime`, `TcBorder` | clock, time codes, border flags of TC fragments | `arithmetic` (`MCArithmetic`) |
| `OlsrTimer` | the timer wheel | `timer` |
| `OutBuffer` | output buffers with all their writers | `out_buffer` |
| `LinkNeighbor` | link set, neighbor tables, HELLOs | `links`, `symmetric_without_link` (`MCLinkNeighbor`) |
| `LinkCost` | the two broken costs | |
| `MprSelection`, `Spf` | the two calculations of `olsr_process_changes()` | `calculation`, `mpr_always` (`MCCalculation`, `MprSelection`) |
| `TopologySet` (extends `TcBorder`) | the link state database with fragments of other nodes | `topology` |
| `Routes` | paths, best routes, kernel routes, locks, backoff | `routes`, `routes_refused` (`MCRoutes`) |
| `Flooding` (extends `DupWindow`) | the spread of messages over a network of nodes | `flooding` (`MCFlooding`) |

Compositions. `Flooding` runs the filter of `DupWindow`, the one the proofs are about, in
every node of a network. `TopologySet` receives the fragments `TcBorder` cuts, with the
ranges its receiver computes. `LinkNeighbor` and `OutBuffer` each join several source files
around one piece of shared state. `MCArithmetic` and `MCCalculation` put independent models
side by side in one run; their parts share no state.

### How state and actions correspond to the code

Names are those of the source. A C function that changes several structures is an operator
from a record of these structures to a record (`LinkNeighbor`, `TopologySet`, `OutBuffer`),
so that an action is the composition of the functions its handler calls, in order. Trees and
lists are sets and functions; where the order of a tree decides something (`MprSelection`,
`Routes`), its keys are numbers. A bitmap is the set of its bits. A timer is a flag that it
runs; it may fire at any later step. Costs are numbers, or usable or not where only that
matters.

* `DuplicateSet`. A key is one of the two trees with one originator. `FirstMessage` and
  `NextMessage` are the two branches of `olsr_is_duplicate_message()`. `got` and `pending` are
  history: what was accepted in this lifetime of the entry, and the number that created it,
  which has no bit.
* `OlsrClock`. A `struct timeval` is one integer. `Rebase` is the branch for a wall clock that
  was set; C's truncating division and the 32-bit word are kept.
* `OlsrTimer`. `olsr_timer_walk()` is cut at each callback (`NextTimer`, `CallbackReturns`,
  `EndSlot`, `EndWalk`); between the cuts the callback calls `olsr_timer_set()` and the
  functions behind it. `due` is the true time left, without overflow or hashing.
* `OutBuffer`. One record per interface goes through `net_output()`, `net_outbuffer_push()` and
  the timer; five writers use it.
* `LinkNeighbor`. A link is named by the remote interface; `unseen` notes that a neighbor changed
  since the last MPR calculation.
* `MprSelection`. The loops of `olsr_calculate_lq_mpr2()`, `mpr_coverage` rounds per two-hop
  neighbor. A step between two calculations changes the neighborhood.
* `Spf`. One step explores one candidate; ties are broken in any order.
* `TopologySet`. `said` and `heard` belong to the other nodes: what they announce and which
  fragments of it arrived. `LateTc` is a fragment of an earlier announcement that arrives after
  fragments of the later one. It resets `heard` only where the code takes it although it has seen
  the later number.
* `Routes`. `reach` stands for what SPF computed. The kernel refuses any set of deletions and
  additions. `errors` counts the refusals for a network; `missed` notes that changes were dropped
  since the last calculation. `Etx` has both branches of the discount, with the constants of the
  code. `Relocked` and `olsr_delete_rt_path` make the lock and unlock calls of
  `routing_table.c:135` and `routing_table.c:295`.
* `Flooding`. Copies of a message on the air are a set and arrive in any order; one that never
  arrives is a lost one.

## 3. What the runs check

### duplicate_set
A sequence number space of 16, a window of 4, a reset after more than two much too old
messages in a row, every number at every step, expiry and flush. The space is four windows
wide, so that all answers of the filter and the wrap-around occur; keys do not
interact, so one is enough for TLC (the proofs take any set of keys).
`TypeOK`; `BitmapExact`: the bits of the window are exactly the numbers accepted and still
covered; `NoReplay`: a covered number passes twice only if it created the entry;
`NewestNeverBack`: only a reset moves the newest number back.

### arithmetic
Three independent parts in one run.
The clock in a word of 32 milliseconds, a second of 12 microseconds, the wall clock set to
any of 96 values at every update: `ClockAdvances` (never back, never more than the allowed
gap), `ClockAccurate` (to less than a millisecond), `IsPastExact` (over the overflow).
The time code with its own constants, for all times up to 2.5 s and around every value
a code stands for: `CodeClose`.
TC fragments of every neighbor table of up to four of the 14 addresses of four bits, with
any part of it advertised, two edges in a message: `BordersSeparate` (no fragment revokes
what another announces) and `BordersCover` (no gap, when all are advertised; with others in
between there are gaps, see section 6).

### timer
Two timers, periodic and not, a wheel of two slots, a clock word of 18, relative times and
gaps between walks of up to three: more than a turn of the wheel and more than one round of
the clock. `WheelExact` (a running timer hangs in the one right list, a stopped one in
none), `CallbackEntryLives` (no entry is freed under its callback), `NeverEarly`,
`WalkComplete` (all that is due is called back, except at the overflow), `LateByOneTurn`
(the exception is bounded), `WalkEnds`.

### out_buffer
Two interfaces, one of them "ether", MTUs of 3 and 4, messages of 2, 3 and 5: each size fits
alone, together or not at all. Three messages besides any number of HELLOs.
`BufferExact` (no overflow), `OrderKept` (no reordering, nothing twice),
`DropsOnlyOversized` (nothing else is refused, and what is queued leaves only in a packet),
`BufferDrains`.

### links, symmetric_without_link
A neighbor A with two interfaces, a neighbor B and a node C; A may list B and C, B may list C.
HELLOs call our interface symmetric or lost or do not mention it, and carry `WILL_DEFAULT` or
`WILL_NEVER`. The run has three parts, each with the HELLOs its question needs: all three links
without connectors; connectors of A and B, also both to C, so that a two-hop neighbor survives
the first of its connectors and not the last; the two links of A, a connector and a changing
willingness. `CountsExact` (link and MPR selector counters); `TwoHopExact`: the two-hop
neighbors are those with a connector, and a connector goes only by its own timer, with its
neighbor, or when its node becomes a symmetric neighbor; `NeighborsSeen` (no change of a
neighbor escapes the MPR calculation).
`SymHasLink` is what a comment of `lq_mpr.c` expects and does not hold; see section 6.

### calculation, mpr_always
Two independent parts. MPRs: every neighborhood of two neighbors and two two-hop neighbors with
costs that tie and differ, with each other and with the direct link, connectors without cost,
neighbors without link, coverage one and two: `Covered`, `BestPathCovered`. SPF: every database
of four nodes with two costs or no edge in each direction, every set of symmetric neighbors,
ties broken in any order: `ShortestPaths`, `NextHopOnPath`, `Settled`. Permutations of the
three other nodes and of the two-hop neighbors are symmetries: neither calculation, nor any
property of this run, distinguishes them (neighbors of the MPR part are ordered and are not
permuted). `AlwaysIsMpr` is what a comment of `lq_mpr.c` says and does not hold.

### topology
Two other nodes, one of them in our reach and one that restarts, one change of what each
announces besides the restart, one edge per message, so that announcements are fragmented;
ANSNs start before the wrap-around. `NoDanglingEdge`, `EdgesHaveReason`, `RealEdgesExpire`,
`EdgesAsAnnounced` (all fragments there and no garbage collection pending: the edges are what
was announced, whichever fragments of the earlier announcement, of any set, arrived in
between; the two exceptions are in section 6), `ChangesSignalled`.

### routes, routes_refused
Two nodes announce and withdraw a network; their next hops, costs and hop counts change; the
backoff timer runs or not, a plugin forces calculations, and the daemon stops. The network is
the default route in some behaviors and an ordinary one in others, where the kernel also
refuses a call. There are three ways to reach a node. The first costs 2147999, where the discount
(750 thousandths) divides first; its discounted cost is 1610250, what the other two cost, one in
one hop and one in two. So ordinary elections turn on the cost, on the hop count and on the
address; gateways are kept although a cheaper one is there, and left at the border.
`BestRoutes`: when no change is flagged or was dropped, the paths are those of the nodes in
reach and the best one is the best (for the default route, up to the discount and its rounding);
`FibFollows`; `LocksExact`; `GatewaySticks`: a gateway still on offer is left only for one that
costs no more than its discounted cost; `RoutesCatchUp`: changes dropped under the backoff are
made up for if more changes come.
`routes_refused` takes an ordinary network, with up to two refusals, and checks `FibAgrees`, the
comment of `routing_table.h`; see section 6.

### flooding
Networks with cycles: a diamond with two messages, which overtake each other, for each choice
of MPRs, and a network of six nodes in which relays rely on different nodes, before and after
its nodes know the originator. The numbers wrap between the messages. `Flooded` (when nothing
is on the air every node has processed each message), `AtMostTwice` (the message that creates
an entry passes twice, nothing else does).

### Deadlock
Checked everywhere except in `routes` (the daemon stops) and `flooding` (the flood ends), and
in `routes_refused` with `routes`.

## 4. Fairness

* `OlsrTimer`: weak fairness of `WalkStep`. Nothing interrupts the loop of `olsr_timer_walk()`,
  and callbacks return. `WalkEnds` then rests on `calc_jitter()` never making a timer due at
  once.
* `OutBuffer`: weak fairness of `generate_hello` (its timer is periodic and runs as long as the
  interface exists) and of `olsr_expire_buffer_timer` (the wheel calls back every timer that
  is set: `WalkComplete`).

* `Routes`: weak fairness of the processing of changes (the main loop calls
  `olsr_process_changes()` in every round; it alone clears the flags, and the fairness is stated
  for clearing them) and of `olsr_expire_spf_backoff` (a timer of the wheel). Forced calculations
  are not fair.

No other property is a liveness property.

## 5. What is proved

`DuplicateSetProof`, for every size of the number space and of the window with
`2 * WindowBits <= HalfSpace` (2^15 and 32 in the code), every reset threshold and every set of
keys:

* `TypeCorrect`: `Spec => []TypeOK`;
* `BitmapIsExact`: `Spec => []BitmapExact`;
* `NoMessageTwice`: `Spec => NoReplay`;
* `NewestMovesForward`: `Spec => NewestNeverBack`.

Assumptions: `WindowAssumption` and `MarkerAssumption` (the markers for "no entry" and "no number"
are not entries or numbers). The inductive invariant `IInv` is `TypeOK`, `HistoryInWindow` and
`BitmapExact`. `BitmapExact` alone is not inductive: a bit that is shifted out must belong to a
number that also leaves the history, which needs that the history never holds a number outside
of the window (`HistoryInWindow`). The argument is arithmetic on the circle: the lemmas
`DiffInjective` (a bit stands for one number), `DiffShift` (a shift of the bitmap moves every
covered number by as much) and `DiffJump` (after a jump of a window or more no old number is
covered) carry over the three answers of the filter (`TooOldKeeps`, `InWindowKeeps`,
`NewestKeeps`), which carry over a call (`NextMessageStep`) and a step (`StepKeepsIInv`). The
bound on the window is used in `DiffShift` and `DiffJump`.

Everything else is checked by TLC on the instances above only: all other modules, the
liveness properties (out of the prover's reach) and what recursive functions compute. The
type invariants of the other modules are stated for the proofs to come; no run lists them.

## 6. Where code and comments disagree

Three runs show a property that a comment of the source states and the code does not have.

* `symmetric_without_link` (`link_set.c:304`). `olsr_expire_link_sym_timer()` updates the neighbor
  only if the last HELLO called the link symmetric. A HELLO that does not list us, followed by the
  end of the timer, leaves a symmetric neighbor without a symmetric link until the link itself
  expires. `lq_mpr.c:146` says "this should not happen".
* `mpr_always` (`lq_mpr.c:119`). The test of the first pass is the reverse of its comment: every
  symmetric neighbor that is *not* `WILL_ALWAYS` becomes an MPR. `Covered` and `BestPathCovered`
  hold nevertheless, in part because so many neighbors are MPRs; their mutants show that for
  `WILL_ALWAYS` neighbors they rest on the second pass.
* `routes_refused` (`process_routes.c:222`). A changed route is deleted and added. When the addition
  fails and the old next hop becomes the best again, nothing is added, as the entry still names
  that hop.

Other deviations met while modelling. They are part of the models; where one limits a
property, the comment of the property says so.

* The message that creates an entry of the duplicate set passes a second time, as its bit is not
  set (`duplicate_set.c:89`). `NoReplay` and `AtMostTwice` carry the exception.
* `olsr_timer_walk()` compares with the clock in plain arithmetic (`olsr_timer.c:385`): the walk at
  the overflow of the clock visits no slot. `WalkComplete` carries the exception, `LateByOneTurn`
  bounds it.
* `olsr_clock_getRelative()` is off by one millisecond over the overflow (`olsr_clock.c:135`, not
  modelled).
* A TC, MID or HNA message that finds room is queued without starting the hold timer
  (`tc_set.c:1083`): it waits for the next HELLO. `BufferDrains` rests on that HELLO.
* In mode "ether" a message is kept from the incoming interface only if that interface has
  something pending (`parser.c:493`).
* The cost of a new edge is calculated before its link quality is read (`tc_set.c:604`): it is
  broken until the next TC.
* The comment `tc_set.c:409` says that no inverse edge is created for a TC that points to us; the
  code creates one. A neighbor that finds such an edge takes it over as a virtual one
  (`neighbor_table.c:131`).
* When a node restarts with lower ANSNs, edges with higher ones are not revoked before the
  numbers pass them or the entry expires. `EdgesAsAnnounced` carries the exception.
* A TC with an old ANSN is discarded, but not if the entry is virtual (`tc_set.c:801`), and a TC
  without neighbors leaves the entry virtual. So an older TC that arrives after it is taken, and
  its edges stay until they expire or the next TC comes, although the comment `tc_set.c:800` says
  "we are looking for ANSNs equal or higher". `EdgesAsAnnounced` carries the exception.
* The lower border flag of a fragment is computed from the first neighbor of the table in its
  range, while the receiver applies it to the first advertised one (`tc_set.c:1009`): between the
  two there may be a gap, in which no fragment revokes an edge that was withdrawn.
* A usable edge of ours to a node that is no symmetric neighbor passes on no next hop
  (`olsr_spf.c:227`). `NextHopOnPath` is stated for databases without such edges.
* Changes found while the backoff timer runs are cleared without a calculation (`olsr_spf.c:304`,
  `olsr.c:144`); the routes wait for the next change. `BestRoutes` and `FibFollows`
  carry the exception (`missed`); `RoutesCatchUp` says that the wait ends with the next change.
* After a failed addition the next deletion releases a lock of the interface that is not held any
  more, and after a failed deletion an addition leaves the old one locked (`process_routes.c:154`).
  `LocksExact` is stated without kernel errors.
* When the best path is deleted the election starts from it, so `rt_best` may name it until the
  next calculation (`routing_table.c:279`). `BestRoutes` is stated for no flagged
  change: every deletion flags one. The discount of a large cost loses up to 999 by dividing first
  (`routing_table.c:332`); `BestRoutes` allows for it.
* A copy of a message that came a long way round can use up the message for one with more ttl
  left (`parser.c:479`). `Flooded` asks for enough ttl for any way.

## 7. What is not modelled

* MID set: aliases, and neighbors that change their main address. `TopologySet` only has the
  deletion of a node that turns out to be an alias. An alias that a second node announces stays
  with the first one and is refreshed (`mid_set.c:298`).
* Main loop, signals, start and restart; socket scheduler (`olsr_socket.c`).
* Interfaces: creation, lost addresses and change callbacks.
* Memory cookies (`olsr_memcookie.c`), callbacks (`olsr_callbacks.c`), lists and AVL trees
  (`common/`): data structures that the models replace by sets and functions.
* Link quality plugins: how a link is measured. Costs are inputs of the models.
* HELLO wire format, several messages in a packet, registered parse functions of plugins, and in
  `LinkNeighbor` all willingness values but `WILL_NEVER` and `WILL_DEFAULT`. Kernel refusals of the
  default route are left out of the instance of `Routes`, not of the module.
* Static helpers (addresses, strings, hashing, access lists), configuration, logging, control port,
  plugin loader, OS layers: stateless, text or system calls.
* Plugins: bmf, mdns, obamp (traffic of users), dyn_gw, dyn_gw_plain, cl_roam, quagga (outside
  information), nameservice, secure, txtinfo, httpinfo, debuginfo, dot_draw, arprefresh,
  arproaming, watchdog, mini; the GUIs under `gui/`, `contrib/` and scripts.

## 8. Plan

Done: the modules of section 2 and the proofs of section 5.

Next modules, in this order; each with its constants under a named assumption, one action per
operation, and no `RECURSIVE` operator:

1. `MidSet`, with `LinkNeighbor` and `TopologySet` extended by the change of a main address.
   Properties: an alias belongs to one node, both trees agree, no node is its own alias.
2. `MainLoop`: sockets with deferred removal, signals, start and shutdown. Properties: no handler
   runs for a socket that was removed; a signal is not forgotten; the daemon stops.
3. `Interfaces`: reference counts over links, paths, routes and buffers, composed with the lock
   calls of `Routes`.
4. `MemCookie` and `Callbacks`: free lists, extensions added while blocks are in use, nested events.
5. `AvlTree`, `LinkedList`: the trees and `list_merge()` against sets and sequences, by refinement.
6. The link quality plugins: windows and hysteresis, ranges of costs.

Abstract specifications and refinements: the duplicate set as a set of numbers that were seen,
implemented by `DuplicateSet`; the timer wheel as a set of deadlines, implemented by `OlsrTimer`;
the announced graph, implemented by `TopologySet`.

Proofs: the invariants of `OlsrClock` (`IsPastExact`, `ClockAdvances`), `TypeOK`, `NoDanglingEdge`
and `EdgesHaveReason` of `TopologySet`, `CountsExact` and `TwoHopExact` of `LinkNeighbor`,
`BufferExact` of `OutBuffer`, `Settled` of `Spf`, `AtMostTwice` of `Flooding`.
