# Verification of the distributed cache (SD-03)

TLA+ models of the cache in `src/`, TLC runs over small instances of them, and
proofs, checked by TLAPS, about them for every instance.

- [1. The system](#1-the-system): its parts, their state, how they interact, what is hard
- [2. Modules](#2-modules): which module models what, and how it corresponds to the code
- [3. Runs](#3-runs): what is asked of the models, the bounds, and what the answers show
- [4. Fairness](#4-fairness)
- [5. Proofs](#5-proofs)
- [6. Where the code and its documents disagree](#6-where-the-code-and-its-documents-disagree)
- [7. Not modelled](#7-not-modelled)
- [8. What could be added](#8-what-could-be-added)

`PROJECT.json` lists, for each definition, the lines of code it stands for; for
each run its properties; and for each property of a passing run one *faulty
variant* of a definition (an operator such as `EvictNewest` beside
`EvictOldest`) under which TLC finds the property violated. A faulty variant is
never part of a specification.

## 1. The system

A Go program: an LRU cache per node, several nodes behind a consistent-hash ring,
a TCP server that routes commands to nodes by key, a binary protocol, a
master/slave replication controller, and an interactive client that starts a
cluster in its own process and drives it.

| component | code | state | operations |
|---|---|---|---|
| LRU cache | `pkg/cache/cache.go` | a doubly linked list, an index map, a capacity, one mutex | Get, Set, Delete, Clear, Size, IsFull, ExportAll |
| cache node | `pkg/node/node.go` | status, masterID, the cache, an RWMutex | Get, Set, Delete, SetStatus, SetMasterID, Start, Stop, GetInfo |
| hash ring | `pkg/shard/shard.go` | members, map from hash to node, sorted array of hashes, an RWMutex | AddNode, RemoveNode, Rebuild, GetNode |
| replication controller | `pkg/replication/replication.go` | masterID, slaveIDs, syncedCount, a mutex | SetMasterSlave, SyncToSlave, SyncDeleteToSlave, InitSync, RequestFullSync, ApplyFullSync |
| protocol | `pkg/protocol/protocol.go` | none | encoders and decoders of requests and responses, ValidateFrame |
| TCP server | `pkg/server/server.go` | running, stopChan, listener, a WaitGroup, a mutex; per connection a goroutine | Start, Stop, accept loop, connection handler, command handlers |
| server program | `cmd/cache-server/main.go` | the nodes, the ring, the server | start all, wait for a signal, stop all |
| client | `cmd/test-client/*.go` | a cluster of its own, a table of TCP connections with an active one; during stress a goroutine per connection, a counter, a channel of errors | start and Cleanup of the cluster, connect, use, disconnect, get, set, del, info, batches, sync, sync-set, sync-del, full-sync, raw, stress, lru-evict |

**Interactions.** A connection handler reads a frame, validates it, asks the ring
for the key's node (under the ring's lock), then calls the node (under the node's
lock), which tests its status and calls its cache (under the cache's lock). The
controller is not called by the server: the client's `sync-*` commands and the
tests write to the master themselves and then ask the controller to write to the
slaves. The controller looks at its fields under its mutex, releases it, writes to
the slaves, and takes it again to count. `main` stops the server, waits for its
handlers, and only then stops the nodes; the client's Cleanup closes its connections before
it does the same. Nothing is persisted, nothing is
retransmitted, and no thread runs in the background but the accept loop and the
handlers.

**What is hard**, and what each component must get right:

- *LRU cache.* The list and the index are changed by separate statements and must
  describe the same entries; the victim of an eviction depends on the whole history
  of uses; the capacity is tested before the insertion.
- *Ring.* The sorted array and the map are two representations of one thing and are
  rebuilt after every change; the binary search must wrap around; a departure must
  leave no hash behind; a change must move only the keys it has to; two virtual nodes
  may have one hash.
- *Replication.* Two callers interleave between the write on the master and the write
  on the slave; a configuration change may fall between any two steps of a call;
  master and slave evict independently; a full sync applies an old snapshot; nodes stop
  and start between the writes of one call; every early return must release the mutex.
- *Server.* Start tests and sets `running` in two critical sections; accept loops and
  handlers end at different points; the WaitGroup decides whether Stop waits for a
  handler that has just been accepted, and whether it ever returns.
- *Stream.* TCP keeps bytes and not writes: a length that counts one byte too few puts
  every later response of a connection out of step. Requests are parsed in two
  places of the code, and so are responses.
- *Client.* Connections outlive the visits to free mode in which they are made, and a server
  elsewhere may be among them; Server.Stop waits for the handlers of all that are open, so
  that Cleanup must know and close every one. The goroutines of stress share a counter
  without synchronisation and a channel that main reads only when they have ended.

The full list, with the line where each hazard bites and the properties that cover
it, is under `hazards` in `PROJECT.json`.

## 2. Modules

| module | models | extends |
|---|---|---|
| `LRUList` | the data structure of `cache.go` as pure operators on a record `[list, cache]` | |
| `LRUCache` | one cache: a step per method | `LRUList` |
| `RecencyStore` | the abstract cache: a partial map and the order of last use, no list, no index | |
| `LRUHistory` | `LRUCache` with what a caller can remember | `LRUCache` |
| `LRUListProofs` | lemmas about the operators of `LRUList`, for the caches of all modules | `LRUList` |
| `LRUCacheProofs` | theorems about `LRUCache` and `LRUHistory` | `LRUHistory`, `LRUListProofs` |
| `HashRing`, `MCHashRing` | the ring; its small instance | |
| `HashRingProofs` | theorems about the ring | `HashRing` |
| `CacheNode` | the nodes of a cluster: status, role, cache | `LRUList` |
| `Replication`, `MCReplication` | the controller, its callers, TCP clients, nodes that stop and start | `CacheNode` |
| `ReplicationProofs` | theorems about types, lock, caches and roles, and about the data of master and slave | `Replication`, `LRUListProofs` |
| `CacheService` | the abstract service: one store, requests that take effect in one step | |
| `ShardedCluster`, `MCShardedCluster` | the command handlers over the ring and the nodes, while both change | `CacheNode`, an instance of `HashRing` |
| `ShardedClusterProofs` | theorems about the handlers | `ShardedCluster`, `LRUListProofs`, an instance of `HashRingProofs` |
| `ConnectionService` | the abstract server, as a client sees it | |
| `TCPServer`, `MCTCPServer` | the server's life cycle, its connections and clients | an instance of `ConnectionService`, which it implements |
| `TCPServerProofs` | theorems about the server | `TCPServer` |
| `Protocol` | the frame codec and validation as pure operators on byte sequences | |
| `FrameStream`, `MCFrameStream` | one connection, byte by byte | `Protocol` |
| `FrameStreamProofs` | theorems about the codec and the connection | `FrameStream` |
| `TestClient`, `MCTestClient` | the interactive client: cluster, connection table, stress, Cleanup | an instance of `ConnectionService`, which it builds on |
| `TestClientProofs` | theorems about the client | `TestClient` |

**LRUList, LRUCache.** A cache is `[list, cache]`: `list` the keys from the most to
the least recently used (the code's `*list.List`), `cache` the index (the code's
`map[string]*list.Element`), with the value stored in the index rather than in the
element, since each is reached only through the other. List and index are separate
fields changed by separate operators, as they are changed by separate statements:
`EvictOldest` removes an element and an index entry and nothing but the order of the code
keeps them in step. Every method holds `c.mu` throughout, so each is one action.
`AfterGet`, `AfterSet`, `AfterDelete` are the pure results of the methods, and
`CacheNode` uses the same ones. `NewLRUCache` rejects a capacity below 1: that is
`CapacityAssumption`.

**RecencyStore** says what the list is for: a write of a new key into a full store drops
the one stored key that was used after no other. `LRUCache` implements it under
`store <- lru.cache`, `usedAfter <- UsedAfter(lru)`.

**LRUHistory** adds the variable `usedSince` (for each key stored and not removed, the
other keys used since), which lets the promise of an LRU cache be stated from
outside: a key is cached until `Capacity` other keys have been used after it.

**HashRing.** The hash functions are constants: nothing but their range matters, and
the instance chooses them. `RebuildSortedHashes` is part of every action that
changes the map. `AddNode` overwrites the owner of a hash that is taken and
`RemoveNode` deletes its hashes whoever owns them, as the code does; `Rebuild`
chooses any visiting order of the Go map. Where two nodes share a hash (`Shared`), a
member can therefore lose a virtual node; the properties say exactly that much less.

**CacheNode, Replication.** A caller is a goroutine; `task[c]` holds where it is in its
call and what it still has to write. A step is one stretch under one lock.
`SetMasterSlave` holds `rc.mu` over four steps (master's status, slave's status,
slave's master, the controller's fields), each of which others may observe on the nodes.
A write is: read the master's name; write to that node; copy the slave list under
`rc.mu`; one step per slave and entry; count under `rc.mu`. A full sync is: look the
master up under `rc.mu`; export what it holds by then, under the node's lock; copy the slave list, and so
on as a write. Each step has the error
return the code has (a stopped node, no slaves, no master). `Calls` selects the kinds
of calls of an instance, `DeletedKeys` the keys its callers delete, `StoppingNodes` the nodes
that are stopped and started; `MaxSynced` bounds the counter.

**CacheService, ShardedCluster.** A handler's command is four steps: a valid frame is there,
`ring.GetNode` and the look at `s.nodes`, the operation on the node, the response. The
ring's lock is released after the second, so the node may no longer own the key when the
third comes. `CacheService` has no nodes: there is one store, each key has an owner, and
a request takes effect on the store in one step between its arrival and its answer, or is
refused without effect. A write of a new key may drop one key of the same owner. When
owners change, the keys that stay keep their value or absence, those that move may be lost
or found, and a request for one of these may be *disturbed*: answered without an effect
on its key. The mapping reads the store off the owners' caches and calls a request
disturbed while the node it was routed to does not own its key. In this repository nodes
join before the server starts and nobody removes one from a ring in use; but the ring
is shared, its methods are public and take its lock so that they may be called at any
time, and the model does so.

**TCPServer.** `Start` is four steps (test, listen, publish, spawn), `Stop` three (close,
wait, return). The accept loop reads `s.listener` without the lock in a step of its
own. A panic (a second close of `stopChan`, a WaitGroup reused too early) sets
`crashed`, after which no step is possible. A request is a bare header, or a header
and a body that may come later or never; a handler looks at `stopChan` between requests only.
What a command does to a node is `CacheNode`'s; here the nodes are up or down.

**ConnectionService** is what remains when listeners, locks, loops and the WaitGroup are
taken away: a server that is up can be dialled, it accepts, it answers requests it has been
sent, it ends a connection whose client has closed or once Stop was called, and Stop returns
when it serves none. `TCPServer` implements it under `Outside` (up: a listener is bound; a
panic counts as a Stop that never returns).

**TestClient** has the same server as a part of its state and takes its steps from the
`ConnectionService` instance, so that what was checked of `TCPServer` need not be modelled
again. `main` is one goroutine: `main.at` says where it is, between two commands or inside one
that waits (for a response, for stress, for Stop). The table is a function from
numbers to peers, the cluster or a server *elsewhere* (connect with an address), of
which nothing is known. Each goroutine of stress is a process with a connection of its own;
`successCount++` is its load and its store. Either read of a response may fail (`NetErrors`):
the error of the header's ends the goroutine and is sent to the channel, the error of the
body's is dropped, the operation goes on as a success, and the connection is `broken` from
then on. The nodes are one value: all run, the first is
down (`lru-evict` stops it and never starts it; `sync` makes it serve again, since
SetStatus asks nothing), or all have been stopped. What a command does to them is
`Replication`'s and `ShardedCluster`'s business.

**Protocol, FrameStream.** A byte is a number below `Base` and a length has `LenBytes`
digits (256 and 4 in the code), so that lengths wrap around at a small bound.
`EncodeRequest`, `DecodeRequest`, `EncodeResponse`, `DecodeResponse` and
`ValidateFrame` are translated test by test; a decoder that indexes past its data
yields `Overrun`. `FrameStream` has the *other* two parsers of the code, the one in
`handleConnection` and the one in `sendTCPRequest`, as actions over two byte queues,
together with the raw command, which writes anything and reads once. `Power` and `Uint32` are
recursive functions rather than folds, so that they can be proved about.

## 3. Runs

| run | instance | shows |
|---|---|---|
| `lru` | 4 keys and the empty one, 2 values, capacity 3 | the type; list and index agree; capacity; an eviction hits the oldest entry of a full cache only; recently used keys are kept; refinement of `RecencyStore` |
| `hash_ring` | 6 nodes with 2 virtual nodes on 20 hashes, 3 of them colliding with each other | map and array agree; owners are members; routing is clockwise for every hash; the ring depends on its members only; only needed keys move |
| `replication_callers` | 2 nodes, 2 callers, a key of the first one's own and one they share, full syncs, nodes stop and start | whenever no call is in progress: on the caller's own key, which it also deletes, the slave mirrors the master; the shared key is on both or on neither (values may differ: section 6) |
| `replication_evicting` | 2 nodes with room for 2 of 3 keys, 1 caller, all calls | the LRU lists of master and slave stay equal; a full sync delivers every entry even while it evicts |
| `replication_roles` | 3 nodes, one of which stops and starts, 2 callers, roles that switch among 3 pairs | whenever `rc.mu` is free a slave names the controller's master, and the nodes have the roles the controller gives them, unless they have been stopped; every call returns |
| `sharded_cluster` | 2 nodes of one entry each and one more that the server does not know, 2 connections, 2 keys, one node stops and starts | handlers use nodes of the server only; refinement of `CacheService` |
| `server` | 2 connections, `main` and a second starter, accept errors | the WaitGroup counts what is alive; no listener leaks; no command meets a stopped node; every request is answered; Stop returns once the clients have left, unless the starter has made the server run again; refinement of `ConnectionService` |
| `frame_stream` | bytes below 8, lengths of 2 digits, keys up to 1 byte, values up to 2, 3 commands | of frames within the limits the handler loses and invents no byte; the two request parsers agree, and so do the two response parsers, on whole responses and on incomplete ones but for the last byte; a command gets its own response, and gets one |
| `test_client` | 2 connections, batches of 2, a stress of 2 goroutines with 2 operations each, dials and reads that fail | table and open connections agree; stress ends and reports every goroutine that gave up, and no more operations than it takes for successful; Cleanup ends and leaves nothing |
| `concurrent_writes_diverge`, `full_sync_not_a_copy`, `server_idle_client` | | counterexamples, section 6 |

**Why the bounds are enough.** *LRU:* four keys are one more than the capacity, so
that an eviction has a choice of three victims; hits, misses, overwrites of the first,
middle and last entry, deletions of each and re-insertions all occur. The state space is
finite and explored whole. *Ring:* two virtual nodes per node alternate with others';
the key hashes are all 20, those on a virtual node and past the last one included; any
subset of six nodes can be reached in any order. *Replication:* an interleaving hazard
takes two callers; `MaxSynced` stops new calls after two counted ones with two callers (a
write, and writes or a full sync that race it: calls that have begun go on, and failed
ones do not count) and after three with one, and the role changes reset the counter,
so that histories across them are not bounded. The values are interchangeable, hence the
symmetry. *Sharded cluster:* with room for one entry every write of a second key evicts; a
third node joins between the two keys, so that some keys move and some stay, and the
server does not know it. Connections are interchangeable. One node that stops and starts
is enough for every error path; a second one that does multiplies the states only.
*Server:* one client that pipelines two
requests and one that connects and says nothing; two goroutines that start the
server, one of which stops it. `MaxListeners` bounds how
often Listen succeeds; four are more than any script of the run can open.
*Stream:* with `Base = 8` and two digits a length is below 64, so the raw frame with
two parts of 30 bytes wraps `FrameSize` around, as two parts of about 2^31 bytes do
in the code; three commands are enough for a request, whose response the previous raw command
left behind, and one after it. Every limit of the code (empty key, longest key and value, one
more) occurs. *Client:* two connections make every case of disconnect (the active one with
another left, the active one alone, another one), of a table that spans two visits to free mode, and of a
mixture with a server elsewhere; connections past the bound are dials that
fail. Two goroutines lose increments of each other, both orders of an error and a success
occur, and both may fail at once, which fills the channel; with two operations a response that loses
its body may be the last one or may come before another, whose read then fails. Stress may be
given again and again, with the first node down too.

**What conditions the properties carry, and why.** `MirrorWhenQuiet` and
`SameListWhenQuiet` are for histories in which no writing call has failed and no full sync
was applied (`spoilt = "no"`): a call that fails half-way leaves master and slave apart, and
nothing in the code promises otherwise. What they rule out is a failure that nobody was told of.
`SameKeysWhenQuiet` allows full syncs, needs room
for all keys, and says nothing of keys that are deleted; it compares keys only, so that it sees
neither a value that an old snapshot overwrites nor a delete that it undoes.
`AnswersAreOwn` and `CommandsReturn` are for connections on which no
raw command was made: after one the streams may be out of step. `NoByteLostOrInvented` is for
streams whose frames are within the limits: the code reads the others as it reads these, but the
documents demand that it should not (section 6). `RolesAgree` lets a node
that may be stopped be plain Running or Stopped, since one that starts again forgets its
role; it may never have a role that contradicts the controller's.
`EveryRequestAnswered` speaks of connections that have a handler: after an Accept error nobody
serves those that come later. `StopReturnsOnceClientsLeave` gives Stop leave to wait where an
overlapping Start has made the server run again (section 6); with one goroutine that starts and stops, as
in `main` and in the client, that never happens. `StressReport` bounds the counter from
above by the operations that stress takes for successful (`Taken`: those answered with SUCCESS, and
one for each goroutine that lost the body of a response), and from below only by "some, if there were
any": increments do get lost. An operation refused by a node that `lru-evict` has stopped is
no error in the report, so the last part of it is for clusters whose nodes all run.

## 4. Fairness

- *Replication:* strong fairness per caller on the steps of a call that has begun.
  Callers compete for `rc.mu`; Go's mutex hands itself to a waiter that has waited for
  a millisecond, so a goroutine that is able to go on again and again does so. Nothing
  makes a caller begin a call.
- *TCPServer:* weak fairness per goroutine: a call of Start or Stop that has begun, an
  accept loop, a handler. These are blocked by conditions (a connection waits, bytes
  are there, the counter is zero) that nobody takes back, so weak fairness is what the
  scheduler gives. An accept loop is fair in reading its listener, in accepting a connection that
  waits and in leaving when its listener is closed (`AcceptingDutifully`); that Accept fails on
  an open listener is possible and never owed. Clients are not fair: they need not send, finish a request, or close.
- *FrameStream:* weak fairness of the handler and of the client that waits for a
  response. `Write` and `ReadFull` on an open connection.
- *TestClient:* one weak fairness condition: as long as main inside a command (unless it
  waits for a server elsewhere, where no deadline is set), a goroutine of stress or the
  server's end of a connection can go on, one of them does. It names no goroutine, so it
  asks for less than the scheduler gives, and is enough since each of them has finitely many
  steps to make before stress or Cleanup is over. Of the server's end, only what `TCPServer`
  is shown to do is assumed (`ServesDutifully`): requests are answered
  (`EveryRequestAnswered`) and a handler ends after its client has closed
  (`StopReturnsOnceClientsLeave`). A handler whose client stays connected may never end,
  although Stop was called: hence a Cleanup that lost a connection would hang, as the faulty
  variant of `CleanupReturns` does. Connections are assumed to be accepted: an Accept error,
  after which the server of `TCPServer` accepts no more, is not part of `TestClient`.
  `StopReturnsOnceClientsLeave` is used where its condition holds: one goroutine starts and
  stops the client's server. Nobody types and no read fails by fairness, but for a read of a
  connection that has broken (`StressesDutifully`). The refinement of `ConnectionService`
  itself is about safety only.

Where a liveness property is stated, its fairness is part of the specification the
run names (`FairSpec`).

## 5. Proofs

Every safety property of every component is a theorem, for every value of the
constants that the named assumptions of the modules admit. But for the last three, which are
about the codec alone, each theorem is `Spec => []Property` or `Spec => Property`; beside those assumptions it has the
hypotheses listed here and no others.

| module | theorem | property | hypotheses |
|---|---|---|---|
| `LRUCacheProofs` | `TypeCorrect`, `ListAndIndexAlwaysAgree`, `AlwaysWithinCapacity` | `TypeOK`, `ListAndIndexAgree`, `WithinCapacity` | |
| | `AlwaysEvictsOnlyOldest` | `EvictsOnlyOldestWhenFull` | |
| | `CacheImplementsRecencyStore` | refinement of `RecencyStore` | |
| | `RecentKeysAlwaysKept` | `RecentKeysAreKept` | |
| `HashRingProofs` | `TypeCorrect`, `SortedHashesAlwaysAgree`, `OwnersAreAlwaysMembers`, `RingAlwaysDependsOnMembersOnly`, `AlwaysRoutesClockwise` | `TypeOK`, `SortedHashesAgree`, `OwnersAreMembers`, `RingDependsOnMembersOnly`, `RoutesClockwise` | |
| | `OnlyNeededKeysEverMove` | `OnlyNeededKeysMove` | |
| `ReplicationProofs` | `TypeCorrect` | `TypeOK` | |
| | `RolesAlwaysAgree` | `RolesAgree` | InitSync is not called |
| | `SlaveListAlwaysTheMasters` | `SameListWhenQuiet` | one caller, one pair, caches of one size; no `sync-del`, no TCP clients on single nodes |
| | `SlaveAlwaysMirrors` | `MirrorWhenQuiet` | one pair with room for every key, finitely many callers; no `sync-del`, no clients' writes |
| | `SlaveAlwaysHasTheKeys` | `SameKeysWhenQuiet` | one pair with room for every key; no clients' writes |
| | `FullSyncAlwaysDelivers` | `FullSyncDelivers` | one caller, slaves no smaller than any node; no clients |
| `ShardedClusterProofs` | `TypeCorrect` | `TypeOK` | |
| | `HandlersImplementCacheService` | refinement of `CacheService` | |
| `TCPServerProofs` | `TypeCorrect`, `NoListenerEverLeaks` | `TypeOK`, `NoListenerLeaks` | |
| | `NoCommandEverMeetsStoppedNode` | `NoCommandMeetsStoppedNode` | one goroutine starts, stops and stops the nodes; all others only start |
| | `ServerImplementsConnectionService` | refinement of `ConnectionService` | a fixed port |
| `TestClientProofs` | `TypeCorrect`, `TableAlwaysMatchesConnections`, `CleanupAlwaysLeavesNothing`, `StressAlwaysReportsRightly` | `TypeOK`, `TableMatchesConnections`, `CleanupLeavesNothing`, `StressReport` | |
| `FrameStreamProofs` | `StreamTypesCorrect`, `StreamKeepsItsBytes` | `TypeOK`, `NoByteLostOrInvented` | |
| | `RequestParsersAlwaysAgree`, `ResponseParsersAlwaysAgree` | `ParsersAgree`, `ResponseParsersAgree` | |
| | `AnswersAlwaysOwn` | `AnswersAreOwn` | |
| | `RequestRoundTrip`, `ResponseRoundTrip` | decoding what was encoded | a key and a value within the limits |
| | `SentRequestsAreValid` | what `ValidateFrame` says of the client's requests | the size of the largest frame fits into a length |

`LRUListProofs` has the lemmas on the operators of `LRUList` that four of the others rest on.

**Where the hypotheses come from.** They are those of the run that checks the property,
without its bounds. *InitSync* sets the controller's master and no node's status, so that
`RolesAgree` does not hold with it. *sync-del* deletes on the slave only, and a *TCP client*
of a single node writes past the controller: after either, master and slave differ and
nobody promises otherwise. *Room* is needed where the order of use differs between the two
nodes, which interleaved callers and full syncs cause: master and slave would
evict different keys. *One caller* is needed where the same order is the point
(`SameListWhenQuiet`) or where somebody else's writes may evict what was delivered
(`FullSyncDelivers`). The script of `NoCommandMeetsStoppedNode` is that of `main`
(`main.go:121-147`) and of the client's Cleanup: a second Stop returns at once without
waiting, so whoever calls it and then stops the nodes may stop them under a
handler. On *port 0* every Listen succeeds, and Stop closes only the last listener:
the server may stay dialable after Stop, which `ConnectionService` forbids. The largest
frame has 9 bytes and twice 1 MB (`protocol.go:110-121`), and its size is a `uint32`; with
limits near 2^32 the size would wrap around and `ValidateFrame` call a long frame too short.

**The LRU cache.** `IInv`: the cache is `WellFormed` (type, no duplicates, index and
list hold the same keys) and its *list* is no longer than the capacity. None of the three
invariants is inductive alone: removing "the" element of a key from the list keeps the
index in step only if the key has no second element; evicting the last element removes the
right index entry only if the index matches the list; and the limit on the *index* follows
from the one on the list, because the list enumerates the index without repetition
(`CachedCardinality`). The refinement of `RecencyStore` needs, for each operator of `LRUList`,
what it does to the order of use (`UsedAfter`); retention needs `HInv`: what is remembered and no
longer cached was evicted when `Capacity` other cached keys, hence as many
others, had been used after it, and sets of used keys only grow.

**The ring.** `IInv`: `MembersOK` (types, owners are members, uncontested hashes depend on
members only) and `sortedHashes = SortedSeq(DOMAIN hashToNode)`. The lemmas are about
`SortedSeq`: in a finite set of naturals the number of smaller elements is a bijection onto
`0 .. n - 1` (`Ranks`), so that the sequence is increasing and enumerates the set. From
this, and arithmetic modulo `HashSpace`, the search finds the nearest hash clockwise
(`HashAtIsNearest`). `OnlyNeededKeysMove` compares the nearest hash in two sets of which one
contains the other where no hashes are contested.

**Replication.** `IInv`: well-formed caches within their capacities, the controller's fields, the
shape of every task at each of its points, and that the holder of `rc.mu` is exactly the
caller inside SetMasterSlave. Roles: `Configuring` says which roles a configuration has set at
each point; nobody else can undo them while it holds the lock, but a node that stops or
starts, which `HasRole` allows for. Data: `PairInv` says where the writes of every
call go and what they carry. On top of it,
`ListInv`: the master's cache is the slave's, or, while a write is on its way, the slave's after that write;
`KeyInv`: the same of one key of one caller, when nothing is evicted, whatever the
other callers do; `LiveInv`: a key that any node has, or that is on its way, is on the master, and the slave
has it or is owed it; `SyncInv`: the entries of a full sync that were written are on
the slave and were used after every other key there, so that a slave with room for all
entries evicts none of them.

**The sharded cluster.** `IInv`: the caches, the ring's own invariant (`HashRingProofs` is
instantiated, its lemmas are used and none is proved again), and the points of the handlers. The refinement
proves step by step that the store that clients see changes as `CacheService` says: `Shown`
is that store as a function of owners and caches; when one node's cache changes, only keys
it owns are affected (`ShownElsewhere`); an insertion that evicts drops at most one visible
key, of the same owner (`ShownInsert`). A step of a handler whose node owns the key is the
atomic step of its command; if the node does not, the request is disturbed, and the step
`Misdirected`. A change of the ring moves the keys whose owner changes.

**The server.** `IInv`: types; the WaitGroup counts the loops and handlers alive; a listener is in
one pair of hands, of the Start that made it and then of the server; a waiting
connection's listener is open; what a client is owed is what its handler has not read or is
handling; a Stop that waits has closed `stopChan`; `NoListenerLeaks`. For
`NoCommandMeetsStoppedNode`, `MainOK` adds where `main` is in its script: once Stop has waited and
returned, the counter was zero, so that no handler is at a request, and one that comes
later (of a connection that a Start in the middle of Stop accepts) leaves at its first look
at `stopChan`.

**The client.** `IInv`: types; what main's progress says of the cluster (`PhasesOK`); the table;
while stress does not run its goroutines are as they were; and the counts: the
channel holds one error for each goroutine that gave up; the counter, and what any goroutine is about
to store, leave room for the answers that are yet to be counted
(`SuccessesCounted`), so that lost increments make it too small and never too great; while all
nodes run, the answers, together with the responses that lost their body, are as many as the
operations that are over.

**The codec.** Bytes are digits to any base above 6, lengths have any positive number of them.
What `BigEndian` and `Uint32` do is a statement about every number of digits, so it takes an
induction. The library's induction theorems take an operator, which the provers cannot
instantiate; `Induction` says the same of a *set* of numbers, and follows from the
well-foundedness of `<` by the theorem that a non-empty set then has a minimal element.
`RecursiveFunction` gets from it that the recursive definitions of `Power`, `Uint32` and
`Encoded` define something. Then the first `i` digits of a length are those of the length
divided by a power of the base (`Uint32OfBigEndian`), and any digits are those of the number they
spell (`BigEndianOfUint32`). So a header and its three fields determine each other
(`HeaderHasFields`, `HeaderIsItsFields`), and any stream that is long enough is a header, a key, a
value and a rest that, put together, are the stream (`CutOnWire`): this is all that the
properties of the connection need of the codec.

**The stream.** `Types`: the queues hold bytes, a header has its length, a frame its fields,
and the client waits for the answer to a request within the limits. `BytesKept`, which is
`NoByteLostOrInvented` without its condition, is
inductive given `Types`, since a frame that is cut out of the stream is, encoded again, the bytes
it was cut from (`EncodedAppend`). `FirstFrameDecoded`: later bytes do not change what the decoder
finds (`DecodedForGood`), so that only the step that builds the first frame matters, and at that step the
bytes kept say that the stream begins with it. `FirstReply`: the first response stands at the
beginning of all that was written, so that its prefixes are the stream's; from there
`ResponseParsersAgree` is a statement about the codec (`ResponseDecoded`, `ResponseCutShort`).
`InStep` follows the one request or response there can be while no raw command has been made: on
its way, read up to its header, a frame, an answer on its way, an answer whose header the client
has read; in all of them the other queue is empty, and the answers already given match those
already returned. It says nothing once a raw command was made.

The invariants of the server, the client and the stream, which are the longest, were first
checked by TLC as invariants of their runs.

**Only model-checked.** The liveness properties `EveryCallReturns`, `EveryRequestAnswered`,
`StopReturnsOnceClientsLeave`, `CommandsReturn`, `StressEnds` and `CleanupReturns`: liveness
under fairness, and `ENABLED`, are out of the prover's reach. What the three runs that end in a
counterexample show is, by its nature, shown by TLC only.

## 6. Where the code and its documents disagree

TLC answers three runs with a counterexample.

- `concurrent_writes_diverge`: `design.md:16` says that syncing the master's writes
  guarantees consistency. Two callers that set one key reach the master in one order and the
  slave in the other (`replication.go:161-163` releases the mutex before it writes);
  both calls succeed and the slave keeps another value than the master.
- `full_sync_not_a_copy`: `design.md:744` says that the data after a full sync are
  exactly the master's. `ApplyFullSync` only sets; a key that the master has lost stays on
  the slave.
- `server_idle_client`: `design.md:410` and `main.go` promise a graceful shutdown. A
  handler blocked in `ReadFull` does not look at `stopChan`, and Stop neither closes
  connections nor sets deadlines: one silent client makes Stop, and the process, hang.

Also met, without a run:

- A Start that overlaps with Stop makes Stop hang. The comment of Stop (`server.go:119`) says that it
  closes the listener and waits for the connections, but the WaitGroup counts the accept loops, too. A second
  goroutine that calls Start and has found the server not running (`server.go:95-100`) may, after the
  first has started it and Stop has closed the first listener, listen, publish and spawn before the
  first loop has left: `wg.Wait` (145) then waits for a loop blocked in Accept on an open listener,
  with no client connected. This is why `StopReturnsOnceClientsLeave` has the alternative `running`: without
  it TLC answers the run with this history.
- `specs.md:250-254` and `design.md:829` demand that a frame with a key of 1GB be answered
  `ERROR_INVALID_VALUE` and that the 1GB not be allocated. The handler allocates and reads what
  the header announces (`server.go:228-231`) and validates the frame afterwards; it answers
  `ERROR_INVALID_KEY`, or `ERROR_FRAME_TOO_SHORT` where the size wraps around.
- `design.md:730` says that network errors must be caught and dealt with. `stress` drops the
  error of reading a response's body (`free_mode.go:760`); the buffer's zero then counts as SUCCESS,
  and if it was the goroutine's last operation the report has no error.
- `sync-del` deletes on the slaves only although its comment says that it deletes on the
  master first (`free_mode.go:420` and 431).
- `design.md:737` says that the data of a node that leaves the ring are distributed to the
  others, and `design.md:736` that about 10-20% of them move when a node joins; no code moves
  any. This is why `CacheService` may lose the keys that move.
- `design.md:741` says that a slave that reconnects must request a full sync, and nothing
  does so: a full sync is made when the user or a test asks for it, and a slave that was stopped
  misses what was written meanwhile (its callers get an error).
- `protocol.go:336` says that `DecodeResponse` returns an error when data are missing, but its
  length test leaves out the status byte: a response that lacks exactly its last byte passes
  the test and is read past its end (`ResponseParsersAgree` says for which prefixes it does; the
  decoder's callers in the repository pass whole responses).
- `cmd/test-client/USAGE.md:220` shows `stress` counting 100 of 100 operations, but its counter
  loses increments (`StressReport`).
- `USAGE.md:230` shows `lru-evict` reporting that lru-0 was evicted, but `node.Get` of a
  missing key is no error, so that it prints that lru-0 is still there; the same command says that
  it clears the first node's data (`free_mode.go:679`) and stops it instead.

## 7. Not modelled

- **Failover.** `README.md:191` and `design.md:742` promise that a slave is promoted when the
  master fails. The code has no such operation, so there is nothing to model.
- **lastSyncTime, logs, messages, addresses.** No decision of the program reads them.
- **GetInfo, the counting and listing methods, INFO's text.** They change nothing, and nothing is
  promised of the snapshot they print.
- **Menus, settings, reports, automatic tests of the client.** Terminal input and output. The
  automatic tests use servers of their own.
- **A connection of main's that breaks.** Within one process the server ends a connection
  only after Stop; `RequestFails` is for servers elsewhere.
- **An error of `listener.Close()`** in Stop (`server.go:138-140`), after which Stop returns
  without waiting. The listener that Stop closes is the one Start published, and nobody else
  closes it.
- **Nil arguments** of the codec, which no caller passes.
- **The hash functions themselves.** Their values are arbitrary constants here; that FNV-1a
  spreads keys evenly is a statistical statement.

## 8. What could be added

The modules of section 2 and the theorems of section 5 are complete: every part of the program
that keeps state, but for those of section 7, is modelled, and every safety property that a run checks is proved. Hazards
without a property are listed as such in `PROJECT.json`, each with the reason. Still possible:

1. The counterexamples of section 6 as theorems about the weaker promise that does hold,
   for example what a full sync leaves on a slave that had other entries before.
2. A refinement of a channel of whole messages by `FrameStream`, as a frame for what
   `AnswersAreOwn` says of the two queues.
3. Failover, once the code has it.
