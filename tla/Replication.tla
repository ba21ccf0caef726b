---------------------------- MODULE Replication ----------------------------
(***************************************************************************)
(* pkg/replication/replication.go over the nodes of pkg/node, with the     *)
(* callers of cmd/test-client/free_mode.go and of the tests.               *)
(*                                                                         *)
(* A caller is a goroutine that makes one call at a time.  rc.mu is held   *)
(* to look at or to change rc, for the whole body of SetMasterSlave, and   *)
(* never while a node's data is written.  A step of a caller is one stretch *)
(* under one lock: rc.mu or a node's n.mu.  task[c] is what caller c has   *)
(* left to do: where it is, the writes it will make, and the count it adds *)
(* when it is through.                                                     *)
(*                                                                         *)
(* Beside the callers, TCP clients read and write single nodes (pkg/server *)
(* never calls the controller) and nodes are stopped and started.          *)
(***************************************************************************)
EXTENDS CacheNode

CONSTANTS Caller,
          NoCaller,
          KeysOf,      \* KeysOf[c]: the keys caller c uses
          DeletedKeys, \* the keys that callers delete
          Calls,       \* the kinds of calls that are made
          Pairs,       \* the <<master, slave>> pairs SetMasterSlave is called with
          Route,       \* Route[k]: the node the server sends key k to
          StoppingNodes, \* bound: the nodes that are stopped and started
          MaxSynced    \* bound: no call starts when syncedCount has reached this

Kinds == {"sync-set", "sync-del", "del-both", "full-sync", "sync", "init-sync",
          "start-stop", "client-get", "client-set", "client-del"}

ASSUME ReplicationAssumption ==
  /\ NoCaller \notin Caller
  /\ KeysOf \in [Caller -> SUBSET Key]
  /\ DeletedKeys \subseteq Key
  /\ Calls \subseteq Kinds
  /\ Pairs \subseteq {p \in Node \X Node : p[1] # p[2]}
  /\ Route \in [Key -> Node]
  /\ StoppingNodes \subseteq Node
  /\ MaxSynced \in Nat

VARIABLES rc,      \* the controller's fields: masterID, slaveIDs, syncedCount
          mu,      \* the caller that holds rc.mu across steps, or NoCaller
          task,    \* task[c]: the call caller c is making
          spoilt   \* history: "badly" once a call that writes has failed or InitSync has
                   \* named another master; "mildly" when only a full sync has been
                   \* applied; "no" before

vars == <<status, masterID, lru, rc, mu, task, spoilt>>

-----------------------------------------------------------------------------

Idle == [at |-> "idle"]

\* A task: at a point of the call, with entries still to send, or writes still to make.
Task(at, call, node, entries) ==
  [at |-> at, call |-> call, node |-> node, entries |-> entries, todo |-> <<>>, gain |-> 0]

Goto(c, t) == task' = [task EXCEPT ![c] = t]

\* The call returns nil, or an error.
ReturnOK(c) == Goto(c, Idle) /\ UNCHANGED spoilt
ReturnError(c) == Goto(c, Idle) /\ spoilt' = "badly"

At(c, p) == task[c].at = p

MayCall(c, call) == /\ At(c, "idle")
                    /\ call \in Calls
                    /\ rc.syncedCount < MaxSynced

Unlocked == mu = NoCaller

NoFields == [masterID |-> NoNode, slaveIDs |-> <<>>, syncedCount |-> 0]

\* The cluster as CreateCluster and main leave it: nodes running, no roles yet.
Init == /\ status = [n \in Node |-> "Running"]
        /\ masterID = [n \in Node |-> NoNode]
        /\ lru = [n \in Node |-> EmptyLRU]
        /\ rc = NoFields
        /\ mu = NoCaller
        /\ task = [c \in Caller |-> Idle]
        /\ spoilt = "no"

-----------------------------------------------------------------------------
(***************************************************************************)
(* The beginning of each call.                                             *)
(***************************************************************************)

\* sync-set reads the master's name, and will write to that node.
BeginSyncSet(c, k, v) ==
  /\ MayCall(c, "sync-set") /\ Unlocked
  /\ rc.masterID # NoNode
  /\ Goto(c, Task("write-master", "sync-set", rc.masterID, <<[key |-> k, value |-> v]>>))
  /\ UNCHANGED <<nodeVars, rc, mu, spoilt>>

\* sync-del goes straight to SyncDeleteToSlave.
BeginSyncDel(c, k) ==
  /\ MayCall(c, "sync-del") /\ Unlocked
  /\ rc.masterID # NoNode
  /\ Goto(c, Task("lookup", "sync-del", NoNode, <<[key |-> k]>>))
  /\ UNCHANGED <<nodeVars, rc, mu, spoilt>>

\* The tests delete on the master themselves and then call SyncDeleteToSlave.
BeginDelBoth(c, k) ==
  /\ MayCall(c, "del-both") /\ Unlocked
  /\ rc.masterID # NoNode
  /\ Goto(c, Task("write-master", "del-both", rc.masterID, <<[key |-> k]>>))
  /\ UNCHANGED <<nodeVars, rc, mu, spoilt>>

\* RequestFullSync looks node m up under rc.mu.
BeginFullSync(c, m) ==
  /\ MayCall(c, "full-sync") /\ Unlocked
  /\ Goto(c, [at |-> "export", node |-> m])
  /\ UNCHANGED <<nodeVars, rc, mu, spoilt>>

\* Faulty variant: rc.mu is taken for the controller's own fields only.
BeginSetMasterSlaveUnlocked(c, m, s) ==
  /\ MayCall(c, "sync") /\ Unlocked
  /\ <<m, s>> \in Pairs
  /\ SetStatus(m, "Master")
  /\ Goto(c, [at |-> "slave-status", node |-> m, slave |-> s])
  /\ UNCHANGED <<rc, mu, spoilt>>

\* SetMasterSlave takes rc.mu and gives the master its role.
BeginSetMasterSlave(c, m, s) ==
  /\ MayCall(c, "sync") /\ Unlocked
  /\ <<m, s>> \in Pairs
  /\ mu' = c
  /\ SetStatus(m, "Master")
  /\ Goto(c, [at |-> "slave-status", node |-> m, slave |-> s])
  /\ UNCHANGED <<rc, spoilt>>

\* InitSync names another master and leaves the slaves as they are.
InitSync(c, m) ==
  /\ MayCall(c, "init-sync") /\ Unlocked
  /\ rc' = [rc EXCEPT !.masterID = m]
  /\ spoilt' = IF m = rc.masterID THEN spoilt ELSE "badly"
  /\ UNCHANGED <<nodeVars, mu, task>>

-----------------------------------------------------------------------------
(***************************************************************************)
(* The steps of SetMasterSlave after the first, all under rc.mu.           *)
(***************************************************************************)

SetSlaveStatus(c) ==
  /\ At(c, "slave-status")
  /\ SetStatus(task[c].slave, "Slave")
  /\ Goto(c, [task[c] EXCEPT !.at = "slave-master"])
  /\ UNCHANGED <<rc, mu, spoilt>>

SetSlaveMaster(c) ==
  /\ At(c, "slave-master")
  /\ SetMasterID(task[c].slave, task[c].node)
  /\ Goto(c, [task[c] EXCEPT !.at = "configure"])
  /\ UNCHANGED <<rc, mu, spoilt>>

\* Faulty variant: rc.mu is not released.
ConfigureKeepingLock(c) ==
  /\ At(c, "configure")
  /\ rc' = [masterID |-> task[c].node, slaveIDs |-> <<task[c].slave>>, syncedCount |-> 0]
  /\ ReturnOK(c)
  /\ UNCHANGED <<nodeVars, mu>>

Configure(c) ==
  /\ At(c, "configure")
  /\ rc' = [masterID |-> task[c].node, slaveIDs |-> <<task[c].slave>>, syncedCount |-> 0]
  /\ mu' = NoCaller
  /\ ReturnOK(c)
  /\ UNCHANGED nodeVars

-----------------------------------------------------------------------------
(***************************************************************************)
(* The steps of the calls that write.                                      *)
(***************************************************************************)

\* RequestFullSync takes what the node holds by now, most recently used first.  Without
\* data ApplyFullSync returns at once.
Export(c) ==
  /\ At(c, "export")
  /\ LET m == task[c].node
     IN  IF ~Serving(m) THEN ReturnError(c)
         ELSE IF ExportAll(lru[m]) = <<>> THEN ReturnOK(c)
         ELSE /\ Goto(c, Task("lookup", "full-sync", m, ExportAll(lru[m])))
              /\ UNCHANGED spoilt
  /\ UNCHANGED <<nodeVars, rc, mu>>

\* Faulty variant: the caller goes on when the master has refused the write.
WriteMasterUnchecked(c) ==
  /\ At(c, "write-master")
  /\ LET t == task[c]
         e == t.entries[1]
     IN  /\ IF ~Serving(t.node) THEN UNCHANGED nodeVars
            ELSE IF t.call = "sync-set" THEN NodeSet(t.node, e.key, e.value)
            ELSE NodeDelete(t.node, e.key)
         /\ Goto(c, [t EXCEPT !.at = "lookup"])
  /\ UNCHANGED <<rc, mu, spoilt>>

\* The write on the master; a stopped master ends the call.
WriteMaster(c) ==
  /\ At(c, "write-master")
  /\ LET t == task[c]
         e == t.entries[1]
     IN  IF ~Serving(t.node) THEN ReturnError(c) /\ UNCHANGED nodeVars
         ELSE /\ IF t.call = "sync-set" THEN NodeSet(t.node, e.key, e.value)
                                        ELSE NodeDelete(t.node, e.key)
              /\ Goto(c, [t EXCEPT !.at = "lookup"])
              /\ UNCHANGED spoilt
  /\ UNCHANGED <<rc, mu>>

\* The writes to make: every entry to every slave, slave by slave.
Writes(slaves, entries) ==
  [i \in 1 .. Len(slaves) * Len(entries) |->
     [node |-> slaves[((i - 1) \div Len(entries)) + 1],
      entry |-> entries[((i - 1) % Len(entries)) + 1]]]

\* Faulty variants: the error return forgets to unlock; a full sync first clears the
\* slaves, to make them copies of the master.
LookupKeepingLock(c) ==
  /\ At(c, "lookup") /\ Unlocked
  /\ LET t == task[c]
         todo == Writes(rc.slaveIDs, t.entries)
     IN  IF rc.slaveIDs = <<>> \/ (t.call # "full-sync" /\ rc.masterID = NoNode)
         THEN ReturnError(c) /\ mu' = c
         ELSE /\ Goto(c, [t EXCEPT !.at = "write-slave", !.todo = todo,
                                   !.gain = IF t.call = "full-sync" THEN Len(todo) ELSE 1])
              /\ spoilt' = IF t.call = "full-sync" /\ spoilt = "no" THEN "mildly" ELSE spoilt
              /\ UNCHANGED mu
  /\ UNCHANGED <<nodeVars, rc>>

LookupClearing(c) ==
  /\ At(c, "lookup") /\ Unlocked /\ rc.slaveIDs # <<>>
  /\ LET t == task[c]
         todo == Writes(rc.slaveIDs, t.entries)
     IN  /\ Goto(c, [t EXCEPT !.at = "write-slave", !.todo = todo, !.gain = 1])
         /\ spoilt' = IF t.call = "full-sync" /\ spoilt = "no" THEN "mildly" ELSE spoilt
         /\ lru' = IF t.call = "full-sync" THEN [lru EXCEPT ![rc.slaveIDs[1]] = EmptyLRU] ELSE lru
  /\ UNCHANGED <<status, masterID, rc, mu>>

\* Copy slaveIDs under rc.mu.  The count a full sync adds is that of its writes.
Lookup(c) ==
  /\ At(c, "lookup") /\ Unlocked
  /\ LET t == task[c]
         todo == Writes(rc.slaveIDs, t.entries)
     IN  IF rc.slaveIDs = <<>> \/ (t.call # "full-sync" /\ rc.masterID = NoNode)
         THEN ReturnError(c)
         ELSE /\ Goto(c, [t EXCEPT !.at = "write-slave", !.todo = todo,
                                   !.gain = IF t.call = "full-sync" THEN Len(todo) ELSE 1])
              /\ spoilt' = IF t.call = "full-sync" /\ spoilt = "no" THEN "mildly" ELSE spoilt
  /\ UNCHANGED <<nodeVars, rc, mu>>

\* Faulty variants: the last entry of a full sync is lost; a key that the slave has
\* is not written again.
WriteSlaveButLast(c) ==
  /\ At(c, "write-slave")
  /\ LET t == task[c]
         w == Head(t.todo)
         rest == Tail(t.todo)
     IN  IF ~Serving(w.node) THEN ReturnError(c) /\ UNCHANGED nodeVars
         ELSE /\ IF t.call \in {"sync-set", "full-sync"}
                 THEN IF rest = <<>> /\ t.call = "full-sync" THEN UNCHANGED nodeVars
                      ELSE NodeSet(w.node, w.entry.key, w.entry.value)
                 ELSE NodeDelete(w.node, w.entry.key)
              /\ Goto(c, [t EXCEPT !.todo = rest,
                                   !.at = IF rest = <<>> THEN "count" ELSE "write-slave"])
              /\ UNCHANGED spoilt
  /\ UNCHANGED <<rc, mu>>

WriteSlaveIfAbsent(c) ==
  /\ At(c, "write-slave")
  /\ LET t == task[c]
         w == Head(t.todo)
         rest == Tail(t.todo)
     IN  /\ Serving(w.node)
         /\ IF t.call \in {"sync-set", "full-sync"}
            THEN IF w.entry.key \in Cached(lru[w.node]) THEN UNCHANGED nodeVars
                 ELSE NodeSet(w.node, w.entry.key, w.entry.value)
            ELSE NodeDelete(w.node, w.entry.key)
         /\ Goto(c, [t EXCEPT !.todo = rest,
                              !.at = IF rest = <<>> THEN "count" ELSE "write-slave"])
  /\ UNCHANGED <<rc, mu, spoilt>>

\* One write on one slave, wherever the roles are by now; a stopped slave ends the call.
WriteSlave(c) ==
  /\ At(c, "write-slave")
  /\ LET t == task[c]
         w == Head(t.todo)
         rest == Tail(t.todo)
     IN  IF ~Serving(w.node) THEN ReturnError(c) /\ UNCHANGED nodeVars
         ELSE /\ IF t.call \in {"sync-set", "full-sync"}
                 THEN NodeSet(w.node, w.entry.key, w.entry.value)
                 ELSE NodeDelete(w.node, w.entry.key)
              /\ Goto(c, [t EXCEPT !.todo = rest,
                                   !.at = IF rest = <<>> THEN "count" ELSE "write-slave"])
              /\ UNCHANGED spoilt
  /\ UNCHANGED <<rc, mu>>

Count(c) ==
  /\ At(c, "count") /\ Unlocked
  /\ rc' = [rc EXCEPT !.syncedCount = @ + task[c].gain]
  /\ ReturnOK(c)
  /\ UNCHANGED <<nodeVars, mu>>

-----------------------------------------------------------------------------
(***************************************************************************)
(* What happens beside the callers.                                        *)
(***************************************************************************)

Clients(call) == call \in Calls /\ UNCHANGED <<rc, mu, task, spoilt>>

ClientGet(k) == Clients("client-get") /\ NodeGet(Route[k], k)

ClientSet(k, v) == Clients("client-set") /\ NodeSet(Route[k], k, v)

ClientDelete(k) == Clients("client-del") /\ NodeDelete(Route[k], k)

StartNode(n) == Clients("start-stop") /\ Start(n)

StopNode(n) == Clients("start-stop") /\ Stop(n)

-----------------------------------------------------------------------------

Begin(c) == \/ \E k \in KeysOf[c], v \in Value : BeginSyncSet(c, k, v)
            \/ \E k \in KeysOf[c] \cap DeletedKeys : BeginSyncDel(c, k) \/ BeginDelBoth(c, k)
            \/ \E m \in Node : BeginFullSync(c, m) \/ InitSync(c, m)
            \/ \E p \in Pairs : BeginSetMasterSlave(c, p[1], p[2])

Continue(c) == \/ SetSlaveStatus(c) \/ SetSlaveMaster(c) \/ Configure(c)
               \/ WriteMaster(c) \/ Export(c) \/ Lookup(c) \/ WriteSlave(c) \/ Count(c)

Environment == \/ \E k \in Key : ClientGet(k) \/ ClientDelete(k)
               \/ \E k \in Key, v \in Value : ClientSet(k, v)
               \/ \E n \in StoppingNodes : StartNode(n) \/ StopNode(n)

Next == (\E c \in Caller : Begin(c) \/ Continue(c)) \/ Environment

Spec == Init /\ [][Next]_vars


\* sync.Mutex hands the lock to a waiter that has waited long enough, and the Go
\* scheduler runs every runnable goroutine: a caller whose next step is possible
\* again and again takes it.  Nothing makes callers begin, or the environment act.
FairSpec == Spec /\ \A c \in Caller : SF_vars(Continue(c))

-----------------------------------------------------------------------------

AllIdle == \A c \in Caller : At(c, "idle")

Slaves == {rc.slaveIDs[i] : i \in 1 .. Len(rc.slaveIDs)}

\* The type invariant.  The lock is held by a caller in the middle of SetMasterSlave.
TypeOK ==
  /\ NodeTypeOK
  /\ rc \in [masterID : Node \cup {NoNode}, slaveIDs : Seq(Node), syncedCount : Nat]
  /\ mu \in Caller \cup {NoCaller}
  /\ \A c \in Caller :
       /\ task[c].at \in {"idle", "slave-status", "slave-master", "configure",
                          "write-master", "export", "lookup", "write-slave", "count"}
       /\ mu = c <=> task[c].at \in {"slave-status", "slave-master", "configure"}
       /\ At(c, "write-slave") => task[c].todo # <<>>
  /\ spoilt \in {"no", "mildly", "badly"}

\* Node m and node s agree on key k: both have no such key, or both the same value.
SameEntry(m, s, k) ==
  /\ k \in Cached(lru[m]) <=> k \in Cached(lru[s])
  /\ k \in Cached(lru[m]) => lru[m].cache[k] = lru[s].cache[k]

\* A key only one caller uses, with room for all keys (auto_tests.go:1154-1200:
\* concurrent writes, each followed by SyncToSlave, leave the slave complete): once the
\* calls have returned and none has failed, the slave holds of it what the master holds,
\* whatever nodes were stopped and started.
MirrorWhenQuiet ==
  AllIdle /\ spoilt = "no" =>
    \A s \in Slaves, k \in Key :
      Cardinality({c \in Caller : k \in KeysOf[c]}) = 1 => SameEntry(rc.masterID, s, k)

\* One caller, and caches too small for the keys: master and slave evict the same
\* entries, because they have seen the same operations in the same order.
SameListWhenQuiet ==
  AllIdle /\ spoilt = "no" => \A s \in Slaves : lru[s] = lru[rc.masterID]

\* A key nobody deletes, with room for all keys, whoever writes it and whatever is fully
\* synced meanwhile: its values may differ in the end, but when no call has failed the
\* slave has it if and only if the master does.
SameKeysWhenQuiet ==
  AllIdle /\ spoilt # "badly" =>
    \A s \in Slaves : Cached(lru[s]) \ DeletedKeys = Cached(lru[rc.masterID]) \ DeletedKeys

\* A call that has made all its writes and is about to return nil.
Through(c, call) == At(c, "count") /\ task[c].call = call

\* A full sync that returns nil has delivered (replication.go:281-325): with one caller
\* and slaves no smaller than the master every entry that was exported is on the slave,
\* even where applying them made the slave evict.
FullSyncDelivers ==
  \A c \in Caller : Through(c, "full-sync") =>
    \A i \in 1 .. Len(task[c].entries), s \in Slaves :
      LET e == task[c].entries[i]
      IN  e.key \in Cached(lru[s]) /\ lru[s].cache[e.key] = e.value

\* A node that has been stopped and started is plain Running, whatever it was.
HasRole(n, role) ==
  status[n] = role \/ (n \in StoppingNodes /\ status[n] \in {"Running", "Stopped"})

\* SetMasterSlave (replication.go:101-141) is one step for whoever takes rc.mu: the
\* controller's roles and the nodes' own agree, however configurations overlap.  Stopping
\* and starting (node.go:283-309) may take a node's role away, but never makes it contradict
\* the controller, and leaves its master's name.
RolesAgree ==
  Unlocked => \A s \in Slaves : /\ masterID[s] = rc.masterID
                                /\ HasRole(s, "Slave")
                                /\ HasRole(rc.masterID, "Master")

\* Every call comes back, with nil or with an error.
EveryCallReturns == \A c \in Caller : []<>At(c, "idle")

-----------------------------------------------------------------------------
(***************************************************************************)
(* What the documentation says and the code does not do.                   *)
(***************************************************************************)

\* design.md:16: the master's writes are synced to the slave, which keeps the data
\* consistent.  Callers that write the same key may leave it with two values for good.
SlaveHoldsMasterData ==
  AllIdle => \A s \in Slaves : lru[s].cache = lru[rc.masterID].cache

\* design.md:744: the data of a full sync is exactly the master's.  Where the master has
\* not changed since it was exported, the slave then has no key the master does not.
FullSyncCopiesMaster ==
  \A c \in Caller :
    Through(c, "full-sync") /\ ExportAll(lru[task[c].node]) = task[c].entries =>
      \A s \in Slaves : Cached(lru[s]) \subseteq Cached(lru[task[c].node])
=============================================================================
