------------------------- MODULE ReplicationProofs -------------------------
(***************************************************************************)
(* Theorems about Replication for every set of nodes, keys, values and     *)
(* callers, every capacity and every bound.                                *)
(***************************************************************************)
EXTENDS Replication, LRUListProofs

-----------------------------------------------------------------------------
(***************************************************************************)
(* The node's operations.                                                  *)
(***************************************************************************)

CacheOK(n, c) == WellFormed(c, Key, Value) /\ Len(c.list) <= Capacity[n]

NodesOK ==
  /\ status \in [Node -> Status]
  /\ masterID \in [Node -> Node \cup {NoNode}]
  /\ DOMAIN lru = Node
  /\ \A n \in Node : CacheOK(n, lru[n])

LEMMA GetKeepsCache ==
  ASSUME NEW n \in Node, NEW c, CacheOK(n, c), NEW k
  PROVE  CacheOK(n, AfterGet(c, k))
BY GetKeepsWellFormed DEF CacheOK

LEMMA SetKeepsCache ==
  ASSUME NEW n \in Node, NEW c, CacheOK(n, c), NEW k \in Key, NEW v \in Value
  PROVE  CacheOK(n, AfterSet(c, k, v, Capacity[n]))
<1>1. WellFormed(c, Key, Value) /\ Len(c.list) <= Capacity[n] /\ Capacity[n] \in Nat \ {0}
  BY NodeAssumption DEF CacheOK
<1>2. CASE k \in Cached(c)
  BY <1>1, <1>2, UpdateKeepsWellFormed DEF AfterSet, CacheOK
<1>3. CASE k \notin Cached(c)
  <2>1. k \in Key \ Cached(c)
    BY <1>3
  <2> QED BY <1>1, <1>3, <2>1, InsertKeepsWellFormed DEF AfterSet, CacheOK
<1> QED BY <1>2, <1>3

LEMMA DeleteKeepsCache ==
  ASSUME NEW n \in Node, NEW c, CacheOK(n, c), NEW k
  PROVE  CacheOK(n, AfterDelete(c, k))
<1>1. /\ WellFormed(c, Key, Value) /\ Len(c.list) <= Capacity[n]
      /\ Capacity[n] \in Nat \ {0} /\ Len(c.list) \in Nat
  BY NodeAssumption, WellFormedParts DEF CacheOK
<1>2. WellFormed(AfterDelete(c, k), Key, Value) /\ Len(AfterDelete(c, k).list) <= Len(c.list)
  BY <1>1, DeleteKeepsWellFormed
<1>3. Len(AfterDelete(c, k).list) \in Nat
  BY <1>2, WellFormedParts
<1> QED BY <1>1, <1>2, <1>3 DEF CacheOK

\* A step that replaces the cache of one node.
LEMMA OneCacheChanges ==
  ASSUME NodesOK, NEW n \in Node, NEW c, CacheOK(n, c),
         lru' = [lru EXCEPT ![n] = c], UNCHANGED <<status, masterID>>
  PROVE  NodesOK'
<1>1. DOMAIN lru' = Node /\ lru'[n] = c /\ \A x \in Node \ {n} : lru'[x] = lru[x]
  BY DEF NodesOK
<1>2. \A x \in Node : CacheOK(x, lru'[x])
  BY <1>1 DEF NodesOK
<1> QED BY <1>1, <1>2 DEF NodesOK

LEMMA NodeGetKeeps == ASSUME NodesOK, NEW n \in Node, NEW k, NodeGet(n, k) PROVE NodesOK'
<1>1. CacheOK(n, AfterGet(lru[n], k))
  BY GetKeepsCache DEF NodesOK
<1> QED BY <1>1, OneCacheChanges DEF NodeGet

LEMMA NodeSetKeeps ==
  ASSUME NodesOK, NEW n \in Node, NEW k \in Key, NEW v \in Value, NodeSet(n, k, v) PROVE NodesOK'
<1>1. CacheOK(n, AfterSet(lru[n], k, v, Capacity[n]))
  BY SetKeepsCache DEF NodesOK
<1> QED BY <1>1, OneCacheChanges DEF NodeSet

LEMMA NodeDeleteKeeps == ASSUME NodesOK, NEW n \in Node, NEW k, NodeDelete(n, k) PROVE NodesOK'
<1>1. CacheOK(n, AfterDelete(lru[n], k))
  BY DeleteKeepsCache DEF NodesOK
<1> QED BY <1>1, OneCacheChanges DEF NodeDelete

LEMMA SetStatusKeeps == ASSUME NodesOK, NEW n \in Node, NEW s, SetStatus(n, s) PROVE NodesOK'
BY DEF NodesOK, SetStatus, CacheOK

LEMMA SetMasterIDKeeps ==
  ASSUME NodesOK, NEW n \in Node, NEW m \in Node, SetMasterID(n, m) PROVE NodesOK'
BY DEF NodesOK, SetMasterID, CacheOK

LEMMA NodesStay == ASSUME NodesOK, UNCHANGED nodeVars PROVE NodesOK'
BY DEF NodesOK, nodeVars

-----------------------------------------------------------------------------
(***************************************************************************)
(* Types, well-formed caches, and the lock.                                *)
(***************************************************************************)

RolePoints == {"slave-status", "slave-master", "configure"}

CallPoints == {"write-master", "lookup", "write-slave", "count"}

\* The calls that end in writes on the slaves; those that send values.
Calling == {"sync-set", "sync-del", "del-both", "full-sync"}

Setting == {"sync-set", "full-sync"}

Entry(call) == IF call \in Setting THEN [key : Key, value : Value] ELSE [key : Key]

Write(call) == [node : Node, entry : Entry(call)]

RoleTask(t) == /\ t \in [at : RolePoints, node : Node, slave : Node]
               /\ <<t.node, t.slave>> \in Pairs

CallTask(t) ==
  /\ t = [at |-> t.at, call |-> t.call, node |-> t.node, entries |-> t.entries,
          todo |-> t.todo, gain |-> t.gain]
  /\ t.at \in CallPoints /\ t.call \in Calling
  /\ t.node \in Node \cup {NoNode}
  /\ t.entries \in Seq(Entry(t.call)) /\ t.entries # <<>>
  /\ t.todo \in Seq(Write(t.call))
  /\ t.gain \in Nat
  /\ t.at = "write-master" => t.call \in {"sync-set", "del-both"} /\ t.node \in Node
  /\ t.at = "write-slave" => t.todo # <<>>

ExportTask(t) == t = [at |-> "export", node |-> t.node] /\ t.node \in Node

TaskOK(t) == t = Idle \/ RoleTask(t) \/ ExportTask(t) \/ CallTask(t)

ControllerOK ==
  /\ rc \in [masterID : Node \cup {NoNode}, slaveIDs : {<<>>} \cup {<<n>> : n \in Node},
             syncedCount : Nat]
  /\ rc.slaveIDs # <<>> => rc.masterID \in Node

LockOK == /\ mu \in Caller \cup {NoCaller}
          /\ \A c \in Caller : mu = c <=> task[c].at \in RolePoints

TasksOK == DOMAIN task = Caller /\ \A c \in Caller : TaskOK(task[c])

\* The inductive invariant for types, caches and the lock.
IInv == /\ NodesOK
        /\ ControllerOK
        /\ TasksOK
        /\ LockOK
        /\ spoilt \in {"no", "mildly", "badly"}

LEMMA GotoOnly ==
  ASSUME TasksOK, NEW c \in Caller, NEW t, Goto(c, t)
  PROVE  DOMAIN task' = Caller /\ task'[c] = t /\ \A d \in Caller \ {c} : task'[d] = task[d]
BY DEF Goto, TasksOK

LEMMA TasksStayOK ==
  ASSUME TasksOK, NEW c \in Caller, NEW t, Goto(c, t), TaskOK(t)
  PROVE  TasksOK'
<1>1. DOMAIN task' = Caller /\ task'[c] = t /\ \A d \in Caller \ {c} : task'[d] = task[d]
  BY GotoOnly
<1>2. \A d \in Caller : TaskOK(task'[d])
  BY <1>1 DEF TasksOK
<1> QED BY <1>1, <1>2 DEF TasksOK

\* The lock when a caller moves between points that agree on whether it is held.
LEMMA LockStaysOK ==
  ASSUME TasksOK, LockOK, NEW c \in Caller, NEW t, Goto(c, t),
         t.at \in RolePoints <=> task[c].at \in RolePoints, mu' = mu
  PROVE  LockOK'
<1>1. task'[c] = t /\ \A d \in Caller \ {c} : task'[d] = task[d]
  BY GotoOnly
<1> QED BY <1>1 DEF LockOK

\* With one slave the writes are its writes of the entries, in order.
LEMMA WritesIs ==
  ASSUME NEW s, NEW E, NEW entries \in Seq(E)
  PROVE  Writes(<<s>>, entries) =
           [i \in 1 .. Len(entries) |-> [node |-> s, entry |-> entries[i]]]
<1> DEFINE n == Len(entries)
<1>1. n \in Nat
  BY LenProperties
<1> HIDE DEF n
<1>2. Len(<<s>>) * n = n
  BY <1>1
<1>3. ASSUME NEW i \in 1 .. n
      PROVE  <<s>>[((i - 1) \div n) + 1] = s /\ ((i - 1) % n) + 1 = i
  <2>1. i - 1 \in Nat /\ i - 1 < n /\ n > 0 /\ i \in Int
    BY <1>1, <1>3
  <2>2. (i - 1) \div n = 0 /\ (i - 1) % n = i - 1
    BY <1>1, <2>1
  <2> QED BY <2>1, <2>2
<1> QED BY <1>2, <1>3 DEF Writes, n

\* A step that starts a call: nodes and controller stay.
LEMMA BeginKeeps ==
  ASSUME IInv, NEW c \in Caller, task[c].at = "idle", NEW t, Goto(c, t), CallTask(t),
         UNCHANGED <<nodeVars, rc, mu, spoilt>>
  PROVE  IInv'
<1>1. TasksOK'
  BY TasksStayOK DEF IInv, TaskOK
<1>2. LockOK'
  BY LockStaysOK DEF IInv, CallTask, CallPoints, RolePoints
<1> QED BY <1>1, <1>2, NodesStay DEF IInv, ControllerOK

\* The end of a call that does not hold the lock.
LEMMA ReturnKeeps ==
  ASSUME IInv, NEW c \in Caller, task[c].at \notin RolePoints, Goto(c, Idle),
         NodesOK', ControllerOK', UNCHANGED mu, spoilt' \in {spoilt, "badly"}
  PROVE  IInv'
<1>1. TasksOK'
  BY TasksStayOK DEF IInv, TaskOK
<1>2. Idle.at \notin RolePoints
  BY DEF Idle, RolePoints
<1>3. LockOK'
  BY <1>2, LockStaysOK DEF IInv
<1> QED BY <1>1, <1>3 DEF IInv

LEMMA EntryTypes ==
  /\ \A k \in Key, v \in Value : [key |-> k, value |-> v] \in Entry("sync-set")
  /\ \A k \in Key : [key |-> k] \in Entry("sync-del") /\ [key |-> k] \in Entry("del-both")
BY DEF Entry, Setting

LEMMA OneEntryTask ==
  ASSUME NEW call \in Calling, NEW e \in Entry(call), NEW n \in Node \cup {NoNode},
         NEW at \in {"write-master", "lookup"},
         at = "write-master" => call \in {"sync-set", "del-both"} /\ n \in Node
  PROVE  CallTask(Task(at, call, n, <<e>>))
<1>1. <<e>> \in Seq(Entry(call)) /\ <<e>> # <<>> /\ <<>> \in Seq(Write(call))
  OBVIOUS
<1> QED BY <1>1 DEF CallTask, Task, CallPoints

LEMMA BeginInductive ==
  ASSUME IInv, NEW c \in Caller, Begin(c)
  PROVE  IInv'
<1> USE ReplicationAssumption
<1>1. rc.masterID # NoNode => rc.masterID \in Node
  BY DEF IInv, ControllerOK
<1>2. ASSUME NEW k \in KeysOf[c], NEW v \in Value, BeginSyncSet(c, k, v) PROVE IInv'
  <2> DEFINE t == Task("write-master", "sync-set", rc.masterID, <<[key |-> k, value |-> v]>>)
  <2>1. k \in Key /\ "sync-set" \in Calling
    BY DEF Calling
  <2>2. CallTask(t)
    BY <1>1, <1>2, <2>1, OneEntryTask, EntryTypes DEF BeginSyncSet
  <2> HIDE DEF t
  <2>3. Goto(c, t)
    BY <1>2 DEF BeginSyncSet, t
  <2> QED BY <1>2, <2>2, <2>3, BeginKeeps DEF BeginSyncSet, MayCall, At
<1>3. ASSUME NEW k \in KeysOf[c] \cap DeletedKeys, BeginSyncDel(c, k) PROVE IInv'
  <2> DEFINE t == Task("lookup", "sync-del", NoNode, <<[key |-> k]>>)
  <2>1. k \in Key /\ "sync-del" \in Calling
    BY DEF Calling
  <2>2. CallTask(t)
    BY <1>3, <2>1, OneEntryTask, EntryTypes
  <2> HIDE DEF t
  <2>3. Goto(c, t)
    BY <1>3 DEF BeginSyncDel, t
  <2> QED BY <1>3, <2>2, <2>3, BeginKeeps DEF BeginSyncDel, MayCall, At
<1>4. ASSUME NEW k \in KeysOf[c] \cap DeletedKeys, BeginDelBoth(c, k) PROVE IInv'
  <2> DEFINE t == Task("write-master", "del-both", rc.masterID, <<[key |-> k]>>)
  <2>1. k \in Key /\ "del-both" \in Calling
    BY DEF Calling
  <2>2. CallTask(t)
    BY <1>1, <1>4, <2>1, OneEntryTask, EntryTypes DEF BeginDelBoth
  <2> HIDE DEF t
  <2>3. Goto(c, t)
    BY <1>4 DEF BeginDelBoth, t
  <2> QED BY <1>4, <2>2, <2>3, BeginKeeps DEF BeginDelBoth, MayCall, At
<1>5. ASSUME NEW m \in Node, BeginFullSync(c, m) PROVE IInv'
  <2> DEFINE t == [at |-> "export", node |-> m]
  <2>1. ExportTask(t) /\ t.at \notin RolePoints
    BY DEF ExportTask, RolePoints
  <2> HIDE DEF t
  <2>2. Goto(c, t) /\ task[c].at = "idle" /\ UNCHANGED <<nodeVars, rc, mu, spoilt>>
    BY <1>5 DEF BeginFullSync, MayCall, At, t
  <2>3. TasksOK'
    BY <2>1, <2>2, TasksStayOK DEF IInv, TaskOK
  <2>4. LockOK'
    <3>1. task[c].at \notin RolePoints
      BY <2>2 DEF RolePoints
    <3> QED BY <2>1, <2>2, <3>1, LockStaysOK DEF IInv
  <2> QED BY <2>2, <2>3, <2>4, NodesStay DEF IInv, ControllerOK
<1>6. ASSUME NEW m \in Node, InitSync(c, m) PROVE IInv'
  <2>1. ControllerOK'
    BY <1>6 DEF InitSync, IInv, ControllerOK
  <2> QED BY <1>6, <2>1, NodesStay DEF InitSync, IInv, TasksOK, LockOK
<1>7. ASSUME NEW p \in Pairs, BeginSetMasterSlave(c, p[1], p[2]) PROVE IInv'
  <2> DEFINE t == [at |-> "slave-status", node |-> p[1], slave |-> p[2]]
  <2>1. p[1] \in Node /\ p[2] \in Node /\ <<p[1], p[2]>> \in Pairs
    BY <1>7 DEF BeginSetMasterSlave
  <2>2. RoleTask(t) /\ t.at \in RolePoints
    BY <2>1 DEF RoleTask, RolePoints
  <2> HIDE DEF t
  <2>3. Goto(c, t) /\ task[c].at = "idle" /\ mu = NoCaller /\ mu' = c
    BY <1>7 DEF BeginSetMasterSlave, MayCall, At, Unlocked, t
  <2>4. TasksOK'
    BY <2>2, <2>3, TasksStayOK DEF IInv, TaskOK
  <2>5. LockOK'
    <3>1. task'[c] = t /\ \A d \in Caller \ {c} : task'[d] = task[d]
      BY <2>3, GotoOnly DEF IInv
    <3> QED BY <2>2, <2>3, <3>1 DEF LockOK, IInv
  <2>6. NodesOK'
    BY <1>7, <2>1, SetStatusKeeps DEF BeginSetMasterSlave, IInv
  <2> QED BY <1>7, <2>4, <2>5, <2>6 DEF BeginSetMasterSlave, IInv, ControllerOK
<1> QED BY <1>2, <1>3, <1>4, <1>5, <1>6, <1>7 DEF Begin

LEMMA RoleStepInductive ==
  ASSUME IInv, NEW c \in Caller, SetSlaveStatus(c) \/ SetSlaveMaster(c) \/ Configure(c)
  PROVE  IInv'
<1> DEFINE t == task[c]
<1>1. RoleTask(t) /\ mu = c
  BY DEF SetSlaveStatus, SetSlaveMaster, Configure, At, IInv, TasksOK, TaskOK, LockOK,
         ExportTask, CallTask, CallPoints, RolePoints, Idle
<1>2. t.node \in Node /\ t.slave \in Node
  BY <1>1 DEF RoleTask
<1>3. ASSUME NEW p \in RolePoints, Goto(c, [t EXCEPT !.at = p]), NodesOK',
             UNCHANGED <<rc, mu, spoilt>>
      PROVE  IInv'
  <2> DEFINE u == [t EXCEPT !.at = p]
  <2>1. RoleTask(u) /\ u.at = p
    BY <1>1 DEF RoleTask
  <2> HIDE DEF u
  <2>2. Goto(c, u)
    BY <1>3 DEF u
  <2>3. TasksOK'
    BY <2>1, <2>2, TasksStayOK DEF IInv, TaskOK
  <2>4. LockOK'
    BY <1>1, <1>3, <2>1, <2>2, LockStaysOK DEF IInv, RoleTask
  <2> QED BY <1>3, <2>3, <2>4 DEF IInv, ControllerOK
<1>4. CASE SetSlaveStatus(c)
  BY <1>2, <1>3, <1>4, SetStatusKeeps DEF SetSlaveStatus, RolePoints, IInv
<1>5. CASE SetSlaveMaster(c)
  BY <1>2, <1>3, <1>5, SetMasterIDKeeps DEF SetSlaveMaster, RolePoints, IInv
<1>6. CASE Configure(c)
  <2>1. NodesOK' /\ ControllerOK'
    BY <1>2, <1>6, NodesStay DEF Configure, IInv, ControllerOK
  <2>2. Goto(c, Idle) /\ mu' = NoCaller /\ spoilt' = spoilt
    BY <1>6 DEF Configure, ReturnOK
  <2>3. TasksOK'
    BY <2>2, TasksStayOK DEF IInv, TaskOK
  <2>4. LockOK'
    <3>1. task'[c] = Idle /\ \A d \in Caller \ {c} : task'[d] = task[d]
      BY <2>2, GotoOnly DEF IInv
    <3>2. Idle.at \notin RolePoints
      BY DEF Idle, RolePoints
    <3> QED BY <1>1, <2>2, <3>1, <3>2, ReplicationAssumption DEF LockOK, IInv
  <2> QED BY <2>1, <2>2, <2>3, <2>4 DEF IInv
<1> QED BY <1>4, <1>5, <1>6

LEMMA ExportTaskAt ==
  ASSUME IInv, NEW c \in Caller, task[c].at = "export"
  PROVE  task[c].node \in Node /\ task[c].at \notin RolePoints
<1>1. PICK t : t = task[c]
  OBVIOUS
<1>2. TaskOK(t) /\ t.at = "export"
  BY <1>1 DEF IInv, TasksOK
<1>3. t # Idle /\ ~RoleTask(t) /\ ~CallTask(t)
  BY <1>2 DEF Idle, RoleTask, RolePoints, CallTask, CallPoints
<1>4. ExportTask(t)
  BY <1>2, <1>3 DEF TaskOK
<1> QED BY <1>1, <1>2, <1>4 DEF ExportTask, RolePoints

\* A caller in the middle of a call that writes.
LEMMA CallTaskAt ==
  ASSUME IInv, NEW c \in Caller, task[c].at \in CallPoints
  PROVE  /\ CallTask(task[c]) /\ task[c].at \notin RolePoints
         /\ task[c].entries[1] \in Entry(task[c].call)
<1>1. CallTask(task[c]) /\ task[c].at \notin RolePoints
  <2> DEFINE t == task[c]
  <2>1. TaskOK(t) /\ t.at \in CallPoints
    BY DEF IInv, TasksOK
  <2> HIDE DEF t
  <2>2. t.at \notin RolePoints /\ t.at \notin {"idle", "export"}
    BY <2>1 DEF CallPoints, RolePoints
  <2>3. t # Idle /\ ~RoleTask(t) /\ ~ExportTask(t)
    BY <2>2 DEF Idle, RoleTask, ExportTask
  <2> QED BY <2>1, <2>2, <2>3 DEF TaskOK, t
<1>2. task[c].entries \in Seq(Entry(task[c].call)) /\ task[c].entries # <<>>
  BY <1>1 DEF CallTask
<1>3. 1 \in 1 .. Len(task[c].entries)
  <2> DEFINE entries == task[c].entries
             E == Entry(task[c].call)
  <2>1. entries \in Seq(E) /\ entries # <<>>
    BY <1>2
  <2> HIDE DEF entries, E
  <2>2. Len(entries) \in Nat /\ Len(entries) # 0
    BY <2>1, EmptySeq, LenProperties
  <2> QED BY <2>2 DEF entries
<1> QED BY <1>1, <1>2, <1>3, ElementOfSeq

\* A step in the middle of such a call.
LEMMA ContinueKeeps ==
  ASSUME IInv, NEW c \in Caller, task[c].at \notin RolePoints, NEW t, CallTask(t), Goto(c, t),
         NodesOK', UNCHANGED <<rc, mu>>, spoilt' \in {spoilt, "mildly"}
  PROVE  IInv'
<1>1. TasksOK'
  BY TasksStayOK DEF IInv, TaskOK
<1>2. LockOK'
  BY LockStaysOK DEF IInv, CallTask, CallPoints, RolePoints
<1> QED BY <1>1, <1>2 DEF IInv, ControllerOK

LEMMA WriteMasterInductive == ASSUME IInv, NEW c \in Caller, WriteMaster(c) PROVE IInv'
<1> DEFINE t == task[c]
           e == t.entries[1]
           u == [t EXCEPT !.at = "lookup"]
<1>1. /\ CallTask(t) /\ t.at \notin RolePoints /\ e \in Entry(t.call) /\ t.at = "write-master"
      /\ UNCHANGED <<rc, mu>>
  BY CallTaskAt DEF WriteMaster, At, CallPoints
<1>2. t.call \in {"sync-set", "del-both"} /\ t.node \in Node
  BY <1>1 DEF CallTask
<1>3. CASE ~Serving(t.node)
  <2>1. NodesOK' /\ ControllerOK'
    BY <1>3, NodesStay DEF WriteMaster, IInv, ControllerOK
  <2> QED BY <1>1, <1>3, <2>1, ReturnKeeps DEF WriteMaster, ReturnError
<1>4. CASE Serving(t.node)
  <2>1. NodesOK'
    <3>1. CASE t.call = "sync-set"
      <4>1. e.key \in Key /\ e.value \in Value
        BY <1>1, <3>1 DEF Entry, Setting
      <4>2. NodeSet(t.node, e.key, e.value)
        BY <1>4, <3>1 DEF WriteMaster
      <4> QED BY <1>2, <4>1, <4>2, NodeSetKeeps DEF IInv
    <3>2. CASE t.call # "sync-set"
      <4>1. NodeDelete(t.node, e.key)
        BY <1>4, <3>2 DEF WriteMaster
      <4> QED BY <1>2, <4>1, NodeDeleteKeeps DEF IInv
    <3> QED BY <3>1, <3>2
  <2>2. CallTask(u)
    BY <1>1 DEF CallTask, CallPoints
  <2>3. Goto(c, u) /\ spoilt' = spoilt
    BY <1>4 DEF WriteMaster
  <2> HIDE DEF u
  <2> QED BY <1>1, <2>1, <2>2, <2>3, ContinueKeeps
<1> QED BY <1>3, <1>4

\* What Lookup leaves to do: all entries, on the one slave.
LEMMA LookupTask ==
  ASSUME IInv, NEW c \in Caller, Lookup(c), NEW s \in Node, rc.slaveIDs = <<s>>
  PROVE  LET t == task[c]
             todo == [i \in 1 .. Len(t.entries) |-> [node |-> s, entry |-> t.entries[i]]]
         IN  /\ Writes(rc.slaveIDs, t.entries) = todo
             /\ todo \in Seq(Write(t.call)) /\ todo # <<>> /\ Len(todo) = Len(t.entries)
             /\ Len(todo) \in Nat
<1> DEFINE t == task[c]
           n == Len(t.entries)
           todo == [i \in 1 .. n |-> [node |-> s, entry |-> t.entries[i]]]
<1>1. t.entries \in Seq(Entry(t.call)) /\ t.entries # <<>>
  BY CallTaskAt DEF Lookup, At, CallPoints, CallTask
<1>2. Writes(rc.slaveIDs, t.entries) = todo
  BY <1>1, WritesIs
<1>3. n \in Nat /\ n # 0
  <2> HIDE DEF t
  <2> QED BY <1>1, EmptySeq, LenProperties
<1>4. \A i \in 1 .. n : [node |-> s, entry |-> t.entries[i]] \in Write(t.call)
  BY <1>1, ElementOfSeq DEF Write
<1> HIDE DEF n, t
<1>5. todo \in Seq(Write(t.call)) /\ Len(todo) = n
  BY <1>3, <1>4
<1>6. todo # <<>>
  BY <1>3, <1>5
<1> QED BY <1>2, <1>3, <1>5, <1>6 DEF n, t

\* The fields of a task that a step leaves alone.
LEMMA LookupFields ==
  ASSUME NEW t, CallTask(t), NEW at, NEW todo, NEW gain,
         NEW u, u = [t EXCEPT !.at = at, !.todo = todo, !.gain = gain]
  PROVE  u = [at |-> at, call |-> t.call, node |-> t.node, entries |-> t.entries,
              todo |-> todo, gain |-> gain]
<1> DEFINE R(x, y, z) == [at |-> x, call |-> t.call, node |-> t.node, entries |-> t.entries,
                          todo |-> y, gain |-> z]
<1>1. \A x, y, z, new : /\ [R(x, y, z) EXCEPT !.at = new] = R(new, y, z)
                       /\ [R(x, y, z) EXCEPT !.todo = new] = R(x, new, z)
                       /\ [R(x, y, z) EXCEPT !.gain = new] = R(x, y, new)
  OBVIOUS
<1> HIDE DEF R
<1>2. t = R(t.at, t.todo, t.gain)
  BY DEF R, CallTask
<1>3. [t EXCEPT !.at = at, !.todo = todo, !.gain = gain] = R(at, todo, gain)
  <2> DEFINE t1 == [t EXCEPT !.at = at]
             t2 == [t1 EXCEPT !.todo = todo]
             t3 == [t2 EXCEPT !.gain = gain]
  <2>1. t3 = [t EXCEPT !.at = at, !.todo = todo, !.gain = gain]
    OBVIOUS
  <2>2. t1 = R(at, t.todo, t.gain)
    BY <1>1, <1>2
  <2> HIDE DEF t1
  <2>3. t2 = R(at, todo, t.gain)
    BY <1>1, <2>2
  <2> HIDE DEF t2
  <2>4. t3 = R(at, todo, gain)
    BY <1>1, <2>3
  <2> QED BY <2>1, <2>4
<1> QED BY <1>3 DEF R

LEMMA WriteFields ==
  ASSUME NEW t, CallTask(t), NEW at, NEW todo,
         NEW u, u = [t EXCEPT !.todo = todo, !.at = at]
  PROVE  u = [at |-> at, call |-> t.call, node |-> t.node, entries |-> t.entries,
              todo |-> todo, gain |-> t.gain]
<1> DEFINE R(x, y, z) == [at |-> x, call |-> t.call, node |-> t.node, entries |-> t.entries,
                          todo |-> y, gain |-> z]
<1>1. \A x, y, z, new : /\ [R(x, y, z) EXCEPT !.at = new] = R(new, y, z)
                       /\ [R(x, y, z) EXCEPT !.todo = new] = R(x, new, z)
                       /\ [R(x, y, z) EXCEPT !.gain = new] = R(x, y, new)
  OBVIOUS
<1> HIDE DEF R
<1>2. t = R(t.at, t.todo, t.gain)
  BY DEF R, CallTask
<1>3. [t EXCEPT !.todo = todo, !.at = at] = R(at, todo, t.gain)
  <2> DEFINE t1 == [t EXCEPT !.todo = todo]
             t2 == [t1 EXCEPT !.at = at]
  <2>1. t2 = [t EXCEPT !.todo = todo, !.at = at]
    OBVIOUS
  <2>2. t1 = R(t.at, todo, t.gain)
    BY <1>1, <1>2
  <2> HIDE DEF t1
  <2>3. t2 = R(at, todo, t.gain)
    BY <1>1, <2>2
  <2> QED BY <2>1, <2>3
<1> QED BY <1>3 DEF R

LEMMA LookupInductive == ASSUME IInv, NEW c \in Caller, Lookup(c) PROVE IInv'
<1> DEFINE t == task[c]
           todo == Writes(rc.slaveIDs, t.entries)
           gain == IF t.call = "full-sync" THEN Len(todo) ELSE 1
           u == [t EXCEPT !.at = "write-slave", !.todo = todo, !.gain = gain]
<1>1. /\ CallTask(t) /\ t.at \notin RolePoints /\ t.at = "lookup"
      /\ UNCHANGED <<nodeVars, rc, mu>>
  BY CallTaskAt DEF Lookup, At, CallPoints
<1>2. NodesOK' /\ ControllerOK'
  BY <1>1, NodesStay DEF IInv, ControllerOK
<1>3. CASE ReturnError(c)
  BY <1>1, <1>2, <1>3, ReturnKeeps DEF ReturnError
<1>4. CASE rc.slaveIDs # <<>> /\ Goto(c, u) /\ spoilt' \in {spoilt, "mildly"}
  <2>1. PICK s \in Node : rc.slaveIDs = <<s>>
    BY <1>4 DEF IInv, ControllerOK
  <2>2. todo \in Seq(Write(t.call)) /\ todo # <<>> /\ Len(todo) \in Nat
    BY <2>1, LookupTask
  <2> HIDE DEF todo
  <2>3. gain \in Nat
    BY <2>2
  <2>4. CallTask(u)
    <3> HIDE DEF gain
    <3>1. u = [at |-> "write-slave", call |-> t.call, node |-> t.node, entries |-> t.entries,
               todo |-> todo, gain |-> gain]
      <4>1. CallTask(t)
        BY <1>1
      <4> HIDE DEF t, u
      <4>2. u = [t EXCEPT !.at = "write-slave", !.todo = todo, !.gain = gain]
        BY DEF u
      <4> QED BY <4>1, <4>2, LookupFields
    <3> HIDE DEF u
    <3> QED BY <1>1, <2>2, <2>3, <3>1 DEF CallTask, CallPoints
  <2> HIDE DEF u
  <2> QED BY <1>1, <1>2, <1>4, <2>4, ContinueKeeps
<1> QED BY <1>3, <1>4 DEF Lookup

\* The write that WriteSlave makes, and what is left.
LEMMA WriteSlaveTask ==
  ASSUME IInv, NEW c \in Caller, task[c].at = "write-slave"
  PROVE  /\ Head(task[c].todo) \in Write(task[c].call)
         /\ Tail(task[c].todo) \in Seq(Write(task[c].call))
<1> DEFINE todo == task[c].todo
           W == Write(task[c].call)
<1>1. todo \in Seq(W) /\ todo # <<>>
  BY CallTaskAt DEF CallPoints, CallTask
<1> HIDE DEF todo, W
<1>2. Head(todo) \in W /\ Tail(todo) \in Seq(W)
  BY <1>1, HeadTailProperties
<1> QED BY <1>2 DEF todo, W

LEMMA WriteSlaveInductive == ASSUME IInv, NEW c \in Caller, WriteSlave(c) PROVE IInv'
<1> DEFINE t == task[c]
           w == Head(t.todo)
           rest == Tail(t.todo)
           u == [t EXCEPT !.todo = rest, !.at = IF rest = <<>> THEN "count" ELSE "write-slave"]
<1>1. /\ CallTask(t) /\ t.at \notin RolePoints /\ t.at = "write-slave"
      /\ UNCHANGED <<rc, mu>>
  BY CallTaskAt DEF WriteSlave, At, CallPoints
<1>2. w \in Write(t.call) /\ rest \in Seq(Write(t.call))
  BY <1>1, WriteSlaveTask
<1>3. CASE ~Serving(w.node)
  <2>1. NodesOK' /\ ControllerOK'
    BY <1>3, NodesStay DEF WriteSlave, IInv, ControllerOK
  <2> QED BY <1>1, <1>3, <2>1, ReturnKeeps DEF WriteSlave, ReturnError
<1>4. CASE Serving(w.node)
  <2>0. w.node \in Node /\ w.entry \in Entry(t.call)
    BY <1>2 DEF Write
  <2>1. NodesOK'
    <3>1. CASE t.call \in {"sync-set", "full-sync"}
      <4>1. w.entry.key \in Key /\ w.entry.value \in Value
        BY <2>0, <3>1 DEF Entry, Setting
      <4>2. NodeSet(w.node, w.entry.key, w.entry.value)
        BY <1>4, <3>1 DEF WriteSlave
      <4> QED BY <2>0, <4>1, <4>2, NodeSetKeeps DEF IInv
    <3>2. CASE t.call \notin {"sync-set", "full-sync"}
      <4>1. NodeDelete(w.node, w.entry.key)
        BY <1>4, <3>2 DEF WriteSlave
      <4> QED BY <2>0, <4>1, NodeDeleteKeeps DEF IInv
    <3> QED BY <3>1, <3>2
  <2>2. Goto(c, u) /\ spoilt' = spoilt
    BY <1>4 DEF WriteSlave
  <2> HIDE DEF rest
  <2> DEFINE at == IF rest = <<>> THEN "count" ELSE "write-slave"
  <2>3. CallTask(u)
    <3>0. at \in {"count", "write-slave"} /\ (at = "write-slave" => rest # <<>>)
      OBVIOUS
    <3> HIDE DEF at
    <3>1. u = [at |-> at, call |-> t.call, node |-> t.node, entries |-> t.entries,
               todo |-> rest, gain |-> t.gain]
      <4>1. CallTask(t)
        BY <1>1
      <4> HIDE DEF t, u
      <4>2. u = [t EXCEPT !.todo = rest, !.at = at]
        BY DEF u, at
      <4> QED BY <4>1, <4>2, WriteFields
    <3> HIDE DEF u
    <3> QED BY <1>1, <1>2, <3>0, <3>1 DEF CallTask, CallPoints
  <2> HIDE DEF u
  <2> QED BY <1>1, <2>1, <2>2, <2>3, ContinueKeeps
<1> QED BY <1>3, <1>4

\* What a node exports are entries of a call that sends values.
LEMMA ExportInductive == ASSUME IInv, NEW c \in Caller, Export(c) PROVE IInv'
<1>1. PICK m : m = task[c].node
  OBVIOUS
<1>2. /\ task[c].at \notin RolePoints /\ m \in Node
      /\ UNCHANGED <<nodeVars, rc, mu>>
  BY <1>1, ExportTaskAt DEF Export, At
<1>3. NodesOK' /\ ControllerOK'
  BY <1>2, NodesStay DEF IInv, ControllerOK
<1>4. CASE ReturnError(c) \/ ReturnOK(c)
  BY <1>2, <1>3, <1>4, ReturnKeeps DEF ReturnError, ReturnOK
<1>5. CASE /\ ExportAll(lru[m]) # <<>>
           /\ Goto(c, Task("lookup", "full-sync", m, ExportAll(lru[m])))
           /\ UNCHANGED spoilt
  <2> DEFINE entries == ExportAll(lru[m])
             t == Task("lookup", "full-sync", m, entries)
  <2>1. entries \in Seq(Entry("full-sync"))
    <3> DEFINE cm == lru[m]
    <3>1. WellFormed(cm, Key, Value)
      BY <1>2 DEF IInv, NodesOK, CacheOK
    <3> HIDE DEF cm
    <3>2. /\ Len(cm.list) \in Nat /\ Cached(cm) \subseteq Key
          /\ \A i \in 1 .. Len(cm.list) : cm.list[i] \in Cached(cm)
          /\ \A k \in Cached(cm) : cm.cache[k] \in Value
      BY <3>1, WellFormedParts DEF Cached
    <3>3. \A i \in 1 .. Len(cm.list) :
            [key |-> cm.list[i], value |-> cm.cache[cm.list[i]]] \in Entry("full-sync")
      BY <3>2 DEF Entry, Setting
    <3> QED BY <3>2, <3>3 DEF ExportAll, cm
  <2>2. CallTask(t)
    <3>1. <<>> \in Seq(Write("full-sync"))
      OBVIOUS
    <3> HIDE DEF entries
    <3> QED BY <1>2, <1>5, <2>1, <3>1 DEF CallTask, Task, CallPoints, Calling, entries
  <2> HIDE DEF t
  <2>3. Goto(c, t)
    BY <1>5 DEF t
  <2> QED BY <1>2, <1>3, <1>5, <2>2, <2>3, ContinueKeeps
<1> QED BY <1>1, <1>4, <1>5 DEF Export

LEMMA CountInductive == ASSUME IInv, NEW c \in Caller, Count(c) PROVE IInv'
<1>1. /\ CallTask(task[c]) /\ task[c].at \notin RolePoints
      /\ UNCHANGED <<nodeVars, mu, spoilt>> /\ Goto(c, Idle)
      /\ rc' = [rc EXCEPT !.syncedCount = rc.syncedCount + task[c].gain]
  BY CallTaskAt DEF Count, At, CallPoints, ReturnOK
<1>2. ControllerOK'
  <2>1. task[c].gain \in Nat
    BY <1>1 DEF CallTask
  <2> QED BY <1>1, <2>1 DEF IInv, ControllerOK
<1> QED BY <1>1, <1>2, NodesStay, ReturnKeeps DEF IInv

LEMMA EnvironmentInductive == ASSUME IInv, Environment PROVE IInv'
<1> USE ReplicationAssumption
<1>1. ASSUME NodesOK', UNCHANGED <<rc, mu, task, spoilt>> PROVE IInv'
  BY <1>1 DEF IInv, ControllerOK, TasksOK, LockOK
<1>2. ASSUME NEW k \in Key, ClientGet(k) \/ ClientDelete(k) PROVE IInv'
  BY <1>1, <1>2, NodeGetKeeps, NodeDeleteKeeps DEF ClientGet, ClientDelete, Clients, IInv
<1>3. ASSUME NEW k \in Key, NEW v \in Value, ClientSet(k, v) PROVE IInv'
  BY <1>1, <1>3, NodeSetKeeps DEF ClientSet, Clients, IInv
<1>4. ASSUME NEW n \in StoppingNodes, StartNode(n) \/ StopNode(n) PROVE IInv'
  BY <1>1, <1>4, SetStatusKeeps DEF StartNode, StopNode, Start, Stop, Clients, IInv
<1> QED BY <1>2, <1>3, <1>4 DEF Environment

LEMMA IInvInductive == IInv /\ [Next]_vars => IInv'
<1> SUFFICES ASSUME IInv, [Next]_vars PROVE IInv'
  OBVIOUS
<1>1. CASE UNCHANGED vars
  BY <1>1, NodesStay DEF vars, nodeVars, IInv, ControllerOK, TasksOK, LockOK
<1>2. ASSUME NEW c \in Caller, Continue(c) PROVE IInv'
  BY <1>2, RoleStepInductive, WriteMasterInductive, LookupInductive, WriteSlaveInductive,
     ExportInductive, CountInductive DEF Continue
<1> QED BY <1>1, <1>2, BeginInductive, EnvironmentInductive DEF Next

LEMMA IInvInitially == Init => IInv
<1> SUFFICES ASSUME Init PROVE IInv
  OBVIOUS
<1>1. NodesOK
  <2>1. \A n \in Node : CacheOK(n, EmptyLRU)
    BY EmptyIsWellFormed, NodeAssumption DEF CacheOK
  <2> QED BY <2>1 DEF Init, NodesOK, Status
<1>2. ControllerOK /\ TasksOK
  BY DEF Init, ControllerOK, TasksOK, TaskOK, NoFields
<1>3. LockOK
  BY ReplicationAssumption DEF Init, LockOK, Idle, RolePoints
<1> QED BY <1>1, <1>2, <1>3 DEF Init, IInv

LEMMA IInvAlways == Spec => []IInv
BY IInvInitially, IInvInductive, PTL DEF Spec

\* Every variable has its type, and rc.mu is held exactly by the caller that is in the
\* middle of SetMasterSlave (replication.go:101-141): no error path keeps it.
THEOREM TypeCorrect == Spec => []TypeOK
<1>1. IInv => TypeOK
  <2> SUFFICES ASSUME IInv PROVE TypeOK
    OBVIOUS
  <2>1. NodeTypeOK
    BY DEF IInv, NodesOK, NodeTypeOK, CacheOK, WellFormed
  <2>2. rc \in [masterID : Node \cup {NoNode}, slaveIDs : Seq(Node), syncedCount : Nat]
    <3>1. rc.slaveIDs \in Seq(Node)
      <4>1. \A n \in Node : <<n>> \in Seq(Node)
        OBVIOUS
      <4>2. rc.slaveIDs \in {<<>>} \cup {<<n>> : n \in Node}
        BY DEF IInv, ControllerOK
      <4>3. CASE rc.slaveIDs = <<>>
        BY <4>3
      <4>4. ASSUME NEW n \in Node, rc.slaveIDs = <<n>> PROVE rc.slaveIDs \in Seq(Node)
        BY <4>1, <4>4
      <4> QED BY <4>2, <4>3, <4>4
    <3> QED BY <3>1 DEF IInv, ControllerOK
  <2>3. ASSUME NEW c \in Caller
        PROVE  /\ task[c].at \in {"idle", "slave-status", "slave-master", "configure",
                                  "write-master", "export", "lookup", "write-slave",
                                  "count"}
               /\ mu = c <=> task[c].at \in {"slave-status", "slave-master", "configure"}
               /\ At(c, "write-slave") => task[c].todo # <<>>
    <3>1. task[c].at \in {"idle", "export"} \cup RolePoints \cup CallPoints
      <4> DEFINE t == task[c]
      <4>1. TaskOK(t)
        BY DEF IInv, TasksOK
      <4> HIDE DEF t
      <4>2. t = Idle => t.at = "idle"
        BY DEF Idle
      <4>3. RoleTask(t) => t.at \in RolePoints
        BY DEF RoleTask
      <4>4. CallTask(t) => t.at \in CallPoints
        BY DEF CallTask
      <4>5. ExportTask(t) => t.at = "export"
        BY DEF ExportTask
      <4> QED BY <4>1, <4>2, <4>3, <4>4, <4>5 DEF TaskOK, t
    <3>2. At(c, "write-slave") => task[c].todo # <<>>
      BY CallTaskAt DEF At, CallPoints, CallTask
    <3> QED BY <3>1, <3>2 DEF IInv, LockOK, RolePoints, CallPoints
  <2> QED BY <2>1, <2>2, <2>3 DEF TypeOK, IInv, LockOK
<1> QED BY <1>1, IInvAlways, PTL

-----------------------------------------------------------------------------
(***************************************************************************)
(* The roles.                                                              *)
(***************************************************************************)

LEMMA SlavesAre ==
  /\ rc.slaveIDs = <<>> => Slaves = {}
  /\ \A s : rc.slaveIDs = <<s>> => Slaves = {s}
<1>1. ASSUME NEW s, rc.slaveIDs = <<s>> PROVE Slaves = {s}
  <2>1. Len(<<s>>) = 1 /\ <<s>>[1] = s /\ 1 .. 1 = {1}
    OBVIOUS
  <2> QED BY <1>1, <2>1 DEF Slaves
<1> QED BY <1>1 DEF Slaves

\* A caller's step outside SetMasterSlave and InitSync leaves the roles and the lock.
RolesUntouched(c) ==
  /\ UNCHANGED <<status, masterID, mu>>
  /\ rc'.masterID = rc.masterID /\ rc'.slaveIDs = rc.slaveIDs
  /\ task[c].at \notin RolePoints
  /\ task'[c].at \notin RolePoints
  /\ \A d \in Caller \ {c} : task'[d] = task[d]

LEMMA GotoUntouched ==
  ASSUME IInv, NEW c \in Caller, NEW t, Goto(c, t), t.at \notin RolePoints,
         task[c].at \notin RolePoints, UNCHANGED <<status, masterID, mu>>,
         rc'.masterID = rc.masterID, rc'.slaveIDs = rc.slaveIDs
  PROVE  RolesUntouched(c)
BY GotoOnly DEF IInv, RolesUntouched

LEMMA BeginUntouched ==
  ASSUME IInv, NEW c \in Caller,
         \/ \E k \in KeysOf[c], v \in Value : BeginSyncSet(c, k, v)
         \/ \E k \in KeysOf[c] \cap DeletedKeys : BeginSyncDel(c, k) \/ BeginDelBoth(c, k)
         \/ \E m \in Node : BeginFullSync(c, m)
  PROVE  RolesUntouched(c)
<1>1. /\ task[c].at \notin RolePoints
      /\ UNCHANGED <<nodeVars, rc, mu>>
  BY DEF BeginSyncSet, BeginSyncDel, BeginDelBoth, BeginFullSync, MayCall, At, RolePoints
<1>2. \E t : Goto(c, t) /\ t.at \notin RolePoints
  <2>1. Idle.at \notin RolePoints
    BY DEF Idle, RolePoints
  <2>2. \A call, n, entries :
          /\ Task("write-master", call, n, entries).at \notin RolePoints
          /\ Task("lookup", call, n, entries).at \notin RolePoints
          /\ [at |-> "export", node |-> n].at \notin RolePoints
    BY DEF Task, RolePoints
  <2> QED BY <2>1, <2>2 DEF BeginSyncSet, BeginSyncDel, BeginDelBoth, BeginFullSync
<1> QED BY <1>1, <1>2, GotoUntouched DEF nodeVars

LEMMA ExportUntouched ==
  ASSUME IInv, NEW c \in Caller, Export(c)
  PROVE  RolesUntouched(c)
<1>1. task[c].at \notin RolePoints /\ UNCHANGED <<nodeVars, rc, mu>>
  BY DEF Export, At, RolePoints
<1>2. \E t : Goto(c, t) /\ t.at \notin RolePoints
  <2>1. Idle.at \notin RolePoints
    BY DEF Idle, RolePoints
  <2>2. \A n, entries : Task("lookup", "full-sync", n, entries).at \notin RolePoints
    BY DEF Task, RolePoints
  <2> QED BY <2>1, <2>2 DEF Export, ReturnOK, ReturnError
<1> QED BY <1>1, <1>2, GotoUntouched DEF nodeVars

LEMMA WriteUntouched ==
  ASSUME IInv, NEW c \in Caller, WriteMaster(c) \/ Lookup(c) \/ WriteSlave(c) \/ Count(c)
  PROVE  RolesUntouched(c)
<1>1. task[c].at \in CallPoints
  BY DEF WriteMaster, Lookup, WriteSlave, Count, At, CallPoints
<1>2. CallTask(task[c]) /\ task[c].at \notin RolePoints
  BY <1>1, CallTaskAt
<1>3. UNCHANGED <<status, masterID, mu>>
  BY DEF WriteMaster, Lookup, WriteSlave, Count, NodeSet, NodeDelete, nodeVars
<1>4. rc'.masterID = rc.masterID /\ rc'.slaveIDs = rc.slaveIDs
  <2>1. Count(c) => rc' = [rc EXCEPT !.syncedCount = rc.syncedCount + task[c].gain]
    BY DEF Count
  <2>2. rc = [masterID |-> rc.masterID, slaveIDs |-> rc.slaveIDs,
              syncedCount |-> rc.syncedCount]
    BY DEF IInv, ControllerOK
  <2> QED BY <2>1, <2>2 DEF WriteMaster, Lookup, WriteSlave
<1>5. \E t : Goto(c, t) /\ t.at \notin RolePoints
  <2> DEFINE t == task[c]
             todo == Writes(rc.slaveIDs, t.entries)
             rest == Tail(t.todo)
             gain == IF t.call = "full-sync" THEN Len(todo) ELSE 1
             at == IF rest = <<>> THEN "count" ELSE "write-slave"
             u == [t EXCEPT !.at = "lookup"]
             v == [t EXCEPT !.at = "write-slave", !.todo = todo, !.gain = gain]
             w == [t EXCEPT !.todo = rest, !.at = at]
  <2>1. Goto(c, Idle) \/ Goto(c, u) \/ Goto(c, v) \/ Goto(c, w)
    BY DEF WriteMaster, Lookup, WriteSlave, Count, ReturnOK, ReturnError
  <2>2. CallTask(t)
    BY <1>2
  <2>3. at \in {"count", "write-slave"}
    OBVIOUS
  <2> HIDE DEF t, todo, rest, gain, at
  <2>4. u.at = "lookup"
    BY <2>2 DEF CallTask
  <2>5. v.at = "write-slave"
    <3>1. v = [t EXCEPT !.at = "write-slave", !.todo = todo, !.gain = gain]
      OBVIOUS
    <3> HIDE DEF v
    <3>2. v = [at |-> "write-slave", call |-> t.call, node |-> t.node, entries |-> t.entries,
               todo |-> todo, gain |-> gain]
      BY <2>2, <3>1, LookupFields
    <3> QED BY <3>2
  <2>6. w.at = at
    <3>1. w = [t EXCEPT !.todo = rest, !.at = at]
      OBVIOUS
    <3> HIDE DEF w
    <3>2. w = [at |-> at, call |-> t.call, node |-> t.node, entries |-> t.entries,
               todo |-> rest, gain |-> t.gain]
      BY <2>2, <3>1, WriteFields
    <3> QED BY <3>2
  <2> HIDE DEF u, v, w
  <2> QED BY <2>1, <2>3, <2>4, <2>5, <2>6 DEF Idle, RolePoints
<1> QED BY <1>2, <1>3, <1>4, <1>5, GotoUntouched

Agreed(m, s) == masterID[s] = m /\ HasRole(s, "Slave") /\ HasRole(m, "Master")

\* What a configuration in progress has done: it holds rc.mu from the first status change
\* to the last assignment, so nobody else can undo it.
Configuring(t) ==
  /\ t.at \in RolePoints => HasRole(t.node, "Master")
  /\ t.at \in {"slave-master", "configure"} => HasRole(t.slave, "Slave")
  /\ t.at = "configure" => masterID[t.slave] = t.node

RolesInv == /\ IInv
            /\ Unlocked => \A s \in Slaves : Agreed(rc.masterID, s)
            /\ \A c \in Caller : Configuring(task[c])

LEMMA UntouchedKeepsRoles ==
  ASSUME RolesInv, IInv', NEW c \in Caller, RolesUntouched(c) PROVE RolesInv'
<1>1. Slaves' = Slaves
  BY DEF RolesUntouched, Slaves
<1>2. Configuring(task[c])'
  BY DEF RolesUntouched, Configuring, RolePoints
<1>3. \A d \in Caller \ {c} : Configuring(task[d])'
  BY DEF RolesInv, RolesUntouched, Configuring, HasRole
<1> QED BY <1>1, <1>2, <1>3 DEF RolesInv, RolesUntouched, Agreed, HasRole, Unlocked

\* A step that changes no more of the roles than Start and Stop may.
LEMMA EnvironmentKeepsRoles == ASSUME RolesInv, IInv', Environment PROVE RolesInv'
<1>1. UNCHANGED <<rc, mu, task, masterID>>
  BY DEF Environment, ClientGet, ClientSet, ClientDelete, StartNode, StopNode, Clients, Start,
         Stop, SetStatus, NodeGet, NodeSet, NodeDelete
<1>2. ASSUME NEW n \in Node, NEW role, HasRole(n, role) PROVE HasRole(n, role)'
  <2>1. CASE UNCHANGED status
    BY <1>2, <2>1 DEF HasRole
  <2>2. ASSUME NEW x \in StoppingNodes, StartNode(x) \/ StopNode(x) PROVE HasRole(n, role)'
    BY <1>2, <2>2 DEF StartNode, StopNode, Start, Stop, SetStatus, HasRole, RolesInv, IInv,
                      NodesOK
  <2> QED BY <2>1, <2>2 DEF Environment, ClientGet, ClientSet, ClientDelete, NodeGet, NodeSet,
                            NodeDelete
<1>3. \A s \in Slaves : s \in Node /\ rc.masterID \in Node
  <2>1. CASE rc.slaveIDs = <<>>
    BY <2>1, SlavesAre
  <2>2. ASSUME NEW s \in Node, rc.slaveIDs = <<s>> PROVE Slaves = {s} /\ rc.masterID \in Node
    BY <2>2, SlavesAre DEF RolesInv, IInv, ControllerOK
  <2> QED BY <2>1, <2>2 DEF RolesInv, IInv, ControllerOK
<1>4. \A d \in Caller : task[d].at \in RolePoints => RoleTask(task[d])
  <2> SUFFICES ASSUME NEW d \in Caller, task[d].at \in RolePoints PROVE RoleTask(task[d])
    OBVIOUS
  <2> DEFINE t == task[d]
  <2>1. TaskOK(t) /\ t.at \in RolePoints
    BY DEF RolesInv, IInv, TasksOK
  <2> HIDE DEF t
  <2>2. t.at \notin CallPoints /\ t.at \notin {"idle", "export"}
    BY <2>1 DEF RolePoints, CallPoints
  <2> QED BY <2>1, <2>2 DEF TaskOK, ExportTask, CallTask, Idle, t
<1>5. \A d \in Caller : Configuring(task[d])'
  <2> SUFFICES ASSUME NEW d \in Caller PROVE Configuring(task[d])'
    OBVIOUS
  <2> DEFINE t == task[d]
  <2>1. task'[d] = t /\ Configuring(t) /\ (t.at \in RolePoints => t.node \in Node /\ t.slave \in Node)
    BY <1>1, <1>4 DEF RolesInv, RoleTask
  <2> QED BY <1>1, <1>2, <2>1 DEF Configuring, RolePoints
<1>6. Slaves' = Slaves
  BY <1>1 DEF Slaves
<1> QED BY <1>1, <1>2, <1>3, <1>5, <1>6 DEF RolesInv, Agreed, Unlocked

LEMMA NobodyElseConfigures ==
  ASSUME IInv, NEW c \in Caller, mu = c \/ mu = NoCaller
  PROVE  \A d \in Caller \ {c} : task[d].at \notin RolePoints
BY ReplicationAssumption DEF IInv, LockOK

LEMMA BeginRolesKeepsRoles ==
  ASSUME RolesInv, IInv', NEW c \in Caller, NEW p \in Pairs, BeginSetMasterSlave(c, p[1], p[2])
  PROVE  RolesInv'
<1> DEFINE t == [at |-> "slave-status", node |-> p[1], slave |-> p[2]]
<1>1. /\ p[1] \in Node /\ status' = [status EXCEPT ![p[1]] = "Master"]
      /\ mu = NoCaller /\ mu' = c /\ c # NoCaller
  BY ReplicationAssumption DEF BeginSetMasterSlave, SetStatus, Unlocked
<1>2. task'[c] = t /\ \A d \in Caller \ {c} : task'[d] = task[d]
  BY GotoOnly DEF BeginSetMasterSlave, RolesInv, IInv
<1>3. status'[p[1]] = "Master"
  BY <1>1 DEF RolesInv, IInv, NodesOK
<1>4. Configuring(task[c])'
  BY <1>2, <1>3 DEF Configuring, HasRole
<1>5. ASSUME NEW d \in Caller \ {c} PROVE Configuring(task[d])'
  <2>1. task[d].at \notin RolePoints
    BY <1>1, NobodyElseConfigures DEF RolesInv
  <2> QED BY <1>2, <2>1 DEF Configuring, RolePoints
<1> QED BY <1>1, <1>4, <1>5 DEF RolesInv, Unlocked

LEMMA RoleStepKeepsRoles ==
  ASSUME RolesInv, IInv', NEW c \in Caller, SetSlaveStatus(c) \/ SetSlaveMaster(c) \/ Configure(c)
  PROVE  RolesInv'
<1> DEFINE t == task[c]
<1>1. /\ t.at \in RolePoints /\ mu = c /\ t.node \in Node /\ t.slave \in Node /\ t.node # t.slave
      /\ t = [at |-> t.at, node |-> t.node, slave |-> t.slave]
  <2>1. t.at \in RolePoints
    BY DEF SetSlaveStatus, SetSlaveMaster, Configure, At, RolePoints
  <2>2. TaskOK(t) /\ mu = c
    BY <2>1 DEF RolesInv, IInv, TasksOK, LockOK
  <2> HIDE DEF t
  <2>3. t.at \notin CallPoints /\ t.at \notin {"idle", "export"}
    BY <2>1 DEF RolePoints, CallPoints
  <2>4. RoleTask(t)
    BY <2>2, <2>3 DEF TaskOK, ExportTask, CallTask, Idle
  <2>5. t.node # t.slave
    BY <2>4, ReplicationAssumption DEF RoleTask
  <2> QED BY <2>1, <2>2, <2>4, <2>5 DEF RoleTask
<1>2. Configuring(t) /\ c # NoCaller
  BY ReplicationAssumption DEF RolesInv
<1>3. \A d \in Caller \ {c} : task[d].at \notin RolePoints
  BY <1>1, NobodyElseConfigures DEF RolesInv
<1>4. ASSUME NEW u, Goto(c, u), Configuring(u)'
      PROVE  \A d \in Caller : Configuring(task[d])'
  <2>1. task'[c] = u /\ \A d \in Caller \ {c} : task'[d] = task[d]
    BY <1>4, GotoOnly DEF RolesInv, IInv
  <2>2. \A d \in Caller \ {c} : Configuring(task[d])'
    BY <1>3, <2>1 DEF Configuring, RolePoints
  <2>3. Configuring(task[c])'
    BY <1>4, <2>1 DEF Configuring
  <2> QED BY <2>2, <2>3
<1>5. CASE SetSlaveStatus(c)
  <2>1. /\ t.at = "slave-status" /\ status' = [status EXCEPT ![t.slave] = "Slave"]
        /\ UNCHANGED <<masterID, mu>>
        /\ Goto(c, [t EXCEPT !.at = "slave-master"])
    BY <1>5 DEF SetSlaveStatus, SetStatus, At
  <2> PICK u : u = [at |-> "slave-master", node |-> t.node, slave |-> t.slave]
    OBVIOUS
  <2>2. [t EXCEPT !.at = "slave-master"] = u
    <3> HIDE DEF t
    <3> QED BY <1>1
  <2>3. u.at = "slave-master" /\ u.node = t.node /\ u.slave = t.slave
    OBVIOUS
  <2>4. status'[u.slave] = "Slave" /\ status'[u.node] = status[u.node]
    BY <1>1, <2>1, <2>3 DEF RolesInv, IInv, NodesOK
  <2>5. HasRole(u.node, "Master")
    BY <1>1, <1>2, <2>3 DEF Configuring
  <2>6. Configuring(u)'
    BY <2>3, <2>4, <2>5 DEF Configuring, HasRole
  <2> QED BY <1>1, <1>2, <1>4, <2>1, <2>2, <2>6 DEF RolesInv, Unlocked
<1>6. CASE SetSlaveMaster(c)
  <2>1. /\ t.at = "slave-master" /\ masterID' = [masterID EXCEPT ![t.slave] = t.node]
        /\ UNCHANGED <<status, mu>>
        /\ Goto(c, [t EXCEPT !.at = "configure"])
    BY <1>6 DEF SetSlaveMaster, SetMasterID, At
  <2> PICK u : u = [at |-> "configure", node |-> t.node, slave |-> t.slave]
    OBVIOUS
  <2>2. [t EXCEPT !.at = "configure"] = u
    <3> HIDE DEF t
    <3> QED BY <1>1
  <2>3. u.at = "configure" /\ u.node = t.node /\ u.slave = t.slave
    OBVIOUS
  <2>4. masterID'[u.slave] = u.node
    BY <1>1, <2>1, <2>3 DEF RolesInv, IInv, NodesOK
  <2>5. HasRole(u.node, "Master") /\ HasRole(u.slave, "Slave")
    BY <1>1, <1>2, <2>1, <2>3 DEF Configuring
  <2>6. Configuring(u)'
    BY <2>1, <2>3, <2>4, <2>5 DEF Configuring, HasRole
  <2> QED BY <1>1, <1>2, <1>4, <2>1, <2>2, <2>6 DEF RolesInv, Unlocked
<1>7. CASE Configure(c)
  <2>1. /\ t.at = "configure" /\ UNCHANGED nodeVars /\ Goto(c, Idle)
        /\ rc' = [masterID |-> t.node, slaveIDs |-> <<t.slave>>, syncedCount |-> 0]
    BY <1>7 DEF Configure, At, ReturnOK
  <2>2. Agreed(t.node, t.slave)
    BY <1>1, <1>2, <2>1 DEF Configuring, Agreed
  <2>3. Slaves' = {t.slave}
    <3> DEFINE s == t.slave
    <3>1. rc'.slaveIDs = <<s>>
      BY <2>1
    <3> HIDE DEF s
    <3>2. Len(<<s>>) = 1 /\ <<s>>[1] = s /\ 1 .. 1 = {1}
      OBVIOUS
    <3>3. Slaves' = {s}
      BY <3>1, <3>2 DEF Slaves
    <3> QED BY <3>3 DEF s
  <2>4. \A s \in Slaves' : Agreed(rc.masterID, s)'
    BY <2>1, <2>2, <2>3 DEF Agreed, HasRole, nodeVars
  <2>5. Configuring(Idle)'
    BY DEF Configuring, Idle, RolePoints
  <2> QED BY <1>4, <2>1, <2>4, <2>5 DEF RolesInv
<1> QED BY <1>5, <1>6, <1>7

\* The controller's roles and the nodes' own agree whenever rc.mu is free, for every
\* number of callers, nodes and pairs: SetMasterSlave (replication.go:101-141) is atomic
\* for whoever takes the lock.  InitSync, which renames the master only, is not called.
THEOREM RolesAlwaysAgree ==
  ASSUME "init-sync" \notin Calls
  PROVE  Spec => []RolesAgree
<1>1. Init => RolesInv
  <2> SUFFICES ASSUME Init PROVE RolesInv
    OBVIOUS
  <2>1. IInv
    BY IInvInitially
  <2>2. Slaves = {}
    BY SlavesAre DEF Init, NoFields
  <2>3. \A c \in Caller : Configuring(task[c])
    BY DEF Init, Configuring, Idle, RolePoints
  <2> QED BY <2>1, <2>2, <2>3 DEF RolesInv
<1>2. RolesInv /\ [Next]_vars => RolesInv'
  <2> SUFFICES ASSUME RolesInv, [Next]_vars PROVE RolesInv'
    OBVIOUS
  <2>1. IInv /\ IInv'
    BY IInvInductive DEF RolesInv
  <2>2. ASSUME NEW c \in Caller, Begin(c) PROVE RolesInv'
    <3>1. \A m : ~InitSync(c, m)
      BY DEF InitSync, MayCall
    <3> QED BY <2>1, <2>2, <3>1, BeginUntouched, UntouchedKeepsRoles, BeginRolesKeepsRoles
            DEF Begin
  <2>3. ASSUME NEW c \in Caller, Continue(c) PROVE RolesInv'
    BY <2>1, <2>3, ExportUntouched, WriteUntouched, UntouchedKeepsRoles, RoleStepKeepsRoles
       DEF Continue
  <2>4. CASE UNCHANGED vars
    BY <2>1, <2>4 DEF vars, RolesInv, Unlocked, Slaves, Agreed, HasRole, Configuring
  <2> QED BY <2>1, <2>2, <2>3, <2>4, EnvironmentKeepsRoles DEF Next
<1>3. RolesInv => RolesAgree
  BY DEF RolesInv, RolesAgree, Agreed
<1> QED BY <1>1, <1>2, <1>3, PTL DEF Spec

-----------------------------------------------------------------------------
(***************************************************************************)
(* The data of master and slave.  The hypotheses of each theorem are those *)
(* of the run that checks the property on a small cluster.                 *)
(***************************************************************************)

-----------------------------------------------------------------------------
(***************************************************************************)
(* The steps of a caller, by what they do to caches, roles and tasks.      *)
(***************************************************************************)

SameRoles == rc'.masterID = rc.masterID /\ rc'.slaveIDs = rc.slaveIDs

OthersWait(c) == \A d \in Caller \ {c} : task'[d] = task[d]

\* The cache of node n after a call has applied entry e to it.
Applied(call, e, c, n) ==
  IF call \in Setting THEN AfterSet(c, e.key, e.value, Capacity[n]) ELSE AfterDelete(c, e.key)

\* The task goes on to another point, with todo left to do.
Becomes(t, u, at, todo) ==
  u.at = at /\ u.call = t.call /\ u.node = t.node /\ u.entries = t.entries /\ u.todo = todo

Fails(c) == spoilt' = "badly" /\ task'[c] = Idle /\ lru' = lru /\ SameRoles

Ends(c) == /\ spoilt' = spoilt /\ task'[c] = Idle /\ lru' = lru /\ SameRoles
           /\ task[c].at \in {"export", "count"}

BeginsWrite(c) ==
  /\ spoilt' = spoilt /\ lru' = lru /\ SameRoles
  /\ task[c].at = "idle" /\ rc.masterID # NoNode
  /\ \/ \E k \in KeysOf[c], v \in Value :
          task'[c] = Task("write-master", "sync-set", rc.masterID, <<[key |-> k, value |-> v]>>)
     \/ \E k \in KeysOf[c] \cap DeletedKeys :
          \/ /\ "sync-del" \in Calls
             /\ task'[c] = Task("lookup", "sync-del", NoNode, <<[key |-> k]>>)
          \/ task'[c] = Task("write-master", "del-both", rc.masterID, <<[key |-> k]>>)

BeginsFullSync(c) ==
  /\ spoilt' = spoilt /\ lru' = lru /\ SameRoles
  /\ task[c].at = "export"
  /\ \E n \in Node : /\ ExportAll(lru[n]) # <<>>
                     /\ task'[c] = Task("lookup", "full-sync", n, ExportAll(lru[n]))

\* A caller that has yet to export, or is in the middle of SetMasterSlave.
Prepares(c) ==
  /\ spoilt' = spoilt /\ lru' = lru /\ SameRoles
  /\ task'[c].at \in {"export"} \cup RolePoints
  /\ task[c].at \notin CallPoints

Appoints(c) == /\ spoilt' = spoilt /\ lru' = lru /\ task'[c] = Idle
               /\ \E p \in Pairs : rc'.masterID = p[1] /\ rc'.slaveIDs = <<p[2]>>
               /\ task[c].at \notin CallPoints

Renames(c) == /\ lru' = lru /\ task'[c] = task[c] /\ task[c].at = "idle"
              /\ rc'.slaveIDs = rc.slaveIDs
              /\ \/ rc'.masterID = rc.masterID /\ spoilt' = spoilt
                 \/ spoilt' = "badly"

WritesMaster(c) ==
  LET t == task[c]
  IN  /\ spoilt' = spoilt /\ SameRoles
      /\ t.at = "write-master" /\ t.call \in {"sync-set", "del-both"} /\ t.node \in Node
      /\ Becomes(t, task'[c], "lookup", t.todo)
      /\ lru' = [lru EXCEPT ![t.node] = Applied(t.call, t.entries[1], lru[t.node], t.node)]

LooksUp(c) ==
  LET t == task[c]
  IN  /\ spoilt' = IF t.call = "full-sync" /\ spoilt = "no" THEN "mildly" ELSE spoilt
      /\ lru' = lru /\ SameRoles
      /\ t.at = "lookup"
      /\ \E s \in Node :
           /\ rc.slaveIDs = <<s>>
           /\ Becomes(t, task'[c], "write-slave",
                      [i \in 1 .. Len(t.entries) |-> [node |-> s, entry |-> t.entries[i]]])

WritesSlave(c) ==
  LET t == task[c]
      w == Head(t.todo)
      rest == Tail(t.todo)
  IN  /\ spoilt' = spoilt /\ SameRoles
      /\ t.at = "write-slave" /\ w.node \in Node /\ w.entry \in Entry(t.call)
      /\ Becomes(t, task'[c], IF rest = <<>> THEN "count" ELSE "write-slave", rest)
      /\ lru' = [lru EXCEPT ![w.node] = Applied(t.call, w.entry, lru[w.node], w.node)]

LEMMA BecomesBy ==
  ASSUME NEW t, CallTask(t), NEW at, NEW todo, NEW gain
  PROVE  /\ Becomes(t, [t EXCEPT !.at = at], at, t.todo)
         /\ Becomes(t, [t EXCEPT !.at = at, !.todo = todo, !.gain = gain], at, todo)
         /\ Becomes(t, [t EXCEPT !.todo = todo, !.at = at], at, todo)
<1>1. Becomes(t, [t EXCEPT !.at = at], at, t.todo)
  BY DEF Becomes, CallTask
<1>2. Becomes(t, [t EXCEPT !.at = at, !.todo = todo, !.gain = gain], at, todo)
  <2> DEFINE u == [t EXCEPT !.at = at, !.todo = todo, !.gain = gain]
  <2>1. u = [t EXCEPT !.at = at, !.todo = todo, !.gain = gain]
    OBVIOUS
  <2> HIDE DEF u
  <2>2. u = [at |-> at, call |-> t.call, node |-> t.node, entries |-> t.entries,
             todo |-> todo, gain |-> gain]
    BY <2>1, LookupFields
  <2>3. Becomes(t, u, at, todo)
    BY <2>2 DEF Becomes
  <2> QED BY <2>3 DEF u
<1>3. Becomes(t, [t EXCEPT !.todo = todo, !.at = at], at, todo)
  <2> DEFINE u == [t EXCEPT !.todo = todo, !.at = at]
  <2>1. u = [t EXCEPT !.todo = todo, !.at = at]
    OBVIOUS
  <2> HIDE DEF u
  <2>2. u = [at |-> at, call |-> t.call, node |-> t.node, entries |-> t.entries,
             todo |-> todo, gain |-> t.gain]
    BY <2>1, WriteFields
  <2>3. Becomes(t, u, at, todo)
    BY <2>2 DEF Becomes
  <2> QED BY <2>3 DEF u
<1> QED BY <1>1, <1>2, <1>3

LEMMA BeginIs ==
  ASSUME IInv, NEW c \in Caller, Begin(c)
  PROVE  /\ OthersWait(c)
         /\ BeginsWrite(c) \/ Prepares(c) \/ Renames(c)
<1>0. TasksOK
  BY DEF IInv
<1>1. ASSUME NEW k \in KeysOf[c], NEW v \in Value, BeginSyncSet(c, k, v)
      PROVE  OthersWait(c) /\ BeginsWrite(c)
  BY <1>0, <1>1, GotoOnly DEF BeginSyncSet, OthersWait, BeginsWrite, MayCall, At, SameRoles,
                              nodeVars
<1>2. ASSUME NEW k \in KeysOf[c] \cap DeletedKeys, BeginSyncDel(c, k)
      PROVE  OthersWait(c) /\ BeginsWrite(c)
  BY <1>0, <1>2, GotoOnly DEF BeginSyncDel, OthersWait, BeginsWrite, MayCall, At, SameRoles,
                              nodeVars
<1>3. ASSUME NEW k \in KeysOf[c] \cap DeletedKeys, BeginDelBoth(c, k)
      PROVE  OthersWait(c) /\ BeginsWrite(c)
  BY <1>0, <1>3, GotoOnly DEF BeginDelBoth, OthersWait, BeginsWrite, MayCall, At, SameRoles,
                              nodeVars
<1>4. ASSUME NEW n \in Node, BeginFullSync(c, n)
      PROVE  OthersWait(c) /\ Prepares(c)
  BY <1>0, <1>4, GotoOnly DEF BeginFullSync, OthersWait, Prepares, MayCall, At, SameRoles,
                              nodeVars, CallPoints
<1>5. ASSUME NEW n \in Node, InitSync(c, n)
      PROVE  OthersWait(c) /\ Renames(c)
  <2>1. rc' = [rc EXCEPT !.masterID = n]
    BY <1>5 DEF InitSync
  <2>2. rc'.masterID = n /\ rc'.slaveIDs = rc.slaveIDs
    BY <2>1 DEF IInv, ControllerOK
  <2> QED BY <1>5, <2>2 DEF InitSync, OthersWait, Renames, MayCall, At, nodeVars
<1>6. ASSUME NEW p \in Pairs, BeginSetMasterSlave(c, p[1], p[2])
      PROVE  OthersWait(c) /\ Prepares(c)
  <2> DEFINE t == [at |-> "slave-status", node |-> p[1], slave |-> p[2]]
  <2>1. t.at \in RolePoints
    BY DEF RolePoints
  <2> HIDE DEF t
  <2>2. Goto(c, t) /\ task[c].at = "idle"
    BY <1>6 DEF BeginSetMasterSlave, MayCall, At, t
  <2> QED BY <1>0, <1>6, <2>1, <2>2, GotoOnly DEF BeginSetMasterSlave, SetStatus, OthersWait,
                                        Prepares, SameRoles, CallPoints
<1> QED BY <1>1, <1>2, <1>3, <1>4, <1>5, <1>6 DEF Begin

LEMMA RoleStepIs ==
  ASSUME IInv, NEW c \in Caller, SetSlaveStatus(c) \/ SetSlaveMaster(c) \/ Configure(c)
  PROVE  OthersWait(c) /\ (Prepares(c) \/ Appoints(c))
<1> DEFINE t == task[c]
<1>0. TasksOK
  BY DEF IInv
<1>1. /\ t.at \notin CallPoints /\ <<t.node, t.slave>> \in Pairs
      /\ t = [at |-> t.at, node |-> t.node, slave |-> t.slave]
  <2>1. t.at \in RolePoints
    BY DEF SetSlaveStatus, SetSlaveMaster, Configure, At, RolePoints
  <2>2. TaskOK(t)
    BY DEF IInv, TasksOK
  <2> HIDE DEF t
  <2>3. t.at \notin CallPoints /\ t.at \notin {"idle", "export"}
    BY <2>1 DEF RolePoints, CallPoints
  <2>4. RoleTask(t)
    BY <2>2, <2>3 DEF TaskOK, ExportTask, CallTask, Idle
  <2> QED BY <2>3, <2>4 DEF RoleTask
<1>2. CASE SetSlaveStatus(c) \/ SetSlaveMaster(c)
  <2>1. PICK p \in {"slave-master", "configure"} : Goto(c, [t EXCEPT !.at = p])
    BY <1>2 DEF SetSlaveStatus, SetSlaveMaster
  <2> DEFINE u == [t EXCEPT !.at = p]
  <2>2. u.at = p
    <3> HIDE DEF t
    <3> QED BY <1>1
  <2> HIDE DEF u
  <2>3. task'[c] = u /\ OthersWait(c)
    BY <1>0, <2>1, GotoOnly DEF u, OthersWait
  <2> QED BY <1>1, <1>2, <2>2, <2>3 DEF SetSlaveStatus, SetSlaveMaster, SetStatus, SetMasterID,
                                      Prepares, SameRoles, RolePoints
<1>3. CASE Configure(c)
  <2>1. task'[c] = Idle /\ OthersWait(c)
    BY <1>0, <1>3, GotoOnly DEF Configure, ReturnOK, OthersWait
  <2>2. /\ rc' = [masterID |-> t.node, slaveIDs |-> <<t.slave>>, syncedCount |-> 0]
        /\ spoilt' = spoilt /\ lru' = lru
    BY <1>3 DEF Configure, ReturnOK, nodeVars
  <2>3. \E p \in Pairs : rc'.masterID = p[1] /\ rc'.slaveIDs = <<p[2]>>
    <3> DEFINE p == <<t.node, t.slave>>
    <3>1. p \in Pairs /\ rc'.masterID = p[1] /\ rc'.slaveIDs = <<p[2]>>
      BY <1>1, <2>2
    <3> QED BY <3>1
  <2> QED BY <1>1, <2>1, <2>2, <2>3 DEF Appoints
<1> QED BY <1>2, <1>3

LEMMA ExportIsStep ==
  ASSUME IInv, NEW c \in Caller, Export(c)
  PROVE  OthersWait(c) /\ (BeginsFullSync(c) \/ Fails(c) \/ Ends(c))
<1>1. task[c].at = "export" /\ task[c].node \in Node /\ TasksOK
  BY ExportTaskAt DEF Export, At, IInv
<1>2. SameRoles /\ lru' = lru
  BY DEF Export, SameRoles, nodeVars
<1>3. PICK n : n = task[c].node
  OBVIOUS
<1>4. CASE ReturnError(c) \/ ReturnOK(c)
  BY <1>1, <1>2, <1>4, GotoOnly DEF ReturnError, ReturnOK, OthersWait, Fails, Ends
<1>5. CASE /\ ExportAll(lru[n]) # <<>> /\ UNCHANGED spoilt
           /\ Goto(c, Task("lookup", "full-sync", n, ExportAll(lru[n])))
  BY <1>1, <1>2, <1>3, <1>5, GotoOnly DEF OthersWait, BeginsFullSync
<1> QED BY <1>3, <1>4, <1>5 DEF Export

LEMMA WriteIs ==
  ASSUME IInv, NEW c \in Caller, WriteMaster(c) \/ Lookup(c) \/ WriteSlave(c) \/ Count(c)
  PROVE  /\ OthersWait(c)
         /\ WritesMaster(c) \/ LooksUp(c) \/ WritesSlave(c) \/ Ends(c) \/ Fails(c)
<1> DEFINE t == task[c]
           e == t.entries[1]
           w == Head(t.todo)
           rest == Tail(t.todo)
<1>0. TasksOK
  BY DEF IInv
<1>1. CallTask(t)
  BY CallTaskAt DEF WriteMaster, Lookup, WriteSlave, Count, At, CallPoints
<1>2. SameRoles
  BY WriteUntouched DEF RolesUntouched, SameRoles
<1>3. CASE ReturnError(c) /\ UNCHANGED nodeVars
  BY <1>0, <1>2, <1>3, GotoOnly DEF ReturnError, nodeVars, Fails, OthersWait
<1>4. CASE Count(c)
  BY <1>0, <1>2, <1>4, GotoOnly DEF Count, At, ReturnOK, nodeVars, Ends, OthersWait
<1>5. CASE WriteMaster(c) /\ ~(ReturnError(c) /\ UNCHANGED nodeVars)
  <2>1. /\ t.at = "write-master"
        /\ IF t.call = "sync-set" THEN NodeSet(t.node, e.key, e.value)
                                  ELSE NodeDelete(t.node, e.key)
        /\ Goto(c, [t EXCEPT !.at = "lookup"]) /\ spoilt' = spoilt
    BY <1>5 DEF WriteMaster, At
  <2>2. t.call \in {"sync-set", "del-both"} /\ t.node \in Node
    BY <1>1, <2>1 DEF CallTask
  <2>3. lru' = [lru EXCEPT ![t.node] = Applied(t.call, e, lru[t.node], t.node)]
    BY <2>1, <2>2 DEF NodeSet, NodeDelete, Applied, Setting
  <2>4. Becomes(t, task'[c], "lookup", t.todo) /\ OthersWait(c)
    <3> DEFINE u == [t EXCEPT !.at = "lookup"]
    <3>1. Becomes(t, u, "lookup", t.todo)
      BY <1>1, BecomesBy
    <3>2. Goto(c, u)
      BY <2>1
    <3> HIDE DEF u, t
    <3> QED BY <1>0, <3>1, <3>2, GotoOnly DEF OthersWait
  <2> QED BY <1>2, <2>1, <2>2, <2>3, <2>4 DEF WritesMaster
<1>6. CASE Lookup(c) /\ ~(ReturnError(c) /\ UNCHANGED nodeVars)
  <2> DEFINE todo == Writes(rc.slaveIDs, t.entries)
             gain == IF t.call = "full-sync" THEN Len(todo) ELSE 1
             u == [t EXCEPT !.at = "write-slave", !.todo = todo, !.gain = gain]
  <2>1. /\ t.at = "lookup" /\ rc.slaveIDs # <<>> /\ UNCHANGED nodeVars
        /\ Goto(c, u)
        /\ spoilt' = IF t.call = "full-sync" /\ spoilt = "no" THEN "mildly" ELSE spoilt
    BY <1>6 DEF Lookup, At
  <2>2. PICK s \in Node : rc.slaveIDs = <<s>>
    BY <2>1 DEF IInv, ControllerOK
  <2>3. todo = [i \in 1 .. Len(t.entries) |-> [node |-> s, entry |-> t.entries[i]]]
    BY <1>6, <2>2, LookupTask
  <2>4. Becomes(t, task'[c], "write-slave", todo) /\ OthersWait(c)
    <3> HIDE DEF todo, gain
    <3>1. Becomes(t, u, "write-slave", todo)
      BY <1>1, BecomesBy
    <3> HIDE DEF u, t
    <3> QED BY <1>0, <2>1, <3>1, GotoOnly DEF OthersWait
  <2> QED BY <1>2, <2>1, <2>2, <2>3, <2>4 DEF LooksUp, nodeVars
<1>7. CASE WriteSlave(c) /\ ~(ReturnError(c) /\ UNCHANGED nodeVars)
  <2> DEFINE at == IF rest = <<>> THEN "count" ELSE "write-slave"
             u == [t EXCEPT !.todo = rest, !.at = at]
  <2>1. /\ t.at = "write-slave"
        /\ IF t.call \in Setting THEN NodeSet(w.node, w.entry.key, w.entry.value)
                                 ELSE NodeDelete(w.node, w.entry.key)
        /\ Goto(c, u) /\ spoilt' = spoilt
    BY <1>7 DEF WriteSlave, At, Setting
  <2>2. w.node \in Node /\ w.entry \in Entry(t.call)
    BY <2>1, WriteSlaveTask DEF Write
  <2>3. lru' = [lru EXCEPT ![w.node] = Applied(t.call, w.entry, lru[w.node], w.node)]
    BY <2>1, <2>2 DEF NodeSet, NodeDelete, Applied
  <2>4. Becomes(t, task'[c], at, rest) /\ OthersWait(c)
    <3> HIDE DEF at, rest
    <3>1. Becomes(t, u, at, rest)
      BY <1>1, BecomesBy
    <3> HIDE DEF u, t
    <3> QED BY <1>0, <2>1, <3>1, GotoOnly DEF OthersWait
  <2> QED BY <1>2, <2>1, <2>2, <2>3, <2>4 DEF WritesSlave
<1> QED BY <1>3, <1>4, <1>5, <1>6, <1>7 DEF Lookup

\* What happens beside the callers, or nothing.
Beside ==
  /\ SameRoles /\ task' = task /\ spoilt' = spoilt
  /\ \/ lru' = lru
     \/ \E k \in Key : /\ "client-get" \in Calls
                       /\ lru' = [lru EXCEPT ![Route[k]] = AfterGet(lru[Route[k]], k)]
     \/ "client-set" \in Calls
     \/ "client-del" \in Calls

LEMMA BesideIs == ASSUME Environment \/ UNCHANGED vars PROVE Beside
<1>1. CASE UNCHANGED vars
  BY <1>1 DEF vars, Beside, SameRoles
<1>2. ASSUME NEW k \in Key, ClientGet(k) \/ ClientDelete(k) PROVE Beside
  BY <1>2 DEF ClientGet, ClientDelete, Clients, NodeGet, Beside, SameRoles
<1>3. ASSUME NEW k \in Key, NEW v \in Value, ClientSet(k, v) PROVE Beside
  BY <1>3 DEF ClientSet, Clients, Beside, SameRoles
<1>4. ASSUME NEW n \in StoppingNodes, StartNode(n) \/ StopNode(n) PROVE Beside
  BY <1>4 DEF StartNode, StopNode, Start, Stop, SetStatus, Clients, Beside, SameRoles
<1> QED BY <1>1, <1>2, <1>3, <1>4 DEF Environment

Steps(c) == \/ BeginsWrite(c) \/ BeginsFullSync(c) \/ Fails(c) \/ Ends(c) \/ Prepares(c)
            \/ Renames(c) \/ Appoints(c) \/ WritesMaster(c) \/ LooksUp(c) \/ WritesSlave(c)

LEMMA StepIs ==
  ASSUME IInv, [Next]_vars
  PROVE  Beside \/ \E c \in Caller : OthersWait(c) /\ Steps(c)
<1>1. ASSUME NEW c \in Caller, Begin(c) PROVE OthersWait(c) /\ Steps(c)
  BY <1>1, BeginIs DEF Steps
<1>2. ASSUME NEW c \in Caller, Continue(c) PROVE OthersWait(c) /\ Steps(c)
  BY <1>2, RoleStepIs, ExportIsStep, WriteIs DEF Continue, Steps
<1> QED BY <1>1, <1>2, BesideIs DEF Next

\* What has gone wrong stays wrong.
LEMMA SpoiltStays ==
  ASSUME Beside \/ \E c \in Caller : OthersWait(c) /\ Steps(c)
  PROVE  (spoilt = "badly" => spoilt' = "badly") /\ (spoilt # "no" => spoilt' # "no")
BY DEF Beside, Steps, BeginsWrite, BeginsFullSync, Fails, Ends, Prepares, Renames, Appoints,
       WritesMaster, LooksUp, WritesSlave

-----------------------------------------------------------------------------
(***************************************************************************)
(* One master m and one slave s: where the calls write, and what.          *)
(***************************************************************************)

PairTask(c, t, m, s) ==
  /\ t.at = "write-master" /\ spoilt # "badly" => t.node = m
  /\ t.call # "full-sync" => Len(t.entries) = 1 /\ t.entries[1].key \in KeysOf[c]
  /\ t.call \in {"sync-del", "del-both"} => t.entries[1].key \in DeletedKeys
  /\ t.call = "sync-del" => "sync-del" \in Calls
  /\ t.at = "write-slave" =>
       \A i \in 1 .. Len(t.todo) :
         t.todo[i].node = s /\ \E j \in 1 .. Len(t.entries) : t.todo[i].entry = t.entries[j]
  /\ t.at = "write-slave" /\ t.call # "full-sync" => Len(t.todo) = 1
  /\ t.at \in {"write-slave", "count"} /\ t.call = "full-sync" => spoilt # "no"

PairInv(m, s) ==
  /\ rc.slaveIDs \in {<<>>, <<s>>}
  /\ spoilt # "badly" => rc.masterID = IF rc.slaveIDs = <<>> THEN NoNode ELSE m
  /\ \A c \in Caller : task[c].at \in CallPoints => PairTask(c, task[c], m, s)

LEMMA PairInvInductive ==
  ASSUME NEW m \in Node, NEW s \in Node, Pairs = {<<m, s>>},
         IInv, PairInv(m, s), [Next]_vars
  PROVE  PairInv(m, s)'
<1>1. Beside \/ \E c \in Caller : OthersWait(c) /\ Steps(c)
  BY StepIs
<1>2. (spoilt = "badly" => spoilt' = "badly") /\ (spoilt # "no" => spoilt' # "no")
  BY <1>1, SpoiltStays
\* Tasks that stay keep what is known of them.
<1>3. ASSUME NEW c, NEW t, PairTask(c, t, m, s) PROVE PairTask(c, t, m, s)'
  BY <1>2, <1>3 DEF PairTask
<1>4. ASSUME SameRoles PROVE /\ rc'.slaveIDs \in {<<>>, <<s>>}
                             /\ spoilt' # "badly" =>
                                  rc'.masterID = IF rc'.slaveIDs = <<>> THEN NoNode ELSE m
  BY <1>2, <1>4 DEF SameRoles, PairInv
<1>5. CASE Beside
  <2>1. SameRoles /\ task' = task
    BY <1>5 DEF Beside
  <2>2. ASSUME NEW c \in Caller, task'[c].at \in CallPoints PROVE PairTask(c, task[c], m, s)'
    <3>1. PICK t : t = task[c]
      OBVIOUS
    <3>2. PairTask(c, t, m, s) /\ task'[c] = t
      BY <2>1, <2>2, <3>1 DEF PairInv
    <3> QED BY <1>3, <3>2
  <2> QED BY <1>4, <2>1, <2>2 DEF PairInv
<1>6. ASSUME NEW c \in Caller, OthersWait(c), Steps(c) PROVE PairInv(m, s)'
  <2>1. ASSUME NEW d \in Caller \ {c}, task'[d].at \in CallPoints
        PROVE  PairTask(d, task[d], m, s)'
    <3>1. PICK t : t = task[d]
      OBVIOUS
    <3>2. PairTask(d, t, m, s) /\ task'[d] = t
      BY <1>6, <2>1, <3>1 DEF PairInv, OthersWait
    <3> QED BY <1>3, <3>2
  <2>2. ASSUME rc'.slaveIDs \in {<<>>, <<s>>},
               spoilt' # "badly" => rc'.masterID = IF rc'.slaveIDs = <<>> THEN NoNode ELSE m,
               task'[c].at \in CallPoints => PairTask(c, task[c], m, s)'
        PROVE  PairInv(m, s)'
    BY <2>1, <2>2 DEF PairInv
  <2>3. ASSUME SameRoles, task'[c].at \notin CallPoints PROVE PairInv(m, s)'
    BY <1>4, <2>2, <2>3
  <2>4. Idle.at \notin CallPoints
    BY DEF Idle, CallPoints
  <2>5. CASE BeginsWrite(c)
    <3>1. rc.masterID = m \/ spoilt = "badly"
      BY <2>5 DEF BeginsWrite, PairInv
    <3>2. SameRoles /\ spoilt' = spoilt
      BY <2>5 DEF BeginsWrite
    <3>3. PICK t : t = task'[c]
      OBVIOUS
    <3>4. PairTask(c, t, m, s)'
      <4>2. \A e : Len(<<e>>) = 1 /\ <<e>>[1] = e
        OBVIOUS
      <4>3. ASSUME NEW k \in KeysOf[c], NEW v \in Value,
                   t = Task("write-master", "sync-set", rc.masterID,
                            <<[key |-> k, value |-> v]>>)
            PROVE  PairTask(c, t, m, s)'
        BY <3>1, <3>2, <4>2, <4>3 DEF PairTask, Task
      <4>4. ASSUME NEW k \in KeysOf[c] \cap DeletedKeys, "sync-del" \in Calls,
                   t = Task("lookup", "sync-del", NoNode, <<[key |-> k]>>)
            PROVE  PairTask(c, t, m, s)'
        BY <4>2, <4>4 DEF PairTask, Task
      <4>5. ASSUME NEW k \in KeysOf[c] \cap DeletedKeys,
                   t = Task("write-master", "del-both", rc.masterID, <<[key |-> k]>>)
            PROVE  PairTask(c, t, m, s)'
        BY <3>1, <3>2, <4>2, <4>5 DEF PairTask, Task
      <4> QED BY <2>5, <3>3, <4>3, <4>4, <4>5 DEF BeginsWrite
    <3> QED BY <1>4, <2>2, <3>2, <3>3, <3>4
  <2>6. CASE BeginsFullSync(c)
    <3>1. PICK t, n, entries : t = task'[c] /\ t = Task("lookup", "full-sync", n, entries)
      BY <2>6 DEF BeginsFullSync
    <3>2. PairTask(c, t, m, s)'
      BY <3>1 DEF PairTask, Task
    <3> QED BY <1>4, <2>2, <2>6, <3>1, <3>2 DEF BeginsFullSync
  <2>7. CASE Fails(c) \/ Ends(c)
    BY <2>3, <2>4, <2>7 DEF Fails, Ends
  <2>8. CASE Prepares(c)
    BY <2>3, <2>8 DEF Prepares, RolePoints, CallPoints
  <2>9. CASE Renames(c)
    BY <2>2, <2>9 DEF Renames, PairInv, CallPoints
  <2>10. CASE Appoints(c)
    <3>1. rc'.masterID = m /\ rc'.slaveIDs = <<s>> /\ <<s>> # <<>>
      BY <2>10 DEF Appoints
    <3> QED BY <2>2, <2>4, <2>10, <3>1 DEF Appoints
  <2>11. CASE WritesMaster(c)
    <3>1. PICK t, u : t = task[c] /\ u = task'[c]
      OBVIOUS
    <3>2. /\ t.at = "write-master" /\ PairTask(c, t, m, s)
          /\ Becomes(t, u, "lookup", t.todo) /\ SameRoles
      BY <2>11, <3>1 DEF WritesMaster, PairInv, CallPoints
    <3>3. PairTask(c, u, m, s)'
      BY <3>2 DEF PairTask, Becomes
    <3> QED BY <1>4, <2>2, <3>1, <3>2, <3>3
  <2>12. CASE LooksUp(c)
    <3>1. PICK t, u : t = task[c] /\ u = task'[c]
      OBVIOUS
    <3>2. PICK x \in Node : /\ rc.slaveIDs = <<x>>
                            /\ Becomes(t, u, "write-slave",
                                 [i \in 1 .. Len(t.entries) |->
                                    [node |-> x, entry |-> t.entries[i]]])
      BY <2>12, <3>1 DEF LooksUp
    <3>3. x = s
      BY <3>2 DEF PairInv
    <3>4. PairTask(c, t, m, s) /\ CallTask(t) /\ SameRoles
      BY <2>12, <3>1, CallTaskAt DEF LooksUp, PairInv, CallPoints
    <3>5. Len(t.entries) \in Nat
      BY <3>4, LenProperties DEF CallTask
    <3> DEFINE n == Len(t.entries)
               todo == [i \in 1 .. n |-> [node |-> s, entry |-> t.entries[i]]]
    <3>6. /\ Len(todo) = n
          /\ \A i \in 1 .. Len(todo) :
               todo[i].node = s /\ \E j \in 1 .. Len(t.entries) : todo[i].entry = t.entries[j]
      <4>1. Len(todo) = n
        <5> HIDE DEF n
        <5> QED BY <3>5 DEF n
      <4> QED BY <4>1
    <3>7. spoilt' = IF t.call = "full-sync" /\ spoilt = "no" THEN "mildly" ELSE spoilt
      BY <2>12, <3>1 DEF LooksUp
    <3>8. Becomes(t, u, "write-slave", todo)
      BY <3>2, <3>3
    <3> HIDE DEF todo
    <3>9. PairTask(c, u, m, s)'
      BY <3>4, <3>6, <3>7, <3>8 DEF PairTask, Becomes
    <3> QED BY <1>4, <2>2, <3>1, <3>4, <3>9
  <2>13. CASE WritesSlave(c)
    <3>1. PICK t, u : t = task[c] /\ u = task'[c]
      OBVIOUS
    <3>2. /\ t.at = "write-slave" /\ PairTask(c, t, m, s) /\ CallTask(t) /\ SameRoles
          /\ Becomes(t, u, IF Tail(t.todo) = <<>> THEN "count" ELSE "write-slave", Tail(t.todo))
          /\ spoilt' = spoilt
      BY <2>13, <3>1, CallTaskAt DEF WritesSlave, PairInv, CallPoints
    <3> DEFINE rest == Tail(t.todo)
    <3>3. t.todo \in Seq(Write(t.call)) /\ t.todo # <<>>
      BY <3>2 DEF CallTask
    <3>4. /\ Len(t.todo) \in Nat /\ Len(rest) = Len(t.todo) - 1
          /\ \A i \in 1 .. Len(rest) : rest[i] = t.todo[i + 1]
          /\ Len(rest) = 0 => rest = <<>>
      <4> DEFINE W == Write(t.call)
                 todo == t.todo
      <4>1. todo \in Seq(W) /\ todo # <<>>
        BY <3>3
      <4> HIDE DEF W, todo
      <4>2. /\ Len(todo) \in Nat /\ Tail(todo) \in Seq(W) /\ Len(Tail(todo)) = Len(todo) - 1
            /\ \A i \in 1 .. Len(Tail(todo)) : Tail(todo)[i] = todo[i + 1]
        BY <4>1, HeadTailProperties, LenProperties
      <4>3. Len(Tail(todo)) = 0 => Tail(todo) = <<>>
        BY <4>2, EmptySeq
      <4> QED BY <4>2, <4>3 DEF todo
    <3> HIDE DEF rest
    <3>5. \A i \in 1 .. Len(rest) : i + 1 \in 1 .. Len(t.todo)
      BY <3>4
    <3>6. Becomes(t, u, IF rest = <<>> THEN "count" ELSE "write-slave", rest)
      BY <3>2 DEF rest
    <3>7. PairTask(c, u, m, s)'
      <4>1. u.at = "write-slave" =>
              \A i \in 1 .. Len(u.todo) :
                u.todo[i].node = s /\ \E j \in 1 .. Len(u.entries) : u.todo[i].entry = u.entries[j]
        BY <3>2, <3>4, <3>5, <3>6 DEF PairTask, Becomes
      <4>2. u.call # "full-sync" => u.at # "write-slave"
        BY <3>2, <3>4, <3>6 DEF PairTask, Becomes
      <4> QED BY <3>2, <3>6, <4>1, <4>2 DEF PairTask, Becomes
    <3> QED BY <1>4, <2>2, <3>1, <3>2, <3>7
  <2> QED BY <1>6, <2>5, <2>6, <2>7, <2>8, <2>9, <2>10, <2>11, <2>12, <2>13 DEF Steps
<1> QED BY <1>1, <1>5, <1>6

LEMMA PairInvInitially == ASSUME Init, NEW m, NEW s PROVE PairInv(m, s)
BY DEF Init, NoFields, PairInv, Idle, CallPoints

\* A call other than a full sync writes its one entry to the slave, and is through.
LEMMA OneWrite ==
  ASSUME IInv, NEW m, NEW s, PairInv(m, s), NEW c \in Caller, WritesSlave(c),
         task[c].call # "full-sync"
  PROVE  /\ Head(task[c].todo).node = s
         /\ Head(task[c].todo).entry = task[c].entries[1]
         /\ Tail(task[c].todo) = <<>>
<1> DEFINE t == task[c]
           W == Write(t.call)
           todo == t.todo
<1>1. t.at = "write-slave" /\ PairTask(c, t, m, s) /\ CallTask(t)
  BY CallTaskAt DEF WritesSlave, PairInv, CallPoints
<1>2. Len(todo) = 1 /\ Len(t.entries) = 1
  BY <1>1 DEF PairTask
<1>3. todo \in Seq(W) /\ todo # <<>>
  BY <1>1 DEF CallTask
<1>4. todo[1].node = s /\ todo[1].entry = t.entries[1]
  <2>1. 1 \in 1 .. Len(todo) /\ \A j \in 1 .. Len(t.entries) : j = 1
    BY <1>2
  <2> HIDE DEF todo, t
  <2> QED BY <1>1, <1>2, <2>1 DEF PairTask, todo
<1> HIDE DEF t, W, todo
<1>5. Head(todo) = todo[1]
  BY <1>3
<1>6. Tail(todo) = <<>>
  <2>1. Tail(todo) \in Seq(W) /\ Len(Tail(todo)) = Len(todo) - 1
    BY <1>3, HeadTailProperties
  <2>2. Len(Tail(todo)) = 0
    BY <1>2, <2>1
  <2> QED BY <2>1, <2>2, EmptySeq
<1> QED BY <1>4, <1>5, <1>6 DEF t, todo

-----------------------------------------------------------------------------
(***************************************************************************)
(* One caller: master and slave have the same list.                        *)
(***************************************************************************)

\* The master has made a write that the slave has yet to make.
Pending(t) == t.at \in {"lookup", "write-slave"} /\ t.call \in {"sync-set", "del-both"}

\* The slave is behind the master by the write that is on its way.
ListInv(c, m, s) ==
  spoilt = "no" =>
    lru[m] = IF Pending(task[c]) THEN Applied(task[c].call, task[c].entries[1], lru[s], s)
                                 ELSE lru[s]

LEMMA ListInvInductive ==
  ASSUME NEW c, Caller = {c}, NEW m \in Node, NEW s \in Node, Pairs = {<<m, s>>},
         Capacity[m] = Capacity[s],
         Calls \cap {"sync-del", "client-get", "client-set", "client-del"} = {},
         IInv, PairInv(m, s), ListInv(c, m, s), [Next]_vars
  PROVE  ListInv(c, m, s)'
<1> SUFFICES ASSUME spoilt' = "no"
             PROVE  lru'[m] = IF Pending(task'[c])
                              THEN Applied(task'[c].call, task'[c].entries[1], lru'[s], s)
                              ELSE lru'[s]
  BY DEF ListInv
<1>0. m # s /\ DOMAIN lru = Node
  BY ReplicationAssumption DEF IInv, NodesOK
<1>1. Beside \/ Steps(c)
  <2>1. ASSUME NEW d \in Caller, Steps(d) PROVE Steps(c)
    <3>1. d = c
      OBVIOUS
    <3> QED BY <2>1, <3>1
  <2> QED BY <2>1, StepIs
<1>2. spoilt = "no"
  BY StepIs, SpoiltStays
<1>3. ASSUME lru' = lru, ~Pending(task[c]), ~Pending(task'[c])
      PROVE  lru'[m] = IF Pending(task'[c])
                       THEN Applied(task'[c].call, task'[c].entries[1], lru'[s], s)
                       ELSE lru'[s]
  BY <1>2, <1>3 DEF ListInv
<1>4. \A t : t.at \in {"idle", "export"} \cup RolePoints => ~Pending(t)
  BY DEF Pending, RolePoints
<1>5. Idle.at = "idle"
  BY DEF Idle
<1>6. CASE Beside
  BY <1>2, <1>6 DEF Beside, ListInv
<1>7. CASE BeginsWrite(c)
  <2>1. \A n, e : ~Pending(Task("write-master", "sync-set", n, e))
                  /\ ~Pending(Task("write-master", "del-both", n, e))
    BY DEF Pending, Task
  <2> QED BY <1>3, <1>4, <1>7, <2>1 DEF BeginsWrite
<1>8. CASE BeginsFullSync(c)
  <2>1. \A n, e : ~Pending(Task("lookup", "full-sync", n, e))
    BY DEF Pending, Task
  <2> QED BY <1>3, <1>4, <1>8, <2>1 DEF BeginsFullSync
<1>9. CASE Fails(c)
  BY <1>9 DEF Fails
<1>10. CASE Ends(c) \/ Prepares(c) \/ Renames(c) \/ Appoints(c)
  <2>1. lru' = lru
    BY <1>10 DEF Ends, Prepares, Renames, Appoints
  <2>2. ~Pending(task[c])
    BY <1>10 DEF Ends, Prepares, Renames, Appoints, Pending, CallPoints
  <2>3. ~Pending(task'[c])
    BY <1>4, <1>5, <1>10, <2>2 DEF Ends, Prepares, Renames, Appoints
  <2> QED BY <1>3, <2>1, <2>2, <2>3
<1>11. CASE WritesMaster(c)
  <2>1. PICK t, u : t = task[c] /\ u = task'[c]
    OBVIOUS
  <2>2. /\ t.at = "write-master" /\ t.call \in {"sync-set", "del-both"}
        /\ Becomes(t, u, "lookup", t.todo) /\ PairTask(c, t, m, s)
        /\ lru' = [lru EXCEPT ![t.node] = Applied(t.call, t.entries[1], lru[t.node], t.node)]
    BY <1>11, <2>1 DEF WritesMaster, PairInv, CallPoints
  <2>3. t.node = m
    BY <1>2, <2>2 DEF PairTask
  <2>4. lru[m] = lru[s]
    BY <1>2, <2>1, <2>2 DEF ListInv, Pending
  <2>5. lru'[m] = Applied(t.call, t.entries[1], lru[s], m) /\ lru'[s] = lru[s]
    BY <1>0, <2>2, <2>3, <2>4
  <2>6. Applied(t.call, t.entries[1], lru[s], m) = Applied(t.call, t.entries[1], lru[s], s)
    BY DEF Applied
  <2>7. Pending(u) /\ u.call = t.call /\ u.entries = t.entries
    BY <2>2 DEF Pending, Becomes
  <2> QED BY <2>1, <2>5, <2>6, <2>7
<1>12. CASE LooksUp(c)
  <2>1. PICK t, u : t = task[c] /\ u = task'[c]
    OBVIOUS
  <2>2. /\ t.at = "lookup" /\ lru' = lru
        /\ u.at = "write-slave" /\ u.call = t.call /\ u.entries = t.entries
    BY <1>12, <2>1 DEF LooksUp, Becomes
  <2>3. Pending(t) <=> Pending(u)
    BY <2>2 DEF Pending
  <2> QED BY <1>2, <2>1, <2>2, <2>3 DEF ListInv
<1>13. CASE WritesSlave(c)
  <2>1. PICK t, u : t = task[c] /\ u = task'[c]
    OBVIOUS
  <2> DEFINE w == Head(t.todo)
             at == IF Tail(t.todo) = <<>> THEN "count" ELSE "write-slave"
  <2>2. /\ t.at = "write-slave" /\ PairTask(c, t, m, s) /\ CallTask(t)
        /\ Becomes(t, u, at, Tail(t.todo))
        /\ lru' = [lru EXCEPT ![w.node] = Applied(t.call, w.entry, lru[w.node], w.node)]
    BY <1>13, <2>1, CallTaskAt DEF WritesSlave, PairInv, CallPoints
  <2>3. t.call \in {"sync-set", "del-both"}
    BY <1>2, <2>2 DEF PairTask, CallTask, Calling
  <2>4. w.node = s /\ w.entry = t.entries[1] /\ Tail(t.todo) = <<>>
    BY <1>13, <2>1, <2>3, OneWrite
  <2>5. lru[m] = Applied(t.call, t.entries[1], lru[s], s)
    BY <1>2, <2>1, <2>2, <2>3 DEF ListInv, Pending
  <2>6. lru'[s] = Applied(t.call, t.entries[1], lru[s], s) /\ lru'[m] = lru[m]
    BY <1>0, <2>2, <2>4
  <2>7. ~Pending(u)
    BY <2>2, <2>4 DEF Becomes, Pending
  <2> QED BY <2>1, <2>5, <2>6, <2>7
<1> QED BY <1>1, <1>6, <1>7, <1>8, <1>9, <1>10, <1>11, <1>12, <1>13 DEF Steps

\* With one caller and caches of the same size, whatever it is, the slave's list is the
\* master's whenever the caller is idle and nothing has gone wrong (replication.go:143-279):
\* the slave makes the same operations in the same order, and so evicts the same entries.
THEOREM SlaveListAlwaysTheMasters ==
  ASSUME NEW c, Caller = {c}, NEW m \in Node, NEW s \in Node, Pairs = {<<m, s>>},
         Capacity[m] = Capacity[s],
         Calls \cap {"sync-del", "client-get", "client-set", "client-del"} = {}
  PROVE  Spec => []SameListWhenQuiet
<1> DEFINE I == IInv /\ PairInv(m, s) /\ ListInv(c, m, s)
<1>1. Init => I
  <2> SUFFICES ASSUME Init PROVE ListInv(c, m, s)
    BY IInvInitially, PairInvInitially
  <2> QED BY DEF Init, ListInv, Idle, Pending
<1>2. I /\ [Next]_vars => I'
  <2> SUFFICES ASSUME I, [Next]_vars PROVE I'
    OBVIOUS
  <2>1. IInv' /\ PairInv(m, s)'
    BY IInvInductive, PairInvInductive
  <2>2. ListInv(c, m, s)'
    BY ListInvInductive
  <2> QED BY <2>1, <2>2
<1>3. I => SameListWhenQuiet
  <2> SUFFICES ASSUME I, AllIdle, spoilt = "no", NEW x \in Slaves PROVE lru[x] = lru[rc.masterID]
    BY DEF SameListWhenQuiet
  <2>1. x = s /\ rc.masterID = m
    BY SlavesAre DEF PairInv
  <2>2. ~Pending(task[c])
    BY DEF AllIdle, At, Pending
  <2> QED BY <2>1, <2>2 DEF ListInv
<1> HIDE DEF I
<1> QED BY <1>1, <1>2, <1>3, PTL DEF Spec

-----------------------------------------------------------------------------
(***************************************************************************)
(* Caches with room for every key: no write evicts.                        *)
(***************************************************************************)

Room(n) == IsFiniteSet(Key) /\ Cardinality(Key) <= Capacity[n]

\* Two caches hold the same of key k.
HoldSame(c, d, k) == /\ k \in Cached(c) <=> k \in Cached(d)
                     /\ k \in Cached(c) => c.cache[k] = d.cache[k]

LEMMA SetWithRoom ==
  ASSUME NEW n \in Node, Room(n), NEW c, CacheOK(n, c), NEW k \in Key, NEW v,
         NEW room, room = Capacity[n], NEW d, d = AfterSet(c, k, v, room)
  PROVE  /\ Cached(d) = Cached(c) \cup {k}
         /\ d.cache[k] = v
         /\ \A x \in Cached(c) \ {k} : d.cache[x] = c.cache[x]
<1>1. CASE k \in Cached(c)
  <2>1. d.cache = [c.cache EXCEPT ![k] = v]
    BY <1>1 DEF AfterSet, AfterUpdate
  <2> QED BY <1>1, <2>1 DEF Cached
<1>2. CASE k \notin Cached(c)
  <2>1. /\ WellFormed(c, Key, Value) /\ Len(c.list) \in Nat /\ Cached(c) \subseteq Key
        /\ IsFiniteSet(Cached(c)) /\ Cardinality(Cached(c)) = Len(c.list)
    BY WellFormedParts, CachedCardinality DEF CacheOK
  <2>2. /\ Cardinality(Key) \in Nat /\ Cardinality(Cached(c)) <= Cardinality(Key)
        /\ Cardinality(Cached(c)) # Cardinality(Key)
    BY <1>2, <2>1, FS_Subset, FS_CardinalityType DEF Room
  <2>3. Capacity[n] \in Nat /\ ~(Len(c.list) >= Capacity[n])
    BY <2>1, <2>2, NodeAssumption DEF Room
  <2>4. d = PushFront(c, k, v)
    BY <1>2, <2>3 DEF AfterSet, AfterInsert, IsFull
  <2> QED BY <1>2, <2>4 DEF PushFront, Cached
<1> QED BY <1>1, <1>2

LEMMA DeleteKeepsOthers ==
  ASSUME NEW c, NEW k
  PROVE  LET d == AfterDelete(c, k)
         IN  /\ Cached(d) = Cached(c) \ {k}
             /\ \A x \in Cached(c) \ {k} : d.cache[x] = c.cache[x]
BY DEF AfterDelete, Unlink, Reindex, Cached

LEMMA GetKeepsEntries == ASSUME NEW c, NEW k PROVE AfterGet(c, k).cache = c.cache
BY DEF AfterGet

\* A write with room changes what node n holds of the written key only.
LEMMA WriteEffect ==
  ASSUME IInv, NEW n \in Node, Room(n), NEW call, NEW e \in Entry(call),
         lru' = [lru EXCEPT ![n] = Applied(call, e, lru[n], n)]
  PROVE  /\ \A x \in Node \ {n} : lru'[x] = lru[x]
         /\ \A k : k # e.key => HoldSame(lru'[n], lru[n], k)
         /\ call \in Setting => /\ Cached(lru'[n]) = Cached(lru[n]) \cup {e.key}
                                /\ lru'[n].cache[e.key] = e.value
         /\ call \notin Setting => Cached(lru'[n]) = Cached(lru[n]) \ {e.key}
<1>1. /\ lru'[n] = Applied(call, e, lru[n], n)
      /\ \A x \in Node \ {n} : lru'[x] = lru[x]
      /\ CacheOK(n, lru[n])
  BY DEF IInv, NodesOK
<1>2. CASE call \in Setting
  <2>1. e.key \in Key
    BY <1>2 DEF Entry
  <2>2. lru'[n] = AfterSet(lru[n], e.key, e.value, Capacity[n])
    BY <1>1, <1>2 DEF Applied
  <2>3. /\ Cached(lru'[n]) = Cached(lru[n]) \cup {e.key}
        /\ lru'[n].cache[e.key] = e.value
        /\ \A x \in Cached(lru[n]) \ {e.key} : lru'[n].cache[x] = lru[n].cache[x]
    <3>1. PICK c, d, k, v, room :
            c = lru[n] /\ d = lru'[n] /\ k = e.key /\ v = e.value /\ room = Capacity[n]
      OBVIOUS
    <3>2. CacheOK(n, c) /\ k \in Key /\ d = AfterSet(c, k, v, room) /\ room = Capacity[n]
      BY <1>1, <2>1, <2>2, <3>1
    <3>3. /\ Cached(d) = Cached(c) \cup {k}
          /\ d.cache[k] = v
          /\ \A x \in Cached(c) \ {k} : d.cache[x] = c.cache[x]
      BY <3>2, SetWithRoom
    <3> QED BY <3>1, <3>3
  <2> QED BY <1>1, <1>2, <2>3 DEF HoldSame
<1>3. CASE call \notin Setting
  <2>1. lru'[n] = AfterDelete(lru[n], e.key)
    BY <1>1, <1>3 DEF Applied
  <2>2. /\ Cached(lru'[n]) = Cached(lru[n]) \ {e.key}
        /\ \A x \in Cached(lru[n]) \ {e.key} : lru'[n].cache[x] = lru[n].cache[x]
    BY <2>1, DeleteKeepsOthers
  <2> QED BY <1>1, <1>3, <2>2 DEF HoldSame
<1> QED BY <1>2, <1>3

-----------------------------------------------------------------------------
(***************************************************************************)
(* A key of one caller: the slave mirrors the master.                      *)
(***************************************************************************)

\* While c has made a write of its key k on the master only, the master holds what it wrote.
KeyInv(k, c, m, s) ==
  spoilt = "no" =>
    IF Pending(task[c]) /\ task[c].entries[1].key = k
    THEN IF task[c].call = "sync-set"
         THEN k \in Cached(lru[m]) /\ lru[m].cache[k] = task[c].entries[1].value
         ELSE k \notin Cached(lru[m])
    ELSE HoldSame(lru[m], lru[s], k)

\* What a step may do to what a node holds of k when k is not written.
LEMMA KeyUntouched ==
  ASSUME NEW k, NEW c, NEW m, NEW s, KeyInv(k, c, m, s), spoilt = "no",
         HoldSame(lru'[m], lru[m], k), HoldSame(lru'[s], lru[s], k),
         \/ task'[c] = task[c]
         \/ ~Pending(task[c]) /\ ~Pending(task'[c])
         \/ /\ Pending(task[c]) /\ Pending(task'[c])
            /\ task'[c].call = task[c].call /\ task'[c].entries = task[c].entries
  PROVE  KeyInv(k, c, m, s)'
BY DEF KeyInv, HoldSame

\* Steps that begin or end a call, or change roles, write nothing.
LEMMA QuietStep ==
  ASSUME NEW c, spoilt' # "badly",
         \/ BeginsWrite(c) \/ BeginsFullSync(c) \/ Fails(c) \/ Ends(c) \/ Prepares(c)
         \/ Renames(c) \/ Appoints(c)
  PROVE  lru' = lru /\ (task'[c] = task[c] \/ (~Pending(task[c]) /\ ~Pending(task'[c])))
<1>1. \A t : t.at \in {"idle", "export"} \cup RolePoints => ~Pending(t)
  BY DEF Pending, RolePoints
<1>2. Idle.at = "idle"
  BY DEF Idle
<1>3. CASE BeginsWrite(c)
  <2>1. \A n, e : /\ ~Pending(Task("write-master", "sync-set", n, e))
                  /\ ~Pending(Task("write-master", "del-both", n, e))
                  /\ ~Pending(Task("lookup", "sync-del", n, e))
    BY DEF Pending, Task
  <2> QED BY <1>1, <1>3, <2>1 DEF BeginsWrite
<1>4. CASE BeginsFullSync(c)
  <2>1. \A n, e : ~Pending(Task("lookup", "full-sync", n, e))
    BY DEF Pending, Task
  <2> QED BY <1>1, <1>4, <2>1 DEF BeginsFullSync
<1>5. CASE Ends(c)
  BY <1>1, <1>2, <1>5 DEF Ends, Pending
<1>6. CASE Prepares(c)
  BY <1>1, <1>6 DEF Prepares, Pending, CallPoints
<1>7. CASE Appoints(c)
  BY <1>1, <1>2, <1>7 DEF Appoints, Pending, CallPoints
<1>8. CASE Renames(c)
  <2>1. lru' = lru
    BY <1>8 DEF Renames
  <2>2. task'[c] = task[c]
    BY <1>8 DEF Renames
  <2> QED BY <2>1, <2>2
<1>9. ~Fails(c)
  BY DEF Fails
<1> QED BY <1>3, <1>4, <1>5, <1>6, <1>7, <1>8, <1>9

LEMMA KeyInvInductive ==
  ASSUME NEW k, NEW c \in Caller, {d \in Caller : k \in KeysOf[d]} = {c},
         NEW m \in Node, NEW s \in Node, Pairs = {<<m, s>>}, Room(m), Room(s),
         Calls \cap {"sync-del", "client-set", "client-del"} = {},
         IInv, PairInv(m, s), KeyInv(k, c, m, s), [Next]_vars
  PROVE  KeyInv(k, c, m, s)'
<1> SUFFICES ASSUME spoilt' = "no" PROVE KeyInv(k, c, m, s)'
  BY DEF KeyInv
<1>0. m # s /\ DOMAIN lru = Node
  BY ReplicationAssumption DEF IInv, NodesOK
<1>2. spoilt = "no"
  BY StepIs, SpoiltStays
<1>3. \A x : HoldSame(lru[x], lru[x], k)
  BY DEF HoldSame
<1>4. CASE Beside
  <2>1. task' = task
    BY <1>4 DEF Beside
  <2>2. CASE lru' = lru
    BY <1>2, <1>3, <2>1, <2>2, KeyUntouched
  <2>3. ASSUME NEW x \in Key, lru' = [lru EXCEPT ![Route[x]] = AfterGet(lru[Route[x]], x)]
        PROVE  KeyInv(k, c, m, s)'
    <3>1. \A n \in Node : lru'[n].cache = lru[n].cache
      BY <1>0, <2>3, GetKeepsEntries
    <3>2. \A n \in Node : HoldSame(lru'[n], lru[n], k)
      BY <3>1 DEF HoldSame, Cached
    <3> QED BY <1>2, <2>1, <3>2, KeyUntouched
  <2> QED BY <1>4, <2>2, <2>3 DEF Beside
<1>5. ASSUME NEW d \in Caller, OthersWait(d), Steps(d) PROVE KeyInv(k, c, m, s)'
  <2>0. d # c => task'[c] = task[c] /\ k \notin KeysOf[d]
    BY <1>5 DEF OthersWait
  <2>1. CASE \/ BeginsWrite(d) \/ BeginsFullSync(d) \/ Fails(d) \/ Ends(d) \/ Prepares(d)
             \/ Renames(d) \/ Appoints(d)
    <3>1. lru' = lru /\ (task'[d] = task[d] \/ (~Pending(task[d]) /\ ~Pending(task'[d])))
      BY <2>1, QuietStep
    <3> QED BY <1>2, <1>3, <2>0, <3>1, KeyUntouched
  <2>2. CASE WritesMaster(d)
    <3>1. PICK t, u : t = task[d] /\ u = task'[d]
      OBVIOUS
    <3>2. PICK e : e = t.entries[1]
      OBVIOUS
    <3>3. /\ t.at = "write-master" /\ t.call \in {"sync-set", "del-both"}
          /\ Becomes(t, u, "lookup", t.todo) /\ PairTask(d, t, m, s) /\ e \in Entry(t.call)
          /\ lru' = [lru EXCEPT ![t.node] = Applied(t.call, e, lru[t.node], t.node)]
      BY <2>2, <3>1, <3>2, CallTaskAt DEF WritesMaster, PairInv, CallPoints
    <3>4. t.node = m /\ e.key \in KeysOf[d]
      BY <1>2, <3>2, <3>3 DEF PairTask
    <3>5. /\ lru'[s] = lru[s]
          /\ k # e.key => HoldSame(lru'[m], lru[m], k)
          /\ t.call \in Setting => /\ Cached(lru'[m]) = Cached(lru[m]) \cup {e.key}
                                   /\ lru'[m].cache[e.key] = e.value
          /\ t.call \notin Setting => Cached(lru'[m]) = Cached(lru[m]) \ {e.key}
      <4>1. PICK call : call = t.call
        OBVIOUS
      <4>2. e \in Entry(call) /\ lru' = [lru EXCEPT ![m] = Applied(call, e, lru[m], m)]
        BY <3>3, <3>4, <4>1
      <4>3. /\ \A x \in Node \ {m} : lru'[x] = lru[x]
            /\ \A x : x # e.key => HoldSame(lru'[m], lru[m], x)
            /\ call \in Setting => /\ Cached(lru'[m]) = Cached(lru[m]) \cup {e.key}
                                   /\ lru'[m].cache[e.key] = e.value
            /\ call \notin Setting => Cached(lru'[m]) = Cached(lru[m]) \ {e.key}
        BY <4>2, WriteEffect
      <4> QED BY <1>0, <4>1, <4>3
    <3>6. ~Pending(t) /\ Pending(u) /\ u.call = t.call /\ u.entries[1] = e
      BY <3>2, <3>3 DEF Pending, Becomes
    <3>7. CASE e.key # k
      <4>1. HoldSame(lru'[m], lru[m], k) /\ HoldSame(lru'[s], lru[s], k)
        BY <1>3, <3>5, <3>7
      <4>2. CASE d # c
        BY <1>2, <2>0, <4>1, <4>2, KeyUntouched
      <4>3. CASE d = c
        <5>1. HoldSame(lru[m], lru[s], k)
          BY <1>2, <3>1, <3>6, <4>3 DEF KeyInv
        <5>2. HoldSame(lru'[m], lru'[s], k)
          BY <4>1, <5>1 DEF HoldSame
        <5> QED BY <3>1, <3>6, <3>7, <4>3, <5>2 DEF KeyInv
      <4> QED BY <4>2, <4>3
    <3>8. CASE e.key = k
      <4>1. d = c
        BY <2>0, <3>4, <3>8
      <4>2. CASE t.call = "sync-set"
        BY <3>1, <3>5, <3>6, <3>8, <4>1, <4>2 DEF KeyInv, Setting
      <4>3. CASE t.call = "del-both"
        BY <3>1, <3>5, <3>6, <3>8, <4>1, <4>3 DEF KeyInv, Setting
      <4> QED BY <3>3, <4>2, <4>3
    <3> QED BY <3>7, <3>8
  <2>3. CASE LooksUp(d)
    <3>1. PICK t, u : t = task[d] /\ u = task'[d]
      OBVIOUS
    <3>2. /\ t.at = "lookup" /\ lru' = lru
          /\ u.at = "write-slave" /\ u.call = t.call /\ u.entries = t.entries
      BY <2>3, <3>1 DEF LooksUp, Becomes
    <3>3. Pending(t) <=> Pending(u)
      BY <3>2 DEF Pending
    <3> QED BY <1>2, <1>3, <2>0, <3>1, <3>2, <3>3, KeyUntouched
  <2>4. CASE WritesSlave(d)
    <3>1. PICK t, u : t = task[d] /\ u = task'[d]
      OBVIOUS
    <3>2. PICK e : e = t.entries[1]
      OBVIOUS
    <3> DEFINE w == Head(t.todo)
               at == IF Tail(t.todo) = <<>> THEN "count" ELSE "write-slave"
    <3>3. /\ t.at = "write-slave" /\ PairTask(d, t, m, s) /\ CallTask(t) /\ e \in Entry(t.call)
          /\ Becomes(t, u, at, Tail(t.todo))
          /\ lru' = [lru EXCEPT ![w.node] = Applied(t.call, w.entry, lru[w.node], w.node)]
      BY <2>4, <3>1, <3>2, CallTaskAt DEF WritesSlave, PairInv, CallPoints
    <3>4. t.call \in {"sync-set", "del-both"} /\ e.key \in KeysOf[d]
      BY <1>2, <3>2, <3>3 DEF PairTask, CallTask, Calling
    <3>5. w.node = s /\ w.entry = e /\ Tail(t.todo) = <<>>
      BY <2>4, <3>1, <3>2, <3>4, OneWrite
    <3>6. /\ lru'[m] = lru[m]
          /\ k # e.key => HoldSame(lru'[s], lru[s], k)
          /\ t.call \in Setting => /\ Cached(lru'[s]) = Cached(lru[s]) \cup {e.key}
                                   /\ lru'[s].cache[e.key] = e.value
          /\ t.call \notin Setting => Cached(lru'[s]) = Cached(lru[s]) \ {e.key}
      <4>1. PICK call : call = t.call
        OBVIOUS
      <4>2. e \in Entry(call) /\ lru' = [lru EXCEPT ![s] = Applied(call, e, lru[s], s)]
        BY <3>3, <3>5, <4>1
      <4>3. /\ \A x \in Node \ {s} : lru'[x] = lru[x]
            /\ \A x : x # e.key => HoldSame(lru'[s], lru[s], x)
            /\ call \in Setting => /\ Cached(lru'[s]) = Cached(lru[s]) \cup {e.key}
                                   /\ lru'[s].cache[e.key] = e.value
            /\ call \notin Setting => Cached(lru'[s]) = Cached(lru[s]) \ {e.key}
        BY <4>2, WriteEffect
      <4> QED BY <1>0, <4>1, <4>3
    <3>7. Pending(t) /\ ~Pending(u)
      BY <3>3, <3>4, <3>5 DEF Becomes, Pending
    <3>8. CASE e.key # k
      <4>1. HoldSame(lru'[m], lru[m], k) /\ HoldSame(lru'[s], lru[s], k)
        BY <1>3, <3>6, <3>8
      <4>2. CASE d # c
        BY <1>2, <2>0, <4>1, <4>2, KeyUntouched
      <4>3. CASE d = c
        <5>1. HoldSame(lru[m], lru[s], k)
          BY <1>2, <3>1, <3>2, <3>8, <4>3 DEF KeyInv
        <5>2. HoldSame(lru'[m], lru'[s], k)
          BY <4>1, <5>1 DEF HoldSame
        <5> QED BY <3>1, <3>7, <4>3, <5>2 DEF KeyInv
      <4> QED BY <4>2, <4>3
    <3>9. CASE e.key = k
      <4>1. d = c
        BY <2>0, <3>4, <3>9
      <4>2. IF t.call = "sync-set" THEN k \in Cached(lru[m]) /\ lru[m].cache[k] = e.value
                                   ELSE k \notin Cached(lru[m])
        BY <1>2, <3>1, <3>2, <3>7, <3>9, <4>1 DEF KeyInv
      <4>3. HoldSame(lru'[m], lru'[s], k)
        BY <3>4, <3>6, <3>9, <4>2 DEF HoldSame, Setting
      <4> QED BY <3>1, <3>7, <4>1, <4>3 DEF KeyInv
    <3> QED BY <3>8, <3>9
  <2> QED BY <1>5, <2>1, <2>2, <2>3, <2>4 DEF Steps
<1> QED BY <1>4, <1>5, StepIs

\* With room for every key the slave holds of each key that one caller uses what the master
\* holds, whenever no call is going on and none has failed, however many callers write
\* other keys meanwhile and however nodes are stopped and started (auto_tests.go:1154-1200).
THEOREM SlaveAlwaysMirrors ==
  ASSUME NEW m \in Node, NEW s \in Node, Pairs = {<<m, s>>}, Room(m), Room(s),
         IsFiniteSet(Caller),
         Calls \cap {"sync-del", "client-set", "client-del"} = {}
  PROVE  Spec => []MirrorWhenQuiet
<1> DEFINE Sole(k, c) == {d \in Caller : k \in KeysOf[d]} = {c}
           K == \A k \in Key, c \in Caller : Sole(k, c) => KeyInv(k, c, m, s)
           I == IInv /\ PairInv(m, s) /\ K
<1>1. Init => I
  <2> SUFFICES ASSUME Init, NEW k \in Key, NEW c \in Caller PROVE KeyInv(k, c, m, s)
    BY IInvInitially, PairInvInitially
  <2>1. lru[m] = lru[s] /\ ~Pending(task[c])
    BY DEF Init, Idle, Pending
  <2> QED BY <2>1 DEF KeyInv, HoldSame
<1>2. I /\ [Next]_vars => I'
  <2> SUFFICES ASSUME I, [Next]_vars PROVE I'
    OBVIOUS
  <2>1. IInv' /\ PairInv(m, s)'
    BY IInvInductive, PairInvInductive
  <2>2. ASSUME NEW k \in Key, NEW c \in Caller, Sole(k, c) PROVE KeyInv(k, c, m, s)'
    <3>1. KeyInv(k, c, m, s)
      BY <2>2
    <3> QED BY <2>2, <3>1, KeyInvInductive
  <2> QED BY <2>1, <2>2
<1>3. I => MirrorWhenQuiet
  <2> SUFFICES ASSUME I, AllIdle, spoilt = "no", NEW x \in Slaves, NEW k \in Key,
                      Cardinality({d \in Caller : k \in KeysOf[d]}) = 1
               PROVE  SameEntry(rc.masterID, x, k)
    BY DEF MirrorWhenQuiet
  <2>1. x = s /\ rc.masterID = m
    BY SlavesAre DEF PairInv
  <2>2. PICK c \in Caller : Sole(k, c)
    <3> DEFINE D == {d \in Caller : k \in KeysOf[d]}
    <3>1. IsFiniteSet(D)
      BY FS_Subset
    <3>2. Cardinality(D) = 1 /\ D \subseteq Caller
      OBVIOUS
    <3> HIDE DEF D
    <3>3. PICK c : D = {c}
      BY <3>1, <3>2, FS_Singleton
    <3> QED BY <3>2, <3>3 DEF D
  <2>3. ~Pending(task[c])
    BY DEF AllIdle, At, Pending
  <2>4. HoldSame(lru[m], lru[s], k)
    BY <2>2, <2>3 DEF KeyInv
  <2> QED BY <2>1, <2>4 DEF SameEntry, HoldSame
<1> HIDE DEF I
<1> QED BY <1>1, <1>2, <1>3, PTL DEF Spec

-----------------------------------------------------------------------------
(***************************************************************************)
(* A key nobody deletes: the slave has it if the master does.              *)
(***************************************************************************)

\* A task that will send key k to the slave.
Sends(t, k) == /\ t.at \in {"lookup", "write-slave"} /\ t.call \in Setting
               /\ \E i \in 1 .. Len(t.entries) : t.entries[i].key = k

\* A task that has set k on the master and has yet to set it on the slave.
Owes(t, k) == Pending(t) /\ t.call = "sync-set" /\ t.entries[1].key = k

\* Whatever node has k, or will be sent it, the master has it first; and what the master has
\* of it the slave has, or will be sent by the caller that wrote it.
LiveInv(k, m, s) ==
  spoilt # "badly" =>
    /\ \A n \in Node : k \in Cached(lru[n]) => k \in Cached(lru[m])
    /\ \A c \in Caller : Sends(task[c], k) => k \in Cached(lru[m])
    /\ k \in Cached(lru[m]) => \/ k \in Cached(lru[s])
                               \/ \E c \in Caller : Owes(task[c], k)

\* The first conjuncts after a step that adds k to no node.
LEMMA LiveUntouched ==
  ASSUME NEW k, NEW m \in Node, NEW s \in Node, LiveInv(k, m, s), spoilt # "badly",
         \A n \in Node : k \in Cached(lru'[n]) <=> k \in Cached(lru[n]),
         \A c \in Caller : /\ Owes(task[c], k) => Owes(task'[c], k)
                           /\ Sends(task'[c], k) => k \in Cached(lru[m])
  PROVE  LiveInv(k, m, s)'
BY DEF LiveInv
\* What is exported is what is cached, in the order of the list.
LEMMA ExportIs ==
  ASSUME NEW n \in Node, NEW c, CacheOK(n, c), NEW entries, entries = ExportAll(c)
  PROVE  /\ Len(entries) = Len(c.list) /\ Len(entries) \in Nat
         /\ \A i \in 1 .. Len(entries) : /\ entries[i].key = c.list[i]
                                         /\ entries[i].key \in Cached(c)
         /\ \A k \in Cached(c) : \E i \in 1 .. Len(entries) : entries[i].key = k
<1>1. /\ Len(c.list) \in Nat
      /\ \A i \in 1 .. Len(c.list) : c.list[i] \in Cached(c)
      /\ \A k \in Cached(c) : \E i \in 1 .. Len(c.list) : c.list[i] = k
  BY WellFormedParts DEF CacheOK
<1>2. PICK l, len : l = c.list /\ len = Len(l)
  OBVIOUS
<1>3. entries = [i \in 1 .. len |-> [key |-> l[i], value |-> c.cache[l[i]]]] /\ len \in Nat
  BY <1>1, <1>2 DEF ExportAll
<1>4. Len(entries) = len /\ \A i \in 1 .. len : entries[i].key = l[i]
  BY <1>3
<1> QED BY <1>1, <1>2, <1>4

\* A step of a caller, other than a write, that begins or ends a call or changes roles.
LEMMA QuietStepLive ==
  ASSUME NEW k \in Key, IInv, NEW d \in Caller, NEW m \in Node, NEW s \in Node,
         LiveInv(k, m, s), spoilt # "badly", spoilt' # "badly",
         \/ BeginsWrite(d) \/ BeginsFullSync(d) \/ Fails(d) \/ Ends(d) \/ Prepares(d)
         \/ Renames(d) \/ Appoints(d)
  PROVE  /\ lru' = lru
         /\ Owes(task[d], k) => Owes(task'[d], k)
         /\ Sends(task'[d], k) => k \in Cached(lru[m])
<1>1. lru' = lru /\ (Owes(task[d], k) => Owes(task'[d], k))
  BY QuietStep DEF Owes
<1>2. ASSUME Sends(task'[d], k) PROVE k \in Cached(lru[m])
  <2>1. CASE BeginsWrite(d)
    <3>1. \A n, e : /\ ~Sends(Task("write-master", "sync-set", n, e), k)
                    /\ ~Sends(Task("write-master", "del-both", n, e), k)
                    /\ ~Sends(Task("lookup", "sync-del", n, e), k)
      BY DEF Sends, Task, Setting
    <3> QED BY <1>2, <2>1, <3>1 DEF BeginsWrite
  <2>2. CASE BeginsFullSync(d)
    <3>1. PICK n, entries : /\ n \in Node /\ entries = ExportAll(lru[n])
                            /\ task'[d] = Task("lookup", "full-sync", n, entries)
      BY <2>2 DEF BeginsFullSync
    <3>2. \E i \in 1 .. Len(entries) : entries[i].key = k
      BY <1>2, <3>1 DEF Sends, Task
    <3>3. n \in Node /\ CacheOK(n, lru[n])
      BY <3>1 DEF IInv, NodesOK
    <3>4. k \in Cached(lru[n])
      BY <3>1, <3>2, <3>3, ExportIs
    <3> QED BY <3>3, <3>4 DEF LiveInv
  <2>3. task'[d].at \notin {"lookup", "write-slave"}
        \/ task'[d] = task[d] \/ BeginsWrite(d) \/ BeginsFullSync(d)
    BY DEF Fails, Ends, Prepares, Renames, Appoints, Idle, RolePoints
  <2>4. CASE task'[d] = task[d]
    BY <1>2, <2>4 DEF LiveInv
  <2> QED BY <1>2, <2>1, <2>2, <2>3, <2>4 DEF Sends
<1> QED BY <1>1, <1>2

\* A write with room that sets e.key, or deletes another key than k.
LEMMA WriteEffectLive ==
  ASSUME IInv, NEW n \in Node, Room(n), NEW call, NEW e \in Entry(call), NEW k,
         call \notin Setting => e.key # k,
         lru' = [lru EXCEPT ![n] = Applied(call, e, lru[n], n)]
  PROVE  /\ \A x \in Node \ {n} : lru'[x] = lru[x]
         /\ k \in Cached(lru'[n]) <=> k \in Cached(lru[n]) \/ (call \in Setting /\ e.key = k)
<1>1. /\ \A x \in Node \ {n} : lru'[x] = lru[x]
      /\ \A x : x # e.key => HoldSame(lru'[n], lru[n], x)
      /\ call \in Setting => Cached(lru'[n]) = Cached(lru[n]) \cup {e.key}
  BY WriteEffect
<1>2. k # e.key => (k \in Cached(lru'[n]) <=> k \in Cached(lru[n]))
  BY <1>1 DEF HoldSame
<1> QED BY <1>1, <1>2

LEMMA LiveInvInductive ==
  ASSUME NEW k \in Key \ DeletedKeys,
         NEW m \in Node, NEW s \in Node, Pairs = {<<m, s>>}, Room(m), Room(s),
         Calls \cap {"client-set", "client-del"} = {},
         IInv, PairInv(m, s), LiveInv(k, m, s), [Next]_vars
  PROVE  LiveInv(k, m, s)'
<1> SUFFICES ASSUME spoilt' # "badly" PROVE LiveInv(k, m, s)'
  BY DEF LiveInv
<1>0. m # s /\ DOMAIN lru = Node
  BY ReplicationAssumption DEF IInv, NodesOK
<1>2. spoilt # "badly"
  BY StepIs, SpoiltStays
<1>3. \A c \in Caller : Sends(task[c], k) => k \in Cached(lru[m])
  BY <1>2 DEF LiveInv
<1>4. CASE Beside
  <2>1. task' = task
    BY <1>4 DEF Beside
  <2>2. \A n \in Node : k \in Cached(lru'[n]) <=> k \in Cached(lru[n])
    <3>1. ASSUME NEW x \in Key, lru' = [lru EXCEPT ![Route[x]] = AfterGet(lru[Route[x]], x)],
                 NEW n \in Node
          PROVE  lru'[n].cache = lru[n].cache
      BY <1>0, <3>1, GetKeepsEntries
    <3> QED BY <1>4, <3>1 DEF Beside, Cached
  <2> QED BY <1>2, <1>3, <2>1, <2>2, LiveUntouched
<1>5. ASSUME NEW d \in Caller, OthersWait(d), Steps(d) PROVE LiveInv(k, m, s)'
  <2>0. \A c \in Caller \ {d} : task'[c] = task[c]
    BY <1>5 DEF OthersWait
  <2>1. ASSUME \A n \in Node : k \in Cached(lru'[n]) <=> k \in Cached(lru[n]),
               Owes(task[d], k) => Owes(task'[d], k),
               Sends(task'[d], k) => k \in Cached(lru[m])
        PROVE  LiveInv(k, m, s)'
    <3>1. \A c \in Caller : /\ Owes(task[c], k) => Owes(task'[c], k)
                            /\ Sends(task'[c], k) => k \in Cached(lru[m])
      BY <1>3, <2>0, <2>1
    <3> QED BY <1>2, <2>1, <3>1, LiveUntouched
  <2>2. CASE \/ BeginsWrite(d) \/ BeginsFullSync(d) \/ Fails(d) \/ Ends(d) \/ Prepares(d)
             \/ Renames(d) \/ Appoints(d)
    <3>1. /\ lru' = lru
          /\ Owes(task[d], k) => Owes(task'[d], k)
          /\ Sends(task'[d], k) => k \in Cached(lru[m])
      BY <1>2, <2>2, QuietStepLive
    <3> QED BY <2>1, <3>1
  <2>3. CASE WritesMaster(d)
    <3>1. PICK t, u, e, call : t = task[d] /\ u = task'[d] /\ e = t.entries[1] /\ call = t.call
      OBVIOUS
    <3>2. /\ t.at = "write-master" /\ call \in {"sync-set", "del-both"}
          /\ Becomes(t, u, "lookup", t.todo) /\ PairTask(d, t, m, s) /\ e \in Entry(call)
          /\ lru' = [lru EXCEPT ![t.node] = Applied(call, e, lru[t.node], t.node)]
      BY <2>3, <3>1, CallTaskAt DEF WritesMaster, PairInv, CallPoints
    <3>3. t.node = m /\ Len(t.entries) = 1 /\ (call \notin Setting => e.key # k)
      BY <1>2, <3>1, <3>2 DEF PairTask, Setting
    <3>4. /\ \A x \in Node \ {m} : lru'[x] = lru[x]
          /\ k \in Cached(lru'[m]) <=> k \in Cached(lru[m]) \/ (call \in Setting /\ e.key = k)
      <4>1. lru' = [lru EXCEPT ![m] = Applied(call, e, lru[m], m)]
        BY <3>2, <3>3
      <4>2. e \in Entry(call) /\ (call \notin Setting => e.key # k)
        BY <3>2, <3>3
      <4> QED BY <4>1, <4>2, WriteEffectLive
    <3>5. Owes(u, k) <=> call \in Setting /\ e.key = k
      BY <3>1, <3>2 DEF Owes, Pending, Becomes, Setting
    <3>6. Sends(u, k) => call \in Setting /\ e.key = k
      <4>1. \A i \in 1 .. Len(t.entries) : i = 1
        BY <3>3
      <4> QED BY <3>1, <3>2, <4>1 DEF Sends, Becomes
    <3>7. ~Owes(t, k)
      BY <3>2 DEF Owes, Pending
    <3>8. CASE call \in Setting /\ e.key = k
      <4>1. k \in Cached(lru'[m]) /\ Owes(task'[d], k)
        BY <3>1, <3>4, <3>5, <3>8
      <4> QED BY <4>1 DEF LiveInv
    <3>9. CASE ~(call \in Setting /\ e.key = k)
      <4>1. \A n \in Node : k \in Cached(lru'[n]) <=> k \in Cached(lru[n])
        BY <3>4, <3>9
      <4> QED BY <2>1, <3>1, <3>6, <3>7, <3>9, <4>1
    <3> QED BY <3>8, <3>9
  <2>4. CASE LooksUp(d)
    <3>1. PICK t, u : t = task[d] /\ u = task'[d]
      OBVIOUS
    <3>2. /\ t.at = "lookup" /\ lru' = lru
          /\ u.at = "write-slave" /\ u.call = t.call /\ u.entries = t.entries
      BY <2>4, <3>1 DEF LooksUp, Becomes
    <3>3. (Owes(t, k) => Owes(u, k)) /\ (Sends(u, k) => Sends(t, k))
      BY <3>2 DEF Owes, Pending, Sends
    <3> QED BY <1>3, <2>1, <3>1, <3>2, <3>3
  <2>5. CASE WritesSlave(d)
    <3>1. PICK t, u, call : t = task[d] /\ u = task'[d] /\ call = t.call
      OBVIOUS
    <3> DEFINE at == IF Tail(t.todo) = <<>> THEN "count" ELSE "write-slave"
    <3>2. PICK w : w = Head(t.todo)
      OBVIOUS
    <3>3. /\ t.at = "write-slave" /\ PairTask(d, t, m, s) /\ CallTask(t)
          /\ w.entry \in Entry(call) /\ Becomes(t, u, at, Tail(t.todo))
          /\ lru' = [lru EXCEPT ![w.node] = Applied(call, w.entry, lru[w.node], w.node)]
      BY <2>5, <3>1, <3>2, CallTaskAt DEF WritesSlave, PairInv, CallPoints
    <3>4. w.node = s /\ \E j \in 1 .. Len(t.entries) : w.entry = t.entries[j]
      <4>1. t.todo \in Seq(Write(call)) /\ t.todo # <<>>
        BY <3>1, <3>3 DEF CallTask
      <4>2. PICK todo : todo = t.todo
        OBVIOUS
      <4>3. 1 \in 1 .. Len(todo) /\ Head(todo) = todo[1]
        BY <4>1, <4>2, LenProperties
      <4> QED BY <3>2, <3>3, <4>2, <4>3 DEF PairTask
    <3>5. call \notin Setting => w.entry.key # k
      <4>1. call \notin Setting => call \in {"sync-del", "del-both"}
        BY <3>1, <3>3 DEF CallTask, Calling, Setting
      <4>2. call \notin Setting => w.entry = t.entries[1] /\ t.entries[1].key \in DeletedKeys
        <5>1. call \notin Setting => Len(t.entries) = 1 /\ t.entries[1].key \in DeletedKeys
          BY <3>1, <3>3, <4>1 DEF PairTask
        <5> QED BY <3>4, <5>1
      <4> QED BY <4>2
    <3>6. /\ \A x \in Node \ {s} : lru'[x] = lru[x]
          /\ k \in Cached(lru'[s]) <=>
               k \in Cached(lru[s]) \/ (call \in Setting /\ w.entry.key = k)
      <4>1. PICK e : e = w.entry
        OBVIOUS
      <4>2. lru' = [lru EXCEPT ![s] = Applied(call, e, lru[s], s)]
        BY <3>3, <3>4, <4>1
      <4>3. e \in Entry(call) /\ (call \notin Setting => e.key # k)
        BY <3>3, <3>5, <4>1
      <4>4. /\ \A x \in Node \ {s} : lru'[x] = lru[x]
            /\ k \in Cached(lru'[s]) <=> k \in Cached(lru[s]) \/ (call \in Setting /\ e.key = k)
        BY <4>2, <4>3, WriteEffectLive
      <4> QED BY <4>1, <4>4
    <3>7. Sends(u, k) => Sends(t, k)
      BY <3>3 DEF Becomes, Sends
    <3>8. CASE call \in Setting /\ w.entry.key = k
      <4>1. Sends(t, k)
        BY <3>1, <3>3, <3>4, <3>8 DEF Sends
      <4>2. k \in Cached(lru[m])
        BY <1>3, <3>1, <4>1
      <4>3. k \in Cached(lru'[m]) /\ k \in Cached(lru'[s])
        BY <1>0, <3>6, <3>8, <4>2
      <4> QED BY <4>3 DEF LiveInv
    <3>9. CASE ~(call \in Setting /\ w.entry.key = k)
      <4>1. \A n \in Node : k \in Cached(lru'[n]) <=> k \in Cached(lru[n])
        BY <3>6, <3>9
      <4>2. ~Owes(t, k)
        <5>1. Owes(t, k) => w.entry = t.entries[1]
          BY <2>5, <3>1, <3>2, OneWrite DEF Owes
        <5> QED BY <3>1, <3>9, <5>1 DEF Owes, Setting
      <4>3. Sends(u, k) => k \in Cached(lru[m])
        BY <1>3, <3>1, <3>7
      <4> QED BY <2>1, <3>1, <4>1, <4>2, <4>3
    <3> QED BY <3>8, <3>9
  <2> QED BY <1>5, <2>2, <2>3, <2>4, <2>5 DEF Steps
<1> QED BY <1>4, <1>5, StepIs

\* With room for every key, when no call is going on and none that writes has failed, the
\* slave has exactly the keys the master has, those that are deleted apart: whoever wrote
\* them, in whatever order the writes met, and whatever was fully synced from any node
\* meanwhile (replication.go:143-325).
THEOREM SlaveAlwaysHasTheKeys ==
  ASSUME NEW m \in Node, NEW s \in Node, Pairs = {<<m, s>>}, Room(m), Room(s),
         Calls \cap {"client-set", "client-del"} = {}
  PROVE  Spec => []SameKeysWhenQuiet
<1> DEFINE K == \A k \in Key \ DeletedKeys : LiveInv(k, m, s)
           I == IInv /\ PairInv(m, s) /\ K
<1>1. Init => I
  <2> SUFFICES ASSUME Init, NEW k \in Key \ DeletedKeys PROVE LiveInv(k, m, s)
    BY IInvInitially, PairInvInitially
  <2>1. \A n \in Node : k \notin Cached(lru[n])
    BY DEF Init, EmptyLRU, Cached
  <2>2. \A c \in Caller : ~Sends(task[c], k)
    BY DEF Init, Idle, Sends
  <2> QED BY <2>1, <2>2 DEF LiveInv
<1>2. I /\ [Next]_vars => I'
  <2> SUFFICES ASSUME I, [Next]_vars PROVE I'
    OBVIOUS
  <2>1. IInv' /\ PairInv(m, s)'
    BY IInvInductive, PairInvInductive
  <2>2. ASSUME NEW k \in Key \ DeletedKeys PROVE LiveInv(k, m, s)'
    <3>1. LiveInv(k, m, s)
      OBVIOUS
    <3> QED BY <3>1, LiveInvInductive
  <2> QED BY <2>1, <2>2
<1>3. I => SameKeysWhenQuiet
  <2> SUFFICES ASSUME I, AllIdle, spoilt # "badly", NEW x \in Slaves
               PROVE  Cached(lru[x]) \ DeletedKeys = Cached(lru[rc.masterID]) \ DeletedKeys
    BY DEF SameKeysWhenQuiet
  <2>1. x = s /\ rc.masterID = m
    BY SlavesAre DEF PairInv
  <2>2. Cached(lru[m]) \subseteq Key /\ Cached(lru[s]) \subseteq Key
    BY WellFormedParts DEF IInv, NodesOK, CacheOK
  <2>3. ASSUME NEW k \in Key \ DeletedKeys PROVE k \in Cached(lru[m]) <=> k \in Cached(lru[s])
    <3>1. LiveInv(k, m, s)
      OBVIOUS
    <3>2. \A c \in Caller : ~Owes(task[c], k)
      BY DEF AllIdle, At, Owes, Pending
    <3> QED BY <3>1, <3>2 DEF LiveInv
  <2> QED BY <2>1, <2>2, <2>3
<1> HIDE DEF I
<1> QED BY <1>1, <1>2, <1>3, PTL DEF Spec

-----------------------------------------------------------------------------
(***************************************************************************)
(* A full sync: what has been delivered is not evicted by the rest.        *)
(***************************************************************************)

\* What a write does to the entries and to the order of a cache.
LEMMA SetEffect ==
  ASSUME NEW n \in Node, NEW c, CacheOK(n, c), NEW k \in Key, NEW v \in Value,
         NEW room, room = Capacity[n], NEW d, d = AfterSet(c, k, v, room)
  PROVE  /\ k \in Cached(d) /\ d.cache[k] = v
         /\ \A x \in Cached(d) \ {k} : x \in Cached(c) /\ d.cache[x] = c.cache[x]
         /\ UsedAfter(d) = Latest(UsedAfter(c), k, Cached(d))
         /\ \A x \in Cached(c) \ Cached(d) : /\ Len(c.list) = room
                                             /\ \A y \in Cached(c) : <<x, y>> \notin UsedAfter(c)
<1>1. /\ WellFormed(c, Key, Value) /\ Len(c.list) <= room
      /\ Len(c.list) \in Nat /\ room \in Nat \ {0}
  BY NodeAssumption, WellFormedParts DEF CacheOK
<1>2. CASE k \in Cached(c)
  <2> DEFINE f == [c.cache EXCEPT ![k] = v]
  <2>1. d = [list |-> MoveToFront(c.list, k), cache |-> f]
    BY <1>2 DEF AfterSet, AfterUpdate
  <2>2. DOMAIN f = Cached(c) /\ f[k] = v /\ \A x \in Cached(c) \ {k} : f[x] = c.cache[x]
    BY <1>2 DEF Cached
  <2> HIDE DEF f
  <2>3. UsedAfter([list |-> MoveToFront(c.list, k), cache |-> f]) =
          Latest(UsedAfter(c), k, Cached(c))
    BY <1>1, <1>2, <2>2, MoveUsedAfter
  <2>4. Cached(d) = Cached(c) /\ d.cache = f
    BY <2>1, <2>2 DEF Cached
  <2> QED BY <1>2, <2>1, <2>2, <2>3, <2>4
<1>3. CASE k \notin Cached(c) /\ Len(c.list) < room
  <2>1. d = PushFront(c, k, v)
    BY <1>1, <1>3 DEF AfterSet, AfterInsert, IsFull
  <2>2. k \in Key \ Cached(c)
    BY <1>3
  <2>3. UsedAfter(PushFront(c, k, v)) = Latest(UsedAfter(c), k, Cached(c) \cup {k})
    BY <1>1, <2>2, PushUsedAfter
  <2>4. d.cache = [x \in Cached(c) \cup {k} |-> IF x = k THEN v ELSE c.cache[x]]
    BY <2>1 DEF PushFront
  <2> QED BY <1>3, <2>1, <2>3, <2>4 DEF Cached
<1>4. CASE k \notin Cached(c) /\ Len(c.list) = room
  <2> DEFINE o == c.list[Len(c.list)]
             D == (Cached(c) \ {o}) \cup {k}
             p == PushFront(EvictOldest(c), k, v)
  <2>1. Len(c.list) > 0 /\ c.list # <<>>
    BY <1>1, <1>4
  <2>2. d = p
    BY <1>1, <1>4, <2>1 DEF AfterSet, AfterInsert, IsFull
  <2>3. k \in Key \ Cached(c)
    BY <1>4
  <2>4. p.cache = Joined(c.cache, k, v, D) /\ UsedAfter(p) = Latest(UsedAfter(c), k, D)
    BY <1>1, <2>1, <2>3, InsertAfterEviction
  <2>5. \A x \in Cached(c) : ~Before(c.list, o, x)
    BY <1>1, <2>1, LastIsOldest
  <2>6. \A y \in Cached(c) : <<o, y>> \notin UsedAfter(c)
    BY <2>5, UsedAfterIs
  <2> HIDE DEF o, p
  <2>7. Cached(d) = D /\ d.cache = Joined(c.cache, k, v, D)
    BY <2>2, <2>4 DEF Cached, Joined
  <2>8. \A x \in Cached(c) \ D : x = o
    OBVIOUS
  <2>9. k \in D /\ \A x \in D \ {k} : x \in Cached(c)
    OBVIOUS
  <2> HIDE DEF D
  <2>10. \A x \in D : d.cache[x] = IF x = k THEN v ELSE c.cache[x]
    BY <2>7 DEF Joined
  <2> QED BY <1>4, <2>2, <2>4, <2>6, <2>7, <2>8, <2>9, <2>10
<1> QED BY <1>1, <1>2, <1>3, <1>4

FirstKeys(entries, done) == {entries[j].key : j \in 1 .. done}

\* The first entries are in cache d, used after every other key of it.
Delivered(entries, done, d) ==
  \A i \in 1 .. done :
    /\ entries[i].key \in Cached(d)
    /\ d.cache[entries[i].key] = entries[i].value
    /\ \A y \in Cached(d) \ FirstKeys(entries, done) : <<entries[i].key, y>> \in UsedAfter(d)

Distinct(entries) == \A i, j \in 1 .. Len(entries) : entries[i].key = entries[j].key => i = j

LEMMA FirstKeysCount ==
  ASSUME NEW entries, NEW done \in Nat
  PROVE  /\ IsFiniteSet(FirstKeys(entries, done))
         /\ Cardinality(FirstKeys(entries, done)) <= done
         /\ Cardinality(FirstKeys(entries, done)) \in Nat
<1> DEFINE K == FirstKeys(entries, done)
           f == [j \in 1 .. done |-> entries[j].key]
<1>1. f \in Surjection(1 .. done, K)
  BY DEF Surjection, FirstKeys
<1>2. IsFiniteSet(1 .. done) /\ Cardinality(1 .. done) = done
  <2>1. 1 \in Int /\ done \in Int
    OBVIOUS
  <2>2. IsFiniteSet(1 .. done) /\ Cardinality(1 .. done) = IF 1 > done THEN 0 ELSE done - 1 + 1
    BY <2>1, FS_Interval
  <2> QED BY <2>2
<1> HIDE DEF K, f
<1>3. IsFiniteSet(K) /\ Cardinality(K) <= done
  BY <1>1, <1>2, FS_Surjection
<1>4. Cardinality(K) \in Nat
  BY <1>3, FS_CardinalityType
<1> QED BY <1>3, <1>4 DEF K

\* Cache d is what node n makes of its cache c when it sets entry e.
Sets(n, c, e, d) ==
  e.key \in Key /\ e.value \in Value /\ d = AfterSet(c, e.key, e.value, Capacity[n])

\* The next entry evicts none of those before it: the key used before all others would be
\* one of them only if they were all there is, and they are fewer than there is room for.
LEMMA WriteDelivers ==
  ASSUME NEW n \in Node, NEW c, CacheOK(n, c), NEW entries, Distinct(entries),
         NEW done \in Nat, done + 1 \in 1 .. Len(entries), Len(entries) \in Nat,
         Len(entries) <= Capacity[n], Delivered(entries, done, c),
         NEW d, Sets(n, c, entries[done + 1], d)
  PROVE  Delivered(entries, done + 1, d)
<1> DEFINE F == FirstKeys(entries, done)
<1>0. PICK room, e : room = Capacity[n] /\ e = entries[done + 1] /\ Len(entries) <= room
  OBVIOUS
<1>1. PICK k, v : k = e.key /\ v = e.value /\ k \in Key /\ v \in Value
  BY <1>0 DEF Sets
<1>2. /\ k \in Cached(d) /\ d.cache[k] = v
      /\ \A x \in Cached(d) \ {k} : x \in Cached(c) /\ d.cache[x] = c.cache[x]
      /\ UsedAfter(d) = Latest(UsedAfter(c), k, Cached(d))
      /\ \A x \in Cached(c) \ Cached(d) : /\ Len(c.list) = room
                                          /\ \A y \in Cached(c) : <<x, y>> \notin UsedAfter(c)
  <2>1. d = AfterSet(c, k, v, room)
    BY <1>0, <1>1 DEF Sets
  <2> QED BY <1>0, <1>1, <2>1, SetEffect
<1>3. FirstKeys(entries, done + 1) = F \cup {k}
  <2>1. 1 .. done + 1 = (1 .. done) \cup {done + 1}
    OBVIOUS
  <2> QED BY <1>0, <1>1, <2>1 DEF FirstKeys
<1>4. \A i \in 1 .. done : entries[i].key # k
  <2>1. \A i \in 1 .. done : i \in 1 .. Len(entries) /\ i # done + 1
    OBVIOUS
  <2> QED BY <1>0, <1>1, <2>1 DEF Distinct
<1>5. ASSUME NEW i \in 1 .. done PROVE entries[i].key \in Cached(d)
  <2>1. SUFFICES ASSUME entries[i].key \notin Cached(d) PROVE FALSE
    OBVIOUS
  <2>2. entries[i].key \in Cached(c) \ Cached(d)
    BY <2>1 DEF Delivered
  <2>3. Len(c.list) = room /\ \A y \in Cached(c) : <<entries[i].key, y>> \notin UsedAfter(c)
    BY <1>2, <2>2
  <2>4. Cached(c) \subseteq F
    BY <2>3 DEF Delivered
  <2>5. IsFiniteSet(F) /\ Cardinality(F) <= done /\ Cardinality(F) \in Nat
    BY FirstKeysCount
  <2>6. Cardinality(Cached(c)) = Len(c.list)
    BY CachedCardinality DEF CacheOK
  <2>7. Cardinality(Cached(c)) <= Cardinality(F)
    <3> HIDE DEF F
    <3> QED BY <2>4, <2>5, FS_Subset
  <2>8. room \in Nat
    BY <1>0, NodeAssumption
  <2> HIDE DEF F
  <2> QED BY <1>0, <2>3, <2>5, <2>6, <2>7, <2>8
<1>6. ASSUME NEW i \in 1 .. done, NEW y \in Cached(d) \ (F \cup {k})
      PROVE  <<entries[i].key, y>> \in UsedAfter(d)
  <2>1. y \in Cached(c) \ F
    BY <1>2, <1>6
  <2>2. <<entries[i].key, y>> \in UsedAfter(c)
    BY <2>1 DEF Delivered
  <2>3. entries[i].key \in Cached(d) \ {k} /\ y \in Cached(d) \ {k}
    BY <1>4, <1>5, <1>6
  <2> QED BY <1>2, <2>2, <2>3 DEF Latest
<1>7. \A y \in Cached(d) \ (F \cup {k}) : <<k, y>> \in UsedAfter(d)
  BY <1>2 DEF Latest
<1>8. ASSUME NEW i \in 1 .. done + 1
      PROVE  /\ entries[i].key \in Cached(d)
             /\ d.cache[entries[i].key] = entries[i].value
             /\ \A y \in Cached(d) \ (F \cup {k}) : <<entries[i].key, y>> \in UsedAfter(d)
  <2>1. CASE i = done + 1
    BY <1>0, <1>1, <1>2, <1>7, <2>1
  <2>2. CASE i \in 1 .. done
    <3>1. entries[i].key \in Cached(d) /\ entries[i].key # k
      BY <1>4, <1>5, <2>2
    <3>2. d.cache[entries[i].key] = c.cache[entries[i].key]
      BY <1>2, <3>1
    <3>3. c.cache[entries[i].key] = entries[i].value
      BY <2>2 DEF Delivered
    <3> QED BY <1>6, <2>2, <3>1, <3>2, <3>3
  <2> QED BY <2>1, <2>2
<1> HIDE DEF F
<1> QED BY <1>3, <1>8 DEF Delivered

\* The entries of a full sync that have been written.
Done(t) == Len(t.entries) - Len(t.todo)

\* A full sync with todo left to write on slave x, which cache d is.
Underway(t, x, d) ==
  /\ Done(t) \in Nat
  /\ t.at = "count" => t.todo = <<>>
  /\ \A i \in 1 .. Len(t.todo) :
       t.todo[i].node = x /\ t.todo[i].entry = t.entries[Done(t) + i]
  /\ Delivered(t.entries, Done(t), d)

SyncTask(t) ==
  t.call = "full-sync" =>
    /\ Distinct(t.entries)
    /\ \A p \in Pairs : Len(t.entries) <= Capacity[p[2]]
    /\ t.at \in {"write-slave", "count"} =>
         \E x \in Node : rc.slaveIDs = <<x>> /\ Underway(t, x, lru[x])

SyncInv(c) ==
  /\ rc.slaveIDs = <<>> \/ \E p \in Pairs : rc.slaveIDs = <<p[2]>>
  /\ task[c].at \in CallPoints => SyncTask(task[c])

\* A write of a full sync is that of the next entry.
LEMMA NextWrite ==
  ASSUME NEW t, CallTask(t), t.at = "write-slave", NEW x, NEW d, Underway(t, x, d)
  PROVE  /\ Done(t) \in Nat /\ Done(t) + 1 \in 1 .. Len(t.entries)
         /\ Head(t.todo).node = x /\ Head(t.todo).entry = t.entries[Done(t) + 1]
         /\ Len(Tail(t.todo)) = Len(t.todo) - 1
         /\ Tail(t.todo) = <<>> \/ Len(Tail(t.todo)) > 0
         /\ \A i \in 1 .. Len(Tail(t.todo)) :
              /\ Tail(t.todo)[i].node = x
              /\ Tail(t.todo)[i].entry = t.entries[(Done(t) + 1) + i]
<1>1. PICK todo, W, len, done :
        todo = t.todo /\ W = Write(t.call) /\ len = Len(t.entries) /\ done = Done(t)
  OBVIOUS
<1>2. todo \in Seq(W) /\ todo # <<>> /\ len \in Nat
  BY <1>1, LenProperties DEF CallTask
<1>3. /\ Len(todo) \in Nat /\ Len(todo) > 0 /\ Head(todo) = todo[1]
      /\ Tail(todo) \in Seq(W) /\ Len(Tail(todo)) = Len(todo) - 1
      /\ \A i \in 1 .. Len(Tail(todo)) : Tail(todo)[i] = todo[i + 1]
  BY <1>2, HeadTailProperties, LenProperties
<1>4. Len(Tail(todo)) = 0 => Tail(todo) = <<>>
  BY <1>3, EmptySeq
<1>5. /\ done \in Nat /\ done = len - Len(todo)
      /\ \A i \in 1 .. Len(todo) : todo[i].node = x /\ todo[i].entry = t.entries[done + i]
  BY <1>1 DEF Underway, Done
<1>6. PICK n : n = Len(todo) /\ n \in Nat /\ n > 0 /\ done = len - n
  BY <1>3, <1>5
<1>7. done + 1 \in 1 .. len /\ 1 \in 1 .. n
  BY <1>2, <1>5, <1>6
<1>8. Head(todo).node = x /\ Head(todo).entry = t.entries[done + 1]
  BY <1>3, <1>5, <1>6, <1>7
<1>9. \A i \in 1 .. Len(Tail(todo)) : /\ Tail(todo)[i].node = x
                                      /\ Tail(todo)[i].entry = t.entries[(done + 1) + i]
  <2>1. ASSUME NEW i \in 1 .. Len(Tail(todo))
        PROVE  i + 1 \in 1 .. n /\ done + (i + 1) = (done + 1) + i
    <3>1. Len(Tail(todo)) = n - 1
      BY <1>3, <1>6
    <3>2. done \in Nat /\ i \in 1 .. n - 1
      BY <1>5, <2>1, <3>1
    <3> QED BY <1>6, <3>2
  <2> QED BY <1>3, <1>5, <1>6, <2>1
<1>10. Len(Tail(todo)) = 0 \/ Len(Tail(todo)) > 0
  BY <1>3, <1>6
<1> QED BY <1>1, <1>3, <1>4, <1>5, <1>7, <1>8, <1>9, <1>10

LEMMA SyncInvInductive ==
  ASSUME NEW c, Caller = {c},
         \A p \in Pairs, n \in Node : Capacity[n] <= Capacity[p[2]],
         Calls \cap {"client-get", "client-set", "client-del"} = {},
         IInv, SyncInv(c), [Next]_vars
  PROVE  SyncInv(c)'
<1>1. Beside \/ Steps(c)
  <2>1. ASSUME NEW d \in Caller, Steps(d) PROVE Steps(c)
    <3>1. d = c
      OBVIOUS
    <3> QED BY <2>1, <3>1
  <2> QED BY <2>1, StepIs
<1>2. ASSUME rc'.slaveIDs = rc.slaveIDs, task'[c].at \in CallPoints => SyncTask(task[c])'
      PROVE  SyncInv(c)'
  BY <1>2 DEF SyncInv
<1>3. CASE Beside
  BY <1>3 DEF Beside, SameRoles, SyncInv, SyncTask
<1>4. CASE BeginsWrite(c)
  <2>1. \A n, e : /\ Task("write-master", "sync-set", n, e).call # "full-sync"
                  /\ Task("write-master", "del-both", n, e).call # "full-sync"
                  /\ Task("lookup", "sync-del", n, e).call # "full-sync"
    BY DEF Task
  <2>2. task'[c].call # "full-sync" /\ rc'.slaveIDs = rc.slaveIDs
    BY <1>4, <2>1 DEF BeginsWrite, SameRoles
  <2> QED BY <1>2, <2>2 DEF SyncTask
<1>5. CASE BeginsFullSync(c)
  <2>1. PICK n, entries, u : /\ n \in Node /\ entries = ExportAll(lru[n]) /\ u = task'[c]
                             /\ u = Task("lookup", "full-sync", n, entries)
    BY <1>5 DEF BeginsFullSync
  <2>2. n \in Node /\ CacheOK(n, lru[n])
    BY <2>1 DEF IInv, NodesOK
  <2>3. PICK d : d = lru[n] /\ CacheOK(n, d)
    BY <2>2
  <2>4. /\ Len(entries) = Len(d.list) /\ Len(entries) \in Nat
        /\ \A i \in 1 .. Len(entries) : entries[i].key = d.list[i]
    BY <2>1, <2>2, <2>3, ExportIs
  <2>5. Distinct(entries)
    <3>1. \A i, j \in 1 .. Len(d.list) : d.list[i] = d.list[j] => i = j
      BY <2>3, WellFormedParts DEF CacheOK
    <3> QED BY <2>4, <3>1 DEF Distinct
  <2>6. ASSUME NEW p \in Pairs PROVE Len(entries) <= Capacity[p[2]]
    <3>1. Len(entries) <= Capacity[n] /\ Capacity[n] <= Capacity[p[2]] /\ p[2] \in Node
      BY <2>2, <2>3, <2>4, ReplicationAssumption DEF CacheOK
    <3>2. Capacity[n] \in Nat /\ Capacity[p[2]] \in Nat
      BY <2>2, <3>1, NodeAssumption
    <3> QED BY <2>4, <3>1, <3>2
  <2>7. u.at = "lookup" /\ u.entries = entries
    BY <2>1 DEF Task
  <2>8. SyncTask(u)'
    BY <2>5, <2>6, <2>7 DEF SyncTask
  <2> QED BY <1>2, <1>5, <2>1, <2>8 DEF BeginsFullSync, SameRoles
<1>6. CASE Fails(c) \/ Ends(c) \/ Prepares(c)
  BY <1>2, <1>6 DEF Fails, Ends, Prepares, SameRoles, Idle, RolePoints, CallPoints
<1>7. CASE Renames(c)
  BY <1>2, <1>7 DEF Renames, CallPoints
<1>8. CASE Appoints(c)
  <2>1. \E p \in Pairs : rc'.slaveIDs = <<p[2]>>
    BY <1>8 DEF Appoints
  <2>2. task'[c].at \notin CallPoints
    BY <1>8 DEF Appoints, Idle, CallPoints
  <2> QED BY <2>1, <2>2 DEF SyncInv
<1>9. CASE WritesMaster(c)
  <2>1. task'[c].call # "full-sync"
    BY <1>9 DEF WritesMaster, Becomes
  <2> QED BY <1>2, <1>9, <2>1 DEF WritesMaster, SameRoles, SyncTask
<1>10. CASE LooksUp(c)
  <2>1. PICK t, u : t = task[c] /\ u = task'[c]
    OBVIOUS
  <2>2. PICK x, todo : /\ x \in Node /\ rc.slaveIDs = <<x>>
                       /\ todo = [i \in 1 .. Len(t.entries) |-> [node |-> x, entry |-> t.entries[i]]]
                       /\ Becomes(t, u, "write-slave", todo)
    BY <1>10, <2>1 DEF LooksUp
  <2>3. SyncTask(t) /\ CallTask(t) /\ rc'.slaveIDs = rc.slaveIDs /\ lru' = lru
    BY <1>10, <2>1, CallTaskAt DEF LooksUp, SyncInv, CallPoints, SameRoles
  <2>4. PICK len : len = Len(t.entries) /\ len \in Nat
    BY <2>3, LenProperties DEF CallTask
  <2>5. /\ Len(todo) = len
        /\ \A i \in 1 .. len : todo[i].node = x /\ todo[i].entry = t.entries[0 + i]
    <3>1. todo = [i \in 1 .. len |-> [node |-> x, entry |-> t.entries[i]]]
      BY <2>2, <2>4
    <3> QED BY <2>4, <3>1
  <2>6. Underway(u, x, lru[x])
    <3>1. u.at = "write-slave" /\ u.entries = t.entries /\ u.todo = todo
      BY <2>2 DEF Becomes
    <3>2. Done(u) = 0
      BY <2>4, <2>5, <3>1 DEF Done
    <3>3. Delivered(u.entries, 0, lru[x])
      BY DEF Delivered
    <3> QED BY <2>4, <2>5, <3>1, <3>2, <3>3 DEF Underway
  <2>7. SyncTask(u)'
    <3>1. u.call = t.call /\ u.entries = t.entries
      BY <2>2 DEF Becomes
    <3>2. x \in Node /\ rc'.slaveIDs = <<x>> /\ Underway(u, x, lru'[x])
      BY <2>2, <2>3, <2>6
    <3> QED BY <2>3, <3>1, <3>2 DEF SyncTask
  <2> QED BY <1>2, <2>1, <2>3, <2>7
<1>11. CASE WritesSlave(c)
  <2>1. PICK t, u, e, w, rest : /\ t = task[c] /\ u = task'[c] /\ w = Head(t.todo)
                                /\ e = w.entry /\ rest = Tail(t.todo)
    OBVIOUS
  <2>2. /\ t.at = "write-slave" /\ CallTask(t) /\ SyncTask(t) /\ rc'.slaveIDs = rc.slaveIDs
        /\ w.node \in Node /\ e \in Entry(t.call)
        /\ Becomes(t, u, IF rest = <<>> THEN "count" ELSE "write-slave", rest)
        /\ lru' = [lru EXCEPT ![w.node] = Applied(t.call, e, lru[w.node], w.node)]
    BY <1>11, <2>1, CallTaskAt DEF WritesSlave, SyncInv, CallPoints, SameRoles
  <2>3. CASE t.call # "full-sync"
    <3>1. u.call # "full-sync"
      BY <2>2, <2>3 DEF Becomes
    <3> QED BY <1>2, <2>1, <2>2, <3>1 DEF SyncTask
  <2>4. CASE t.call = "full-sync"
    <3>1. PICK x : x \in Node /\ rc.slaveIDs = <<x>> /\ Underway(t, x, lru[x])
      BY <2>2, <2>4 DEF SyncTask
    <3>2. PICK done, d, f, entries : /\ done = Done(t) /\ d = lru[x]
                                     /\ f = lru'[x] /\ entries = t.entries
      OBVIOUS
    <3>3. /\ done \in Nat /\ done + 1 \in 1 .. Len(entries)
          /\ w.node = x /\ e = entries[done + 1]
          /\ Len(rest) = Len(t.todo) - 1
          /\ rest = <<>> \/ Len(rest) > 0
          /\ \A i \in 1 .. Len(rest) :
               rest[i].node = x /\ rest[i].entry = entries[(done + 1) + i]
      <4>1. CallTask(t) /\ t.at = "write-slave" /\ Underway(t, x, d)
        BY <2>2, <3>1, <3>2
      <4>2. /\ Done(t) \in Nat /\ Done(t) + 1 \in 1 .. Len(t.entries)
            /\ Head(t.todo).node = x /\ Head(t.todo).entry = t.entries[Done(t) + 1]
            /\ Len(Tail(t.todo)) = Len(t.todo) - 1
            /\ Tail(t.todo) = <<>> \/ Len(Tail(t.todo)) > 0
            /\ \A i \in 1 .. Len(Tail(t.todo)) :
                 /\ Tail(t.todo)[i].node = x
                 /\ Tail(t.todo)[i].entry = t.entries[(Done(t) + 1) + i]
        BY <4>1, NextWrite
      <4> QED BY <2>1, <3>2, <4>2
    <3>4. Len(entries) \in Nat /\ Len(t.todo) \in Nat
      BY <2>2, <3>2, LenProperties DEF CallTask
    <3>5. f = AfterSet(d, e.key, e.value, Capacity[x])
      <4>1. DOMAIN lru = Node
        BY DEF IInv, NodesOK
      <4> QED BY <2>2, <2>4, <3>1, <3>2, <3>3, <4>1 DEF Applied, Setting
    <3>6. CacheOK(x, d) /\ Distinct(entries) /\ e.key \in Key /\ e.value \in Value
      BY <2>2, <2>4, <3>1, <3>2 DEF IInv, NodesOK, SyncTask, Entry, Setting
    <3>7. Len(entries) <= Capacity[x]
      <4>1. PICK p \in Pairs : rc.slaveIDs = <<p[2]>>
        BY <3>1 DEF SyncInv
      <4>2. x = p[2]
        BY <3>1, <4>1
      <4> QED BY <2>2, <2>4, <3>2, <4>2 DEF SyncTask
    <3>8. Delivered(entries, done, d)
      BY <3>1, <3>2 DEF Underway
    <3>9. x \in Node /\ Delivered(entries, done + 1, f)
      <4>1. Sets(x, d, entries[done + 1], f)
        BY <3>3, <3>5, <3>6 DEF Sets
      <4> QED BY <3>1, <3>3, <3>4, <3>6, <3>7, <3>8, <4>1, WriteDelivers
    <3>10. u.entries = entries /\ u.todo = rest /\ (u.at = "count" => rest = <<>>)
           /\ u.call = t.call
      BY <2>2, <3>2 DEF Becomes
    <3>11. Done(u) = done + 1
      <4>1. PICK len, n : len = Len(entries) /\ n = Len(t.todo)
        OBVIOUS
      <4>2. Len(u.entries) = len /\ Len(u.todo) = n - 1 /\ done = len - n
        BY <3>2, <3>3, <3>10, <4>1 DEF Done
      <4>3. len \in Nat /\ n \in Nat
        BY <3>4, <4>1
      <4> QED BY <4>2, <4>3 DEF Done
    <3>12. Underway(u, x, f)
      BY <3>3, <3>9, <3>10, <3>11 DEF Underway
    <3>13. x \in Node /\ rc'.slaveIDs = <<x>> /\ Underway(u, x, lru'[x])
      BY <2>2, <3>1, <3>2, <3>12
    <3>14. SyncTask(u)'
      BY <2>2, <3>2, <3>10, <3>13 DEF SyncTask
    <3> QED BY <1>2, <2>1, <2>2, <3>14
  <2> QED BY <2>3, <2>4
<1> QED BY <1>1, <1>3, <1>4, <1>5, <1>6, <1>7, <1>8, <1>9, <1>10, <1>11 DEF Steps

\* With one caller and slaves no smaller than any node, every entry of a full sync that is
\* about to return nil is on the slave with the value that was exported, even when applying
\* the entries made the slave evict: it evicts only what was there before (replication.go:281-325).
THEOREM FullSyncAlwaysDelivers ==
  ASSUME NEW c, Caller = {c},
         \A p \in Pairs, n \in Node : Capacity[n] <= Capacity[p[2]],
         Calls \cap {"client-get", "client-set", "client-del"} = {}
  PROVE  Spec => []FullSyncDelivers
<1> DEFINE I == IInv /\ SyncInv(c)
<1>1. Init => I
  <2> SUFFICES ASSUME Init PROVE SyncInv(c)
    BY IInvInitially
  <2> QED BY DEF Init, NoFields, Idle, SyncInv, CallPoints
<1>2. I /\ [Next]_vars => I'
  <2> SUFFICES ASSUME I, [Next]_vars PROVE I'
    OBVIOUS
  <2>1. IInv'
    BY IInvInductive
  <2>2. SyncInv(c)'
    BY SyncInvInductive
  <2> QED BY <2>1, <2>2
<1>3. I => FullSyncDelivers
  <2> SUFFICES ASSUME I, Through(c, "full-sync"),
                      NEW i \in 1 .. Len(task[c].entries), NEW s \in Slaves
               PROVE  /\ task[c].entries[i].key \in Cached(lru[s])
                      /\ lru[s].cache[task[c].entries[i].key] = task[c].entries[i].value
    BY DEF FullSyncDelivers
  <2>1. PICK t : t = task[c] /\ t.at = "count" /\ t.call = "full-sync"
    BY DEF Through, At
  <2>2. PICK x : x \in Node /\ rc.slaveIDs = <<x>> /\ Underway(t, x, lru[x])
    BY <2>1 DEF SyncInv, SyncTask, CallPoints
  <2>3. s = x
    BY <2>2 DEF Slaves
  <2>4. t.todo = <<>> /\ CallTask(t)
    BY <2>1, <2>2, CallTaskAt DEF Underway, CallPoints
  <2>5. Done(t) = Len(t.entries)
    <3>1. Len(t.entries) \in Nat /\ Len(<<>>) = 0
      BY <2>4, LenProperties DEF CallTask
    <3> QED BY <2>4, <3>1 DEF Done
  <2>6. Delivered(t.entries, Len(t.entries), lru[x])
    BY <2>2, <2>5 DEF Underway
  <2> QED BY <2>1, <2>3, <2>6 DEF Delivered
<1> HIDE DEF I
<1> QED BY <1>1, <1>2, <1>3, PTL DEF Spec
=============================================================================
