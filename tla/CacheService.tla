---------------------------- MODULE CacheService ----------------------------
(***************************************************************************)
(* What the cache promises its TCP clients, without nodes, rings or lists. *)
(* There is one store, and a request takes effect on it in one step, some  *)
(* time between its arrival and its answer, or is refused and has no       *)
(* effect.  Every key has an owner; a write that is new to the store may   *)
(* drop one key of the same owner.  When owners change, the keys that move *)
(* may be lost or found, all others stay; a request that the change has    *)
(* disturbed may be answered and have had no effect.                       *)
(***************************************************************************)
EXTENDS Naturals, FiniteSets

CONSTANTS Key, Value, NoValue, Conn,
          Command,   \* the [cmd, key, value] that clients send
          Owner      \* what an owner can be

VARIABLES owner,     \* owner[k]
          store,     \* partial map from keys to values
          request    \* request[c]: none, waiting, disturbed, or done with an answer

svars == <<owner, store, request>>

Stored == DOMAIN store

Lookup(k) == IF k \in Stored THEN store[k] ELSE NoValue

\* At most one of the keys K is dropped, and nothing else changes.
DropsOneOf(K) ==
  \E D \in SUBSET (K \cap Stored) :
    Cardinality(D) <= 1 /\ store' = [k \in Stored \ D |-> store[k]]

Is(r, state) == [is |-> state, cmd |-> r.cmd, key |-> r.key, value |-> r.value]

Arrives(c) == /\ request[c].is = "none"
              /\ \E r \in Command : request' = [request EXCEPT ![c] = Is(r, "waiting")]
              /\ UNCHANGED <<owner, store>>

Done(c, ok, v) == request' = [request EXCEPT ![c] = [is |-> "done", ok |-> ok, value |-> v]]

Waiting(c, cmd) == request[c].is = "waiting" /\ request[c].cmd = cmd

Reads(c) == /\ Waiting(c, "GET")
            /\ Done(c, TRUE, Lookup(request[c].key))
            /\ UNCHANGED <<owner, store>>

Overwrites(c) ==
  /\ Waiting(c, "SET")
  /\ request[c].key \in Stored
  /\ store' = [store EXCEPT ![request[c].key] = request[c].value]
  /\ Done(c, TRUE, NoValue)
  /\ UNCHANGED owner

Writes(c) ==
  /\ Waiting(c, "SET")
  /\ LET new == request[c].key
         neighbours == {k \in Stored : owner[k] = owner[new]}
     IN  /\ new \notin Stored
         /\ \E D \in SUBSET neighbours :
              /\ Cardinality(D) <= 1
              /\ store' = [k \in (Stored \ D) \cup {new} |->
                             IF k = new THEN request[c].value ELSE store[k]]
  /\ Done(c, TRUE, NoValue)
  /\ UNCHANGED owner

Removes(c) == /\ Waiting(c, "DELETE")
              /\ store' = [k \in Stored \ {request[c].key} |-> store[k]]
              /\ Done(c, TRUE, NoValue)
              /\ UNCHANGED owner

Refused(c) == /\ request[c].is \in {"waiting", "disturbed"}
              /\ Done(c, FALSE, NoValue)
              /\ UNCHANGED <<owner, store>>

\* The request took effect where its key was before; it may have dropped a key there.
Misdirected(c) == /\ request[c].is = "disturbed"
                  /\ \E v \in Value \cup {NoValue} : Done(c, TRUE, v)
                  /\ DropsOneOf({k \in Stored : owner[k] # owner[request[c].key]})
                  /\ UNCHANGED owner

Returns(c) == /\ request[c].is = "done"
              /\ request' = [request EXCEPT ![c] = [is |-> "none"]]
              /\ UNCHANGED <<owner, store>>

\* Owners change.  Keys that keep their owner keep their value or their absence, and a
\* request for one that was not disturbed is not disturbed now.
Moves ==
  /\ owner' # owner /\ owner' \in [Key -> Owner]
  /\ LET stays == {k \in Key : owner'[k] = owner[k]}
     IN  /\ Stored \cap stays = DOMAIN store' \cap stays
         /\ \A k \in Stored \cap stays : store'[k] = store[k]
         /\ \A c \in Conn :
              \/ request'[c] = request[c]
              \/ /\ request[c].is \in {"waiting", "disturbed"}
                 /\ request[c].key \notin stays
                 /\ request'[c] \in {Is(request[c], "waiting"), Is(request[c], "disturbed")}

SInit == /\ owner \in [Key -> Owner]
         /\ store = <<>>
         /\ request = [c \in Conn |-> [is |-> "none"]]

SNext == \/ \E c \in Conn : \/ Arrives(c) \/ Reads(c) \/ Overwrites(c) \/ Writes(c) \/ Removes(c)
                            \/ Refused(c) \/ Misdirected(c) \/ Returns(c)
         \/ Moves

SSpec == SInit /\ [][SNext]_svars
=============================================================================
