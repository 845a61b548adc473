------------------------------- MODULE HashMap -------------------------------
(***************************************************************************)
(* xbpf/src/collections/hash_map.rs: HashMap<K, V>, used by several user   *)
(* space threads at once while eBPF programs change the same map.          *)
(*                                                                         *)
(* The kernel's map is external.  One system call on one key is atomic; it *)
(* is modelled as a chain of entries, since the order in which             *)
(* bpf_map_get_next_key walks the entries, bucket by bucket, with new ones *)
(* at the front of their bucket and a fresh start when the key it is given *)
(* is gone, decides what keys() yields.  Operations of several calls are   *)
(* several steps.                                                          *)
(***************************************************************************)
EXTENDS Integers, Sequences

CONSTANTS
  Clients,      \* user space threads that share the map
  Keys,
  BucketOf,     \* the bucket each key is hashed to
  MaxEntries,   \* max_entries of the map
  MaxWrites,    \* bound on the values written in a behaviour
  MaxCalls,     \* bound on the operations started in a behaviour
  Batches       \* sequences of keys given to insert_batch and remove_batch

Absent == 0            \* no value
NoKey == "no key"

ASSUME HashMapAssumption ==
  /\ BucketOf \in [Keys -> Nat]
  /\ MaxEntries \in Nat \ {0}
  /\ MaxWrites \in Nat /\ MaxCalls \in Nat
  /\ Batches \subseteq Seq(Keys)
  /\ NoKey \notin Keys /\ NoKey \notin Clients

VARIABLES
  chain,      \* the entries of the map, in the order keys() walks them
  lru,        \* was the map made with create_lru?
  frozen,     \* has the map been frozen?
  client,     \* the operation each client is in
  writes,     \* values used so far: every update has a value of its own
  calls,      \* operations started so far
  created,    \* how often each key was added to the map
  claimed,    \* how often insert_new returned true for each key
  consumed    \* how often remove returned a value for each key

counters == <<created, claimed, consumed>>
vars == <<chain, lru, frozen, client, writes, calls, counters>>

Values == 1 .. MaxWrites

Stages == {"idle", "insert", "remove", "keys", "removeBatch", "insertBatch", "returned"}

(* An idle client; the fields are the locals of the operations.            *)
Idle ==
  [op |-> "none", stage |-> "idle",
   key |-> NoKey,      \* the key of the operation, or the key keys() is at
   val |-> Absent,     \* the value to write
   old |-> Absent,     \* the value the first call returned
   gone |-> Absent,    \* the value the second call replaced or removed
   todo |-> <<>>,      \* the keys that were collected or given
   done |-> 0,         \* how many of them the batch has dealt with
   ok |-> TRUE,        \* did the operation succeed?
   alone |-> Keys]     \* the keys nobody else has changed meanwhile

Init ==
  /\ chain = <<>>
  /\ lru \in BOOLEAN
  /\ frozen = FALSE
  /\ client = [c \in Clients |-> Idle]
  /\ writes = 0
  /\ calls = 0
  /\ created = [k \in Keys |-> 0]
  /\ claimed = [k \in Keys |-> 0]
  /\ consumed = [k \in Keys |-> 0]

-----------------------------------------------------------------------------
(***************************************************************************)
(* The kernel's hash map.                                                  *)
(***************************************************************************)

Holds(s, k) == \E i \in DOMAIN s : s[i].key = k

Has(k) == Holds(chain, k)

PositionOf(k) == CHOOSE i \in DOMAIN chain : chain[i].key = k

Lookup(k) == IF Has(k) THEN chain[PositionOf(k)].val ELSE Absent

(* The chain without the entry of k.                                       *)
Without(k) ==
  IF ~Has(k) THEN chain
  ELSE [i \in 1 .. Len(chain) - 1 |-> chain[IF i < PositionOf(k) THEN i ELSE i + 1]]

(* What may be left of a chain when entries are evicted from it: they do   *)
(* not change places.                                                      *)
Ascending(n, m) == {at \in [1 .. n -> 1 .. m] : \A i, j \in 1 .. n : i < j => at[i] < at[j]}

Thinned(s) ==
  UNION {{[i \in 1 .. n |-> s[at[i]]] : at \in Ascending(n, Len(s))} : n \in 0 .. Len(s)}

(* The entries of other keys that an update leaves: all of them, but an    *)
(* LRU map may evict what it likes.                                        *)
Kept(k) == IF lru THEN Thinned(Without(k)) ELSE {Without(k)}

(* The first n entries are those of the buckets before that of k.          *)
BucketBegins(s, k, n) == \A i \in DOMAIN s : i <= n <=> BucketOf[s[i].key] < BucketOf[k]

(* An update puts a new entry first in its bucket, and then takes the old  *)
(* one out.                                                                *)
With(k, v, kept, n) ==
  SubSeq(kept, 1, n) \o <<[key |-> k, val |-> v]>> \o SubSeq(kept, n + 1, Len(kept))

HasRoom == lru \/ Len(chain) < MaxEntries

(* Does bpf_map_update_elem succeed?                                       *)
CanUpdate(k, flag) ==
  CASE flag = "NoExist" -> ~Has(k) /\ HasRoom
    [] flag = "Exist"   -> Has(k)
    [] flag = "Any"     -> Has(k) \/ HasRoom

(* bpf_map_get_next_key, which starts over if the key is gone.             *)
NextKey(k) ==
  LET i == IF Has(k) THEN PositionOf(k) + 1 ELSE 1 IN
  IF i \in DOMAIN chain THEN chain[i].key ELSE NoKey

(* User space may not write to a frozen map.                               *)
MayWrite(k, flag) == ~frozen /\ CanUpdate(k, flag)
MayDelete(k) == ~frozen /\ Has(k)

Create(k, v) ==
  /\ \E kept \in Kept(k) : \E n \in 0 .. Len(kept) :
       /\ Len(kept) < MaxEntries
       /\ BucketBegins(kept, k, n)
       /\ chain' = With(k, v, kept, n)
  /\ created' = IF Has(k) THEN created ELSE [created EXCEPT ![k] = @ + 1]

Remove(k) == chain' = Without(k) /\ UNCHANGED created

(* An LRU map makes room before it looks at the flags.                     *)
FailToCreate(k) ==
  /\ \/ UNCHANGED chain
     \/ lru /\ ~frozen /\ chain' \in {left \in Thinned(chain) : Has(k) => Holds(left, k)}
  /\ UNCHANGED created

-----------------------------------------------------------------------------
(* The entries that are gone after a step.                                 *)
Gone == {k \in Keys : Has(k) /\ ~Holds(chain', k)}

(* Clients other than self no longer have k to themselves, and nobody has  *)
(* what an update of k has evicted.                                        *)
Disturb(clients, k, self) ==
  [c \in Clients |->
     IF clients[c].stage = "idle" THEN clients[c]
     ELSE [clients[c] EXCEPT !.alone = @ \ (IF c = self THEN Gone \ {k} ELSE Gone \cup {k})]]

(* Client c goes on with the locals given, having changed k or nothing.    *)
GoesOn(c, locals) == client' = [client EXCEPT ![c] = locals]
ChangesAndGoesOn(c, k, locals) ==
  client' = Disturb([client EXCEPT ![c] = locals], k, c)

Returns(locals, success) == [locals EXCEPT !.stage = "returned", !.ok = success]

(* A client that is in no operation starts one.                            *)
Calls(c) ==
  /\ client[c].stage \in {"idle", "returned"}
  /\ calls < MaxCalls
  /\ calls' = calls + 1

NewValue == writes < MaxWrites /\ writes' = writes + 1

(* A faulty choice of flags, which overwrites in every case.               *)
SameFlags == [update |-> "Any", insert_new |-> "Any", replace |-> "Any"]

(* update, insert_new and replace: one system call.                        *)
Flags == [update |-> "Any", insert_new |-> "NoExist", replace |-> "Exist"]

UpdateOnce(c, k, op) ==
  /\ Calls(c)
  /\ NewValue
  /\ \/ /\ MayWrite(k, Flags[op])
        /\ Create(k, writes + 1)
        /\ ChangesAndGoesOn(c, k, Idle)
        /\ claimed' = IF op = "insert_new" THEN [claimed EXCEPT ![k] = @ + 1] ELSE claimed
     \/ /\ ~MayWrite(k, Flags[op])
        /\ FailToCreate(k)
        /\ ChangesAndGoesOn(c, NoKey, Idle)
        /\ UNCHANGED claimed
  /\ UNCHANGED <<frozen, consumed>>

(* delete: one system call.                                                *)
Delete(c, k) ==
  /\ Calls(c)
  /\ \/ MayDelete(k) /\ Remove(k) /\ ChangesAndGoesOn(c, k, Idle)
     \/ ~MayDelete(k) /\ GoesOn(c, Idle) /\ UNCHANGED <<chain, created>>
  /\ UNCHANGED <<frozen, writes, claimed, consumed>>

(* insert: get, and then update.                                           *)
InsertLookup(c, k) ==
  /\ Calls(c)
  /\ NewValue
  /\ GoesOn(c, [Idle EXCEPT !.op = "insert", !.stage = "insert", !.key = k,
                            !.val = writes + 1, !.old = Lookup(k)])
  /\ UNCHANGED <<chain, frozen, counters>>

(* A faulty insert that looks the value up after the update.               *)
InsertWriteFirst(c) ==
  LET me == client[c] IN
  /\ me.stage = "insert"
  /\ MayWrite(me.key, "Any")
  /\ Create(me.key, me.val)
  /\ ChangesAndGoesOn(c, me.key, Returns([me EXCEPT !.gone = Lookup(me.key),
                                           !.old = me.val], TRUE))
  /\ UNCHANGED <<frozen, writes, claimed, consumed>>

InsertWrite(c) ==
  LET me == client[c] IN
  /\ me.stage = "insert"
  /\ \/ /\ MayWrite(me.key, "Any")
        /\ Create(me.key, me.val)
        /\ ChangesAndGoesOn(c, me.key, Returns([me EXCEPT !.gone = Lookup(me.key)], TRUE))
     \/ /\ ~MayWrite(me.key, "Any")
        /\ GoesOn(c, Returns(me, FALSE))
        /\ UNCHANGED <<chain, created>>
  /\ UNCHANGED <<frozen, writes, claimed, consumed>>

(* remove: get, and then delete if there was a value.                      *)
RemoveLookup(c, k) ==
  /\ Calls(c)
  /\ GoesOn(c, IF Has(k) THEN [Idle EXCEPT !.op = "remove", !.stage = "remove", !.key = k,
                                           !.old = Lookup(k)]
               ELSE Idle)
  /\ UNCHANGED <<chain, frozen, writes, counters>>

(* A faulty remove that does not look at what delete returned.             *)
RemoveAnyway(c) ==
  LET me == client[c] IN
  /\ me.stage = "remove"
  /\ Remove(me.key)
  /\ ChangesAndGoesOn(c, me.key, Returns([me EXCEPT !.gone = Lookup(me.key)], TRUE))
  /\ consumed' = [consumed EXCEPT ![me.key] = @ + 1]
  /\ UNCHANGED <<frozen, writes, claimed>>

RemoveDelete(c) ==
  LET me == client[c] IN
  /\ me.stage = "remove"
  /\ \/ /\ MayDelete(me.key)
        /\ Remove(me.key)
        /\ ChangesAndGoesOn(c, me.key, Returns([me EXCEPT !.gone = Lookup(me.key)], TRUE))
        /\ consumed' = [consumed EXCEPT ![me.key] = @ + 1]
     \/ /\ ~MayDelete(me.key)
        /\ GoesOn(c, Returns(me, FALSE))
        /\ UNCHANGED <<chain, created, consumed>>
  /\ UNCHANGED <<frozen, writes, claimed>>

(* A faulty walk that asks for the key after the first one to begin with.  *)
KeysStartBehindFirst(c, op) ==
  /\ Calls(c)
  /\ GoesOn(c, [Idle EXCEPT !.op = op, !.stage = "keys",
                            !.key = IF chain = <<>> THEN NoKey ELSE chain[1].key])
  /\ UNCHANGED <<chain, frozen, writes, counters>>

(* len and clear: keys() asks for one key after another.                   *)
KeysStart(c, op) ==
  /\ Calls(c)
  /\ GoesOn(c, [Idle EXCEPT !.op = op, !.stage = "keys"])
  /\ UNCHANGED <<chain, frozen, writes, counters>>

(* A faulty walk that also takes what comes after the last key.            *)
KeysNextUnchecked(c) ==
  LET me == client[c]
      next == NextKey(me.key)
  IN
  /\ me.stage = "keys"
  /\ GoesOn(c, [me EXCEPT !.key = next, !.todo = Append(@, next),
                          !.stage = IF next = NoKey THEN "returned" ELSE @])
  /\ UNCHANGED <<chain, frozen, writes, counters>>

(* A faulty walk that starts over behind the last key.                     *)
KeysNextAround(c) ==
  LET me == client[c] IN
  /\ me.stage = "keys"
  /\ chain # <<>>
  /\ GoesOn(c, [me EXCEPT !.key = NextKey(@)])
  /\ UNCHANGED <<chain, frozen, writes, counters>>

KeysNext(c) ==
  LET me == client[c]
      next == NextKey(me.key)
  IN
  /\ me.stage = "keys"
  /\ GoesOn(c, IF next # NoKey
               THEN [me EXCEPT !.key = next, !.todo = Append(@, next)]
               ELSE IF me.op = "clear" /\ me.todo # <<>>
               THEN [me EXCEPT !.stage = "removeBatch"]
               ELSE Returns(me, TRUE))
  /\ UNCHANGED <<chain, frozen, writes, counters>>

(* remove_batch and insert_batch return at once if they are given nothing. *)
RemoveBatch(c, keys) ==
  /\ Calls(c)
  /\ GoesOn(c, IF keys = <<>> THEN Idle
               ELSE [Idle EXCEPT !.op = "removeBatch", !.stage = "removeBatch", !.todo = keys])
  /\ UNCHANGED <<chain, frozen, writes, counters>>

InsertBatch(c, keys) ==
  /\ Calls(c)
  /\ NewValue
  /\ GoesOn(c, IF keys = <<>> THEN Idle
               ELSE [Idle EXCEPT !.op = "insertBatch", !.stage = "insertBatch",
                                 !.todo = keys, !.val = writes + 1])
  /\ UNCHANGED <<chain, frozen, counters>>

(* A faulty batch that does not advance to the next key.                   *)
SameAgain(me) == IF Len(me.todo) = 1 THEN Returns(me, TRUE) ELSE me

(* The kernel does one key of a batch after another and gives up at the    *)
(* first that fails, without undoing the others.                           *)
OneDone(me) ==
  IF me.done + 1 = Len(me.todo)
  THEN Returns([me EXCEPT !.done = @ + 1], TRUE)
  ELSE [me EXCEPT !.done = @ + 1]

(* A faulty batch that skips the keys that fail.                           *)
SkipFailed(me) == OneDone(me)

(* A faulty batch that does not report the failure.                        *)
GiveUpQuietly(me) == Returns(me, TRUE)

GiveUp(me) == Returns(me, FALSE)

RemoveBatchStep(c) ==
  LET me == client[c]
      k == me.todo[me.done + 1]
  IN
  /\ me.stage = "removeBatch"
  /\ \/ MayDelete(k) /\ Remove(k) /\ ChangesAndGoesOn(c, k, OneDone(me))
     \/ ~MayDelete(k) /\ GoesOn(c, GiveUp(me)) /\ UNCHANGED <<chain, created>>
  /\ UNCHANGED <<frozen, writes, claimed, consumed>>

InsertBatchStep(c) ==
  LET me == client[c]
      k == me.todo[me.done + 1]
  IN
  /\ me.stage = "insertBatch"
  /\ \/ MayWrite(k, "Any") /\ Create(k, me.val) /\ ChangesAndGoesOn(c, k, OneDone(me))
     \/ ~MayWrite(k, "Any") /\ GoesOn(c, GiveUp(me)) /\ UNCHANGED <<chain, created>>
  /\ UNCHANGED <<frozen, writes, claimed, consumed>>

(* freeze fails while a batch is being written.                            *)
Freeze(c) ==
  /\ Calls(c)
  /\ \A d \in Clients :
       client[d].stage \in {"removeBatch", "insertBatch"} => client[d].done = 0
  /\ frozen' = TRUE
  /\ GoesOn(c, Idle)
  /\ UNCHANGED <<chain, writes, counters>>

(* An eBPF program updates or deletes an entry, frozen or not.             *)
ProgramUpdate(k) ==
  /\ NewValue
  /\ CanUpdate(k, "Any")
  /\ Create(k, writes + 1)
  /\ client' = Disturb(client, k, NoKey)
  /\ UNCHANGED <<frozen, calls, claimed, consumed>>

ProgramDelete(k) ==
  /\ Has(k)
  /\ Remove(k)
  /\ client' = Disturb(client, k, NoKey)
  /\ UNCHANGED <<frozen, writes, calls, claimed, consumed>>

-----------------------------------------------------------------------------
Call(c) ==
  \/ \E k \in Keys, op \in DOMAIN Flags : UpdateOnce(c, k, op)
  \/ \E k \in Keys : Delete(c, k) \/ InsertLookup(c, k) \/ RemoveLookup(c, k)
  \/ \E op \in {"len", "clear"} : KeysStart(c, op)
  \/ \E keys \in Batches : RemoveBatch(c, keys) \/ InsertBatch(c, keys)
  \/ Freeze(c)

Continue(c) ==
  /\ \/ InsertWrite(c) \/ RemoveDelete(c) \/ KeysNext(c)
     \/ RemoveBatchStep(c) \/ InsertBatchStep(c)
  /\ UNCHANGED <<calls, lru>>

Next ==
  /\ \/ \E c \in Clients : Call(c) \/ Continue(c)
     \/ \E k \in Keys : ProgramUpdate(k) \/ ProgramDelete(k)
  /\ UNCHANGED lru

Spec == Init /\ [][Next]_vars

(* A thread that is inside an operation keeps running.                     *)
FairSpec == Spec /\ \A c \in Clients : WF_vars(Continue(c))

-----------------------------------------------------------------------------
(***************************************************************************)
(* Properties.                                                             *)
(***************************************************************************)

ClientState ==
  [op : {"none", "insert", "remove", "len", "clear", "removeBatch", "insertBatch"},
   stage : Stages, key : Keys \cup {NoKey}, val : Values \cup {Absent},
   old : Values \cup {Absent}, gone : Values \cup {Absent}, todo : Seq(Keys),
   done : Nat, ok : BOOLEAN, alone : SUBSET Keys]

(* Every variable has its type; a map has at most one entry for a key and  *)
(* at most max_entries of them, in the order of their buckets.             *)
TypeOK ==
  /\ chain \in Seq([key : Keys, val : Values]) /\ Len(chain) <= MaxEntries
  /\ \A i, j \in DOMAIN chain : chain[i].key = chain[j].key => i = j
  /\ \A i, j \in DOMAIN chain : i < j => BucketOf[chain[i].key] <= BucketOf[chain[j].key]
  /\ lru \in BOOLEAN /\ frozen \in BOOLEAN
  /\ client \in [Clients -> ClientState]
  /\ writes \in 0 .. MaxWrites
  /\ calls \in 0 .. MaxCalls
  /\ {created, claimed, consumed} \subseteq [Keys -> Nat]

Returned(c, op) == client[c].stage = "returned" /\ client[c].op = op

(* insert and remove are not atomic, but the value they return is the one  *)
(* they replaced or removed unless somebody else changed the key between   *)
(* their two calls, and remove only fails then or on a frozen map.         *)
ReturnsWhatItReplaced ==
  \A c \in Clients : LET me == client[c] IN
    me.stage = "returned" /\ me.op \in {"insert", "remove"} /\ me.key \in me.alone =>
      IF me.ok THEN me.old = me.gone ELSE frozen \/ me.op = "insert"

(* Threads race for an entry: for every time one comes into being, at most *)
(* one of them is told by insert_new that it made it, and at most one is   *)
(* handed it by remove, also if the kernel evicts it or programs replace   *)
(* it between the two calls of remove.                                     *)
EntriesHaveOneOwner ==
  \A k \in Keys : claimed[k] <= created[k] /\ consumed[k] <= created[k]

(* clear collects the keys first and deletes them afterwards, while        *)
(* entries of other keys come, go and move: if it returns Ok it left no    *)
(* entry of a key that only it could have changed, and it only fails, and  *)
(* leaves entries behind, if the map is frozen or somebody else changed it *)
(* meanwhile.                                                              *)
ClearIsExact ==
  \A c \in Clients : LET me == client[c] IN
    Returned(c, "clear") =>
      IF me.ok THEN \A k \in me.alone : ~Has(k) ELSE frozen \/ me.alone # Keys

(* len counts every entry once unless the map is changed meanwhile.        *)
LenIsExact ==
  \A c \in Clients :
    Returned(c, "len") /\ client[c].alone = Keys => Len(client[c].todo) = Len(chain)

(* insert_batch is not atomic: it writes a prefix of its entries, and all  *)
(* of them if it returns Ok, although an LRU map may have evicted some of  *)
(* them again.                                                             *)
BatchWritesAPrefix ==
  \A c \in Clients : LET me == client[c] IN
    me.op = "insertBatch" =>
      /\ me.stage = "returned" /\ me.ok => me.done = Len(me.todo)
      /\ \A k \in me.alone :
           Lookup(k) = me.val <=> \E i \in 1 .. me.done : me.todo[i] = k

(* Every operation returns, clear and len too, once the other parties stop *)
(* changing the map under them (the number of writes is finite).           *)
OperationsReturn ==
  \A c \in Clients : client[c].stage \notin {"idle", "returned"} ~> client[c].stage = "returned"
=============================================================================
