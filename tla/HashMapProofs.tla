---------------------------- MODULE HashMapProofs ----------------------------
(***************************************************************************)
(* Proofs about HashMap, for any number of threads, keys, entries, values, *)
(* calls and batches.                                                      *)
(*                                                                         *)
(* An operation of several calls is judged by what it returns, but what it *)
(* returns was read earlier.  The inductive invariant says what the locals *)
(* of a client still have to do with the map between two of its calls, for *)
(* the keys nobody else has changed meanwhile: the chain may lose entries  *)
(* and get new ones at the front of a bucket, but those that stay keep     *)
(* their order.                                                            *)
(***************************************************************************)
EXTENDS HashMap, WellFoundedInduction, SequenceTheorems, TLAPS

Elements(s) == {s[i] : i \in DOMAIN s}

(* What a chain says of a key, and the order in which it holds two keys.   *)
Entry(s, k, v) == \E i \in DOMAIN s : s[i].key = k /\ s[i].val = v

Maps(s, k, v) == IF Holds(s, k) THEN Entry(s, k, v) ELSE v = Absent

Before(s, j, k) == \E p, q \in DOMAIN s : p < q /\ s[p].key = j /\ s[q].key = k

OnePerKey(s) == \A i, j \in DOMAIN s : s[i].key = s[j].key => i = j

InBuckets(s) == \A i, j \in DOMAIN s : i < j => BucketOf[s[i].key] <= BucketOf[s[j].key]

Chain(s) == s \in Seq([key : Keys, val : Values]) /\ OnePerKey(s) /\ InBuckets(s)

(* The locals a client has at each stage; it writes no value that has not  *)
(* been used.                                                              *)
Locals(me, w) ==
  /\ me \in ClientState /\ me.val <= w
  /\ me.stage = "idle" => me.op = "none"
  /\ me.stage = "insert" => me.op = "insert" /\ me.key \in Keys /\ me.val # Absent
  /\ me.stage = "remove" => me.op = "remove" /\ me.key \in Keys /\ me.old # Absent
  /\ me.stage = "keys" => me.op \in {"len", "clear"} /\ me.done = 0
  /\ me.stage = "removeBatch" => me.op \in {"clear", "removeBatch"} /\ me.done < Len(me.todo)
  /\ me.stage = "insertBatch" => me.op = "insertBatch" /\ me.done < Len(me.todo)
  /\ me.op = "insertBatch" => me.val # Absent

(* Between the calls of insert and remove nobody else has changed the key, *)
(* or it is no longer the client's alone.                                  *)
OldIsCurrent(me, s) ==
  me.stage \in {"insert", "remove"} /\ me.key \in me.alone => Maps(s, me.key, me.old)

OldWasReplaced(me, fr) ==
  me.stage = "returned" /\ me.op \in {"insert", "remove"} /\ me.key \in me.alone =>
    IF me.ok THEN me.old = me.gone ELSE fr \/ me.op = "insert"

(* A walk that is at m will come to k, even if m goes, in which case the   *)
(* walk starts over, and even if it comes back, at the front of its bucket.*)
IsAhead(s, m, k) ==
  m \in Keys => IF Holds(s, m) THEN Before(s, m, k) ELSE BucketOf[m] <= BucketOf[k]

(* A walk has seen every key of the client's own or will come to it.       *)
WalkMissesNone(me, s) ==
  me.stage = "keys" =>
    \A k \in me.alone : Holds(s, k) => k \in Elements(me.todo) \/ IsAhead(s, me.key, k)

(* A walk nobody disturbs lists the chain from its start.                  *)
WalkIsExact(me, s) ==
  me.stage = "keys" /\ me.alone = Keys =>
    /\ Len(me.todo) <= Len(s)
    /\ \A i \in DOMAIN me.todo : me.todo[i] = s[i].key
    /\ me.key = IF me.todo = <<>> THEN NoKey ELSE me.todo[Len(me.todo)]

LenWasExact(me, s) ==
  me.stage = "returned" /\ me.op = "len" /\ me.alone = Keys => Len(me.todo) = Len(s)

(* What clear has still to delete.                                         *)
StillListed(me, k) == \E i \in DOMAIN me.todo : me.done < i /\ me.todo[i] = k

ClearMissesNone(me, s) ==
  me.stage = "removeBatch" /\ me.op = "clear" =>
    \A k \in me.alone : Holds(s, k) => StillListed(me, k)

ClearFindsAll(me, s) ==
  me.stage = "removeBatch" /\ me.op = "clear" /\ me.alone = Keys =>
    /\ \A i, j \in DOMAIN me.todo : me.todo[i] = me.todo[j] => i = j
    /\ \A i \in DOMAIN me.todo : me.done < i => Holds(s, me.todo[i])

ClearWasExact(me, s, fr) ==
  me.stage = "returned" /\ me.op = "clear" =>
    IF me.ok THEN \A k \in me.alone : ~Holds(s, k) ELSE fr \/ me.alone # Keys

(* The keys a batch has written have its value, and no others do.          *)
BatchIsPrefix(me, s) ==
  me.op = "insertBatch" =>
    /\ me.stage = "returned" /\ me.ok => me.done = Len(me.todo)
    /\ \A k \in me.alone : Entry(s, k, me.val) <=> \E i \in 1 .. me.done : me.todo[i] = k

Sound(me, s, fr, w) ==
  /\ Locals(me, w)
  /\ OldIsCurrent(me, s) /\ OldWasReplaced(me, fr)
  /\ WalkMissesNone(me, s) /\ WalkIsExact(me, s) /\ LenWasExact(me, s)
  /\ ClearMissesNone(me, s) /\ ClearFindsAll(me, s) /\ ClearWasExact(me, s, fr)
  /\ BatchIsPrefix(me, s)

(* An entry was added at least once more than it was handed out by remove  *)
(* if it is there, and no value is in use that has not been written.       *)
Present(k) == IF Has(k) THEN 1 ELSE 0

Counted == \A k \in Keys : claimed[k] <= created[k] /\ consumed[k] + Present(k) <= created[k]

Used == \A i \in DOMAIN chain : chain[i].val <= writes

AllSound == \A c \in Clients : Sound(client[c], chain, frozen, writes)

Inv == TypeOK /\ Counted /\ Used /\ AllSound

(* How one step of anybody changes the map: with k, the key that is        *)
(* updated or deleted, if there is one, other entries at most go.          *)
Changes(s, t, k) ==
  /\ Chain(t)
  /\ \A j \in Keys : j # k => \A v : Entry(t, j, v) => Entry(s, j, v)
  /\ \A i, j \in Keys \ {k} :
       Before(s, i, j) /\ Holds(t, i) /\ Holds(t, j) => Before(t, i, j)
  /\ \A j \in Keys :
       Holds(t, k) /\ j # k /\ Holds(t, j) /\ BucketOf[k] <= BucketOf[j] => Before(t, k, j)
  /\ k \notin Keys /\ (\A j \in Keys : Holds(s, j) => Holds(t, j)) => t = s

-----------------------------------------------------------------------------
(***************************************************************************)
(* Chains.                                                                 *)
(***************************************************************************)

LEMMA SmallestOf ==
  ASSUME NEW S, S \subseteq Nat, S # {}
  PROVE  \E x \in S : \A y \in S : x <= y
<1>1. PICK x \in S : \A y \in S : ~(<<y, x>> \in OpToRel(<, Nat))
  BY NatLessThanWellFounded, WFMin
<1>2. ASSUME NEW y \in S PROVE x <= y
  <2>1. x \in Nat /\ y \in Nat
    OBVIOUS
  <2>2. y < x => <<y, x>> \in OpToRel(<, Nat)
    BY <2>1 DEF OpToRel
  <2>3. ~(y < x)
    BY <1>1, <2>2, Zenon
  <2> QED
    BY <2>1, <2>3
<1> QED
  BY <1>2

LEMMA AsSequence ==
  ASSUME NEW T, NEW n \in Nat, NEW t \in [1 .. n -> T]
  PROVE  t \in Seq(T) /\ Len(t) = n /\ DOMAIN t = 1 .. n
<1>1. t \in Seq(T)
  BY SeqDef
<1> QED
  BY <1>1, LenProperties

LEMMA ChainEntries ==
  ASSUME NEW s, Chain(s)
  PROVE  /\ s \in Seq([key : Keys, val : Values])
         /\ Len(s) \in Nat /\ DOMAIN s = 1 .. Len(s)
         /\ \A i \in DOMAIN s : s[i] \in [key : Keys, val : Values]
         /\ \A i \in DOMAIN s : s[i].key \in Keys /\ s[i].val \in Values
         /\ \A i, j \in DOMAIN s : s[i].key = s[j].key => i = j
         /\ \A i, j \in DOMAIN s : i < j => BucketOf[s[i].key] <= BucketOf[s[j].key]
<1>1. s \in Seq([key : Keys, val : Values]) /\ OnePerKey(s) /\ InBuckets(s)
  BY DEF Chain
<1>2. Len(s) \in Nat /\ DOMAIN s = 1 .. Len(s)
  BY <1>1, LenProperties
<1>3. \A i \in DOMAIN s : s[i] \in [key : Keys, val : Values]
  BY <1>1, <1>2, ElementOfSeq
<1> QED
  BY <1>1, <1>2, <1>3 DEF OnePerKey, InBuckets

(* What is left of a chain are entries of it, in their order.              *)
LEMMA ThinnedPlaces ==
  ASSUME NEW s, Chain(s), NEW t \in Thinned(s)
  PROVE  /\ Chain(t) /\ Len(t) <= Len(s)
         /\ \E at \in [DOMAIN t -> DOMAIN s] :
              /\ \A i \in DOMAIN t : t[i] = s[at[i]]
              /\ \A i, j \in DOMAIN t : i < j => at[i] < at[j]
<1>1. PICK n \in 0 .. Len(s) : t \in {[i \in 1 .. n |-> s[at[i]]] : at \in Ascending(n, Len(s))}
  BY DEF Thinned
<1>2. PICK at \in Ascending(n, Len(s)) : t = [i \in 1 .. n |-> s[at[i]]]
  BY <1>1
<1>3. /\ Len(s) \in Nat /\ DOMAIN s = 1 .. Len(s)
      /\ \A i \in DOMAIN s : s[i] \in [key : Keys, val : Values]
      /\ \A i, j \in DOMAIN s : s[i].key = s[j].key => i = j
      /\ \A i, j \in DOMAIN s : i < j => BucketOf[s[i].key] <= BucketOf[s[j].key]
  BY ChainEntries
<1>4. n \in Nat /\ n <= Len(s) /\ at \in [1 .. n -> 1 .. Len(s)]
  BY <1>3 DEF Ascending
<1>5. \A i, j \in 1 .. n : i < j => at[i] < at[j]
  BY DEF Ascending
<1>7. \A i \in 1 .. n : t[i] = s[at[i]] /\ at[i] \in 1 .. Len(s)
  BY <1>2, <1>4
<1>10. t \in [1 .. n -> [key : Keys, val : Values]]
  BY <1>2, <1>3, <1>7
<1>6. t \in Seq([key : Keys, val : Values]) /\ Len(t) = n /\ DOMAIN t = 1 .. n
  <2> DEFINE T == [key : Keys, val : Values]
  <2>1. n \in Nat /\ t \in [1 .. n -> T]
    BY <1>4, <1>10
  <2> HIDE DEF T
  <2>2. t \in Seq(T) /\ Len(t) = n /\ DOMAIN t = 1 .. n
    BY ONLY <2>1, AsSequence
  <2> QED
    BY <2>2 DEF T
<1>8. OnePerKey(t)
  <2> SUFFICES ASSUME NEW i \in 1 .. n, NEW j \in 1 .. n, t[i].key = t[j].key
               PROVE  i = j
    BY <1>6 DEF OnePerKey
  <2>1. at[i] = at[j]
    BY <1>3, <1>7
  <2>2. ~(i < j) /\ ~(j < i)
    BY <1>5, <1>7, <2>1
  <2> QED
    BY <2>2, <1>4
<1>11. InBuckets(t)
  BY <1>3, <1>5, <1>6, <1>7 DEF InBuckets
<1>9. /\ at \in [DOMAIN t -> DOMAIN s]
      /\ \A i \in DOMAIN t : t[i] = s[at[i]]
      /\ \A i, j \in DOMAIN t : i < j => at[i] < at[j]
  BY <1>3, <1>4, <1>5, <1>6, <1>7
<1> QED
  BY <1>4, <1>6, <1>8, <1>9, <1>11 DEF Chain

(* What has such places in a chain is left of it.                          *)
LEMMA ThinnedBy ==
  ASSUME NEW s, Chain(s), NEW n \in 0 .. Len(s), NEW at \in [1 .. n -> 1 .. Len(s)],
         \A i, j \in 1 .. n : i < j => at[i] < at[j]
  PROVE  [i \in 1 .. n |-> s[at[i]]] \in Thinned(s)
<1>1. at \in Ascending(n, Len(s))
  BY DEF Ascending
<1> QED
  BY <1>1 DEF Thinned

(* Entries keep their values and their order; and if no key is gone,       *)
(* nothing is.                                                             *)
LEMMA ThinnedKeeps ==
  ASSUME NEW s, Chain(s), NEW t \in Thinned(s)
  PROVE  /\ \A k, v : Entry(t, k, v) => Entry(s, k, v)
         /\ \A k : Holds(t, k) => Holds(s, k)
         /\ \A j, k : Before(s, j, k) /\ Holds(t, j) /\ Holds(t, k) => Before(t, j, k)
<1>1. /\ Len(s) \in Nat /\ DOMAIN s = 1 .. Len(s)
      /\ \A i, j \in DOMAIN s : s[i].key = s[j].key => i = j
  BY ChainEntries
<1>2. PICK at \in [DOMAIN t -> DOMAIN s] :
        /\ \A i \in DOMAIN t : t[i] = s[at[i]]
        /\ \A i, j \in DOMAIN t : i < j => at[i] < at[j]
  BY ThinnedPlaces
<1>3. \A i \in DOMAIN t : at[i] \in DOMAIN s
  BY <1>2
<1>4. Len(t) \in Nat /\ DOMAIN t = 1 .. Len(t)
  BY ThinnedPlaces, ChainEntries
<1>5. ASSUME NEW j, NEW k, Before(s, j, k), Holds(t, j), Holds(t, k)
      PROVE  Before(t, j, k)
  <2>1. PICK p \in DOMAIN s, q \in DOMAIN s : p < q /\ s[p].key = j /\ s[q].key = k
    BY <1>5 DEF Before
  <2>2. PICK a \in DOMAIN t : t[a].key = j
    BY <1>5 DEF Holds
  <2>3. PICK b \in DOMAIN t : t[b].key = k
    BY <1>5 DEF Holds
  <2>4. at[a] = p /\ at[b] = q
    BY <1>1, <1>2, <1>3, <2>1, <2>2, <2>3
  <2>5. a < b
    <3>1. a # b /\ ~(b < a)
      BY <1>1, <1>2, <2>1, <2>4
    <3> QED
      BY <3>1, <1>4
  <2> QED
    BY <2>2, <2>3, <2>5 DEF Before
<1>6. ASSUME NEW k, NEW v, Entry(t, k, v) PROVE Entry(s, k, v)
  BY <1>2, <1>3, <1>6 DEF Entry
<1>7. ASSUME NEW k, Holds(t, k) PROVE Holds(s, k)
  BY <1>2, <1>3, <1>7 DEF Holds
<1> QED
  BY <1>5, <1>6, <1>7

LEMMA NothingThinned ==
  ASSUME NEW s, Chain(s), NEW t \in Thinned(s), \A k \in Keys : Holds(s, k) => Holds(t, k)
  PROVE  t = s
<1>1. /\ Len(s) \in Nat /\ DOMAIN s = 1 .. Len(s)
      /\ \A i \in DOMAIN s : s[i].key \in Keys
      /\ \A i, j \in DOMAIN s : s[i].key = s[j].key => i = j
  BY ChainEntries
<1>2. PICK at \in [DOMAIN t -> DOMAIN s] :
        /\ \A i \in DOMAIN t : t[i] = s[at[i]]
        /\ \A i, j \in DOMAIN t : i < j => at[i] < at[j]
  BY ThinnedPlaces
<1>3. Len(t) \in Nat /\ DOMAIN t = 1 .. Len(t) /\ Len(t) <= Len(s)
  BY ThinnedPlaces, ChainEntries
<1>4. \A i \in 1 .. Len(t) : at[i] \in 1 .. Len(s)
  BY <1>1, <1>2, <1>3
<1>5. \A j \in 1 .. Len(s) : \E i \in 1 .. Len(t) : at[i] = j
  <2> SUFFICES ASSUME NEW j \in 1 .. Len(s) PROVE \E i \in 1 .. Len(t) : at[i] = j
    OBVIOUS
  <2>1. Holds(s, s[j].key) /\ s[j].key \in Keys
    BY <1>1 DEF Holds
  <2>2. PICK i \in DOMAIN t : t[i].key = s[j].key
    BY <2>1 DEF Holds
  <2>3. at[i] = j
    BY <1>1, <1>2, <1>3, <1>4, <2>2
  <2> QED
    BY <2>2, <2>3, <1>3
<1>6. \A i \in 1 .. Len(t) : at[i] = i
  <2> DEFINE Moved == {i \in 1 .. Len(t) : at[i] # i}
  <2>1. SUFFICES ASSUME Moved # {} PROVE FALSE
    OBVIOUS
  <2>2. Moved \in SUBSET Nat
    BY <1>3
  <2>3. PICK i \in Moved : \A m \in Moved : i <= m
    BY <2>1, <2>2, SmallestOf
  <2>4. i \in 1 .. Len(t) /\ at[i] # i /\ \A j \in 1 .. Len(t) : j < i => at[j] = j
    BY <2>3, <1>3
  <2>5. ~(at[i] < i)
    <3>1. at[i] \in 1 .. Len(t) /\ at[i] < i => at[at[i]] = at[i] /\ at[at[i]] < at[i]
      BY <2>4, <1>2, <1>3
    <3> QED
      BY <3>1, <2>4, <1>3, <1>4
  <2>6. at[i] > i /\ i \in 1 .. Len(s)
    BY <2>4, <2>5, <1>1, <1>3, <1>4
  <2>7. PICK m \in 1 .. Len(t) : at[m] = i
    BY <2>6, <1>5
  <2>8. i < m
    BY <2>4, <2>6, <2>7, <1>3
  <2> QED
    BY <2>4, <2>6, <2>7, <2>8, <1>2, <1>3
<1>9. Len(t) \in Nat /\ Len(s) \in Nat /\ Len(t) <= Len(s)
  BY <1>1, <1>3
<1>7. Len(t) = Len(s)
  <2>1. Len(s) \in 1 .. Len(s) => Len(s) <= Len(t)
    <3> SUFFICES ASSUME Len(s) \in 1 .. Len(s) PROVE Len(s) <= Len(t)
      OBVIOUS
    <3>1. PICK i \in 1 .. Len(t) : at[i] = Len(s)
      BY <1>5
    <3> QED
      BY <3>1, <1>6
  <2>2. CASE Len(s) = 0
    BY <2>2, <1>3
  <2>3. CASE Len(s) # 0
    <3>1. Len(s) \in 1 .. Len(s)
      BY <2>3, <1>1
    <3>2. Len(s) <= Len(t)
      BY <2>1, <3>1
    <3> QED
      BY <3>2, <1>9
  <2> QED
    BY <2>2, <2>3
<1>8. \A i \in 1 .. Len(s) : t[i] = s[i]
  BY <1>2, <1>3, <1>6, <1>7
<1>10. t \in Seq([key : Keys, val : Values]) /\ s \in Seq([key : Keys, val : Values])
  BY ThinnedPlaces, ChainEntries
<1> QED
  BY <1>1, <1>7, <1>8, <1>10, SeqEqual

(* The chain without the entry of a key.                                   *)
LEMMA WithoutThins ==
  ASSUME Chain(chain), NEW k
  PROVE  /\ Without(k) \in Thinned(chain)
         /\ ~Holds(Without(k), k)
         /\ \A j : j # k /\ Has(j) => Holds(Without(k), j)
         /\ Has(k) => Len(Without(k)) = Len(chain) - 1
<1>1. /\ Len(chain) \in Nat /\ DOMAIN chain = 1 .. Len(chain)
      /\ \A i, j \in DOMAIN chain : chain[i].key = chain[j].key => i = j
      /\ chain \in Seq([key : Keys, val : Values])
  BY ChainEntries
<1>2. CASE ~Has(k)
  <2> DEFINE at == [i \in 1 .. Len(chain) |-> i]
             t == [i \in 1 .. Len(chain) |-> chain[at[i]]]
  <2>1. t \in Thinned(chain)
    <3>1. at \in [1 .. Len(chain) -> 1 .. Len(chain)] /\ Len(chain) \in 0 .. Len(chain)
      BY <1>1
    <3>2. \A i, j \in 1 .. Len(chain) : i < j => at[i] < at[j]
      OBVIOUS
    <3> HIDE DEF at
    <3> QED
      BY <3>1, <3>2, ThinnedBy
  <2>2. t = chain
    BY <1>1
  <2>3. Without(k) = chain
    BY <1>2 DEF Without
  <2> QED
    BY <1>2, <2>1, <2>2, <2>3 DEF Has
<1>3. CASE Has(k)
  <2> DEFINE p == PositionOf(k)
             n == Len(chain) - 1
             at == [i \in 1 .. n |-> IF i < p THEN i ELSE i + 1]
             t == [i \in 1 .. n |-> chain[at[i]]]
  <2>1. p \in 1 .. Len(chain) /\ chain[p].key = k
    BY <1>1, <1>3 DEF Has, Holds, PositionOf
  <2>2. n \in 0 .. Len(chain) /\ n \in Nat
    BY <1>1, <2>1
  <2>3. Without(k) = [i \in 1 .. n |-> chain[IF i < p THEN i ELSE i + 1]]
    BY <1>3 DEF Without
  <2> HIDE DEF p, n
  <2>4. at \in [1 .. n -> 1 .. Len(chain)]
    BY <1>1, <2>1, <2>2 DEF n
  <2>5. \A i, j \in 1 .. n : i < j => at[i] < at[j]
    BY <1>1, <2>1, <2>2
  <2>6. Without(k) = t
    BY <2>3
  <2>7. \A i \in 1 .. n : at[i] # p
    BY <2>1, <2>2
  <2>8. \A j \in 1 .. Len(chain) : j # p => \E i \in 1 .. n : at[i] = j
    <3> SUFFICES ASSUME NEW j \in 1 .. Len(chain), j # p PROVE \E i \in 1 .. n : at[i] = j
      OBVIOUS
    <3>1. CASE j < p
      <4>1. j \in 1 .. n /\ at[j] = j
        BY <3>1, <1>1, <2>1, <2>2 DEF n
      <4> QED
        BY <4>1
    <3>2. CASE j > p
      <4>1. j - 1 \in 1 .. n /\ at[j - 1] = j
        BY <3>2, <1>1, <2>1, <2>2 DEF n
      <4> QED
        BY <4>1
    <3> QED
      BY <3>1, <3>2, <1>1, <2>1
  <2>9. DOMAIN t = 1 .. n /\ \A i \in 1 .. n : t[i] = chain[at[i]] /\ at[i] \in DOMAIN chain
    BY <2>4, <1>1
  <2> HIDE DEF at, t
  <2>10. t \in Thinned(chain)
    BY <2>2, <2>4, <2>5, ThinnedBy DEF t
  <2>11. ~Holds(t, k)
    BY <2>1, <2>7, <2>9, <1>1 DEF Holds
  <2>12. ASSUME NEW j, j # k, Has(j) PROVE Holds(t, j)
    <3>1. PICK q \in 1 .. Len(chain) : chain[q].key = j
      BY <2>12, <1>1 DEF Has, Holds
    <3>2. q # p
      BY <3>1, <2>1, <2>12
    <3>3. PICK i \in 1 .. n : at[i] = q
      BY <3>2, <2>8
    <3> QED
      BY <3>1, <3>3, <2>9 DEF Holds
  <2>13. Len(t) = n
    <3>1. t \in [1 .. n -> {t[i] : i \in 1 .. n}]
      BY <2>9 DEF t
    <3> QED
      BY <3>1, <2>2, AsSequence
  <2> QED
    BY <2>6, <2>10, <2>11, <2>12, <2>13 DEF n
<1> QED
  BY <1>2, <1>3

(* What an update keeps of the other entries.                              *)
LEMMA KeptThins ==
  ASSUME Chain(chain), NEW k, NEW kept \in Kept(k)
  PROVE  /\ Chain(kept) /\ Len(kept) <= Len(chain)
         /\ ~Holds(kept, k)
         /\ \A j, v : Entry(kept, j, v) => Entry(chain, j, v)
         /\ \A j : Holds(kept, j) => Has(j)
         /\ \A i, j : Before(chain, i, j) /\ Holds(kept, i) /\ Holds(kept, j)
                        => Before(kept, i, j)
<1> DEFINE w == Without(k)
<1>1. /\ w \in Thinned(chain) /\ ~Holds(w, k)
  BY WithoutThins
<1> HIDE DEF w
<1>2. /\ Chain(w) /\ Len(w) <= Len(chain)
      /\ \A j, v : Entry(w, j, v) => Entry(chain, j, v)
      /\ \A j : Holds(w, j) => Holds(chain, j)
      /\ \A i, j : Before(chain, i, j) /\ Holds(w, i) /\ Holds(w, j) => Before(w, i, j)
  BY <1>1, ThinnedPlaces, ThinnedKeeps
<1>3. CASE kept = w
  BY <1>1, <1>2, <1>3 DEF Has
<1>4. CASE kept \in Thinned(w)
  <2>1. /\ Chain(kept) /\ Len(kept) <= Len(w)
        /\ \A j, v : Entry(kept, j, v) => Entry(w, j, v)
        /\ \A j : Holds(kept, j) => Holds(w, j)
        /\ \A i, j : Before(w, i, j) /\ Holds(kept, i) /\ Holds(kept, j) => Before(kept, i, j)
    BY <1>2, <1>4, ThinnedPlaces, ThinnedKeeps
  <2>2. Len(kept) <= Len(chain)
    <3>1. Len(kept) \in Nat /\ Len(w) \in Nat /\ Len(chain) \in Nat
      BY <1>2, <2>1, ChainEntries
    <3> QED
      BY <3>1, <1>2, <2>1
  <2> QED
    BY <1>1, <1>2, <2>1, <2>2 DEF Has
<1> QED
  BY <1>3, <1>4 DEF Kept, w

-----------------------------------------------------------------------------
(***************************************************************************)
(* Steps on the map.                                                       *)
(***************************************************************************)

(* Every key of a chain is one of Keys, and has one value.                 *)
LEMMA HoldsEntry ==
  ASSUME NEW s, Chain(s), NEW k
  PROVE  /\ Holds(s, k) => k \in Keys /\ \E v \in Values : Entry(s, k, v)
         /\ \A v : Entry(s, k, v) => Holds(s, k) /\ v \in Values
         /\ \A v, w : Entry(s, k, v) /\ Entry(s, k, w) => v = w
BY ChainEntries DEF Holds, Entry

(* The order of a chain is that of the buckets.                            *)
LEMMA InOrder ==
  ASSUME NEW s, Chain(s), NEW j, NEW k, Before(s, j, k)
  PROVE  BucketOf[j] <= BucketOf[k]
BY ChainEntries DEF Before

(* Two keys of a chain have an order.                                      *)
LEMMA OneIsFirst ==
  ASSUME NEW s, Chain(s), NEW j, NEW k
  PROVE  /\ Before(s, j, k) => ~Before(s, k, j) /\ Holds(s, j) /\ Holds(s, k)
         /\ Holds(s, j) /\ Holds(s, k) /\ j # k => Before(s, j, k) \/ Before(s, k, j)
<1>1. /\ Len(s) \in Nat /\ DOMAIN s = 1 .. Len(s)
      /\ \A a, b \in DOMAIN s : s[a].key = s[b].key => a = b
  BY ChainEntries
<1>2. ASSUME Before(s, j, k) PROVE ~Before(s, k, j) /\ Holds(s, j) /\ Holds(s, k)
  <2>1. PICK p \in DOMAIN s, q \in DOMAIN s : p < q /\ s[p].key = j /\ s[q].key = k
    BY <1>2 DEF Before
  <2>2. ASSUME NEW a \in DOMAIN s, NEW b \in DOMAIN s, a < b, s[a].key = k, s[b].key = j
        PROVE  FALSE
    <3>1. a = q /\ b = p
      BY <1>1, <2>1, <2>2
    <3> QED
      BY <3>1, <1>1, <2>1, <2>2
  <2> QED
    BY <2>1, <2>2 DEF Before, Holds
<1>3. ASSUME Holds(s, j), Holds(s, k), j # k PROVE Before(s, j, k) \/ Before(s, k, j)
  <2>1. PICK p \in DOMAIN s, q \in DOMAIN s : s[p].key = j /\ s[q].key = k
    BY <1>3 DEF Holds
  <2>2. p < q \/ q < p
    BY <1>1, <1>3, <2>1
  <2> QED
    BY <2>1, <2>2 DEF Before
<1> QED
  BY <1>2, <1>3

(* The chain says of a key what Lookup returns.                            *)
LEMMA LookupMaps ==
  ASSUME Chain(chain), NEW k
  PROVE  /\ Maps(chain, k, Lookup(k))
         /\ \A v : Maps(chain, k, v) => v = Lookup(k)
         /\ Lookup(k) \in Values \cup {Absent}
         /\ Has(k) => Lookup(k) \in Values
<1>1. Has(k) => PositionOf(k) \in DOMAIN chain /\ chain[PositionOf(k)].key = k
  BY DEF Has, Holds, PositionOf
<1>2. Has(k) => Entry(chain, k, Lookup(k)) /\ Lookup(k) \in Values
  BY <1>1, ChainEntries DEF Entry, Lookup
<1>3. ~Has(k) => Lookup(k) = Absent
  BY DEF Lookup
<1> QED
  BY <1>2, <1>3, HoldsEntry DEF Maps, Has

(* What is where in a part of a sequence.                                  *)
LEMMA PartOf ==
  ASSUME NEW T, NEW s \in Seq(T), NEW m \in 0 .. Len(s), NEW n \in m .. Len(s),
         NEW l, l = m + 1, NEW u, u = SubSeq(s, l, n)
  PROVE  /\ u \in Seq(T) /\ Len(u) = n - m
         /\ \A i \in 1 .. n - m : u[i] = s[m + i]
<1>1. Len(s) \in Nat /\ m \in Nat /\ n \in Nat /\ m <= n /\ n <= Len(s)
  BY LenProperties
<1>2. \A i \in l .. n : s[i] \in T
  BY <1>1
<1>3. /\ SubSeq(s, l, n) \in Seq(T)
      /\ Len(SubSeq(s, l, n)) = IF l <= n THEN n - l + 1 ELSE 0
      /\ \A i \in 1 .. n - l + 1 : SubSeq(s, l, n)[i] = s[l + i - 1]
  BY ONLY <1>1, <1>2, l = m + 1, SubSeqProperties
<1>4. u \in Seq(T) /\ Len(u) = n - m
  BY ONLY <1>1, <1>3, l = m + 1, u = SubSeq(s, l, n)
<1>5. \A i \in 1 .. n - l + 1 : u[i] = s[l + i - 1]
  BY ONLY <1>3, u = SubSeq(s, l, n)
<1>6. ASSUME NEW i \in 1 .. n - m PROVE u[i] = s[m + i]
  <2>1. i \in 1 .. n - l + 1 /\ l + i - 1 = m + i
    BY ONLY <1>1, i \in 1 .. n - m, l = m + 1
  <2> QED
    BY ONLY <2>1, <1>5
<1> QED
  BY ONLY <1>4, <1>6

(* t is s with e put in behind its first n elements.                       *)
Inserted(t, s, n, e) ==
  t = SubSeq(s, 1, n) \o <<e>> \o SubSeq(s, n + 1, Len(s))

(* What is where in t.                                                     *)
Behind(t, s, n, e) ==
  \A i \in 1 .. Len(s) + 1 :
    t[i] = IF i <= n THEN s[i] ELSE IF i = n + 1 THEN e ELSE s[i - 1]

(* A sequence with an element put in has everything where Behind says.     *)
LEMMA InsertedBehind ==
  ASSUME NEW T, NEW s \in Seq(T), NEW e \in T, NEW n \in 0 .. Len(s),
         NEW t, Inserted(t, s, n, e)
  PROVE  t \in Seq(T) /\ Len(t) = Len(s) + 1 /\ Behind(t, s, n, e)
<1>1. Len(s) \in Nat /\ n \in Nat /\ n <= Len(s) /\ DOMAIN s = 1 .. Len(s)
  BY LenProperties
<1>2. PICK a : a = SubSeq(s, 1, n)
  OBVIOUS
<1>3. PICK b : b = SubSeq(s, n + 1, Len(s))
  OBVIOUS
<1>4. a \in Seq(T) /\ Len(a) = n /\ \A i \in 1 .. n : a[i] = s[i]
  <2>1. 0 \in 0 .. Len(s) /\ n \in 0 .. Len(s) /\ 1 = 0 + 1
    BY <1>1
  <2>2. a \in Seq(T) /\ Len(a) = n - 0 /\ \A i \in 1 .. n - 0 : a[i] = s[0 + i]
    BY ONLY <2>1, <1>2, s \in Seq(T), PartOf
  <2> QED
    BY ONLY <2>2, <1>1
<1>5. b \in Seq(T) /\ Len(b) = Len(s) - n /\ \A i \in 1 .. Len(s) - n : b[i] = s[n + i]
  <2>1. n \in 0 .. Len(s) /\ Len(s) \in n .. Len(s)
    BY <1>1
  <2> QED
    BY ONLY <2>1, <1>3, s \in Seq(T), PartOf
<1>6. PICK c : c = a \o <<e>>
  OBVIOUS
<1>7. <<e>> \in Seq(T) /\ Len(<<e>>) = 1 /\ <<e>>[1] = e
  OBVIOUS
<1>8. /\ c \in Seq(T) /\ Len(c) = n + 1
      /\ \A i \in 1 .. n + 1 : c[i] = IF i <= n THEN s[i] ELSE e
  <2>1. /\ c \in Seq(T) /\ Len(c) = Len(a) + 1
        /\ \A i \in 1 .. Len(a) + 1 : c[i] = IF i <= Len(a) THEN a[i] ELSE <<e>>[i - Len(a)]
    BY <1>4, <1>6, <1>7, ConcatProperties
  <2> QED
    BY <2>1, <1>1, <1>4, <1>7
<1>9. t = c \o b
  BY <1>2, <1>3, <1>6 DEF Inserted
<1>10. /\ t \in Seq(T) /\ Len(t) = Len(c) + Len(b)
       /\ \A i \in 1 .. Len(c) + Len(b) : t[i] = IF i <= Len(c) THEN c[i] ELSE b[i - Len(c)]
  <2>1. c \in Seq(T) /\ b \in Seq(T)
    BY <1>5, <1>8
  <2>2. /\ c \o b \in Seq(T) /\ Len(c \o b) = Len(c) + Len(b)
        /\ \A i \in 1 .. Len(c) + Len(b) :
             (c \o b)[i] = IF i <= Len(c) THEN c[i] ELSE b[i - Len(c)]
    BY ONLY <2>1, ConcatProperties
  <2> QED
    BY ONLY <2>2, <1>9, Zenon
<1>11. Len(t) = Len(s) + 1 /\ Len(c) + Len(b) = Len(s) + 1
  <2>1. Len(t) = Len(c) + Len(b) /\ Len(c) = n + 1 /\ Len(b) = Len(s) - n
    BY ONLY <1>5, <1>8, <1>10
  <2> QED
    BY ONLY <2>1, <1>1
<1>12. ASSUME NEW i \in 1 .. Len(s) + 1
       PROVE  t[i] = IF i <= n THEN s[i] ELSE IF i = n + 1 THEN e ELSE s[i - 1]
  <2>1. t[i] = IF i <= n + 1 THEN c[i] ELSE b[i - (n + 1)]
    <3>1. i \in 1 .. Len(c) + Len(b) /\ Len(c) = n + 1
      BY <1>8, <1>11
    <3> QED
      BY ONLY <3>1, <1>10
  <2>2. CASE i <= n + 1
    <3>1. i \in 1 .. n + 1
      BY <2>2, <1>1
    <3>2. t[i] = IF i <= n THEN s[i] ELSE e
      BY ONLY <3>1, <2>1, <2>2, <1>8
    <3>3. ~(i <= n) => i = n + 1
      BY <3>1, <1>1
    <3> QED
      BY ONLY <3>2, <3>3
  <2>3. CASE ~(i <= n + 1)
    <3>1. i - (n + 1) \in 1 .. Len(s) - n /\ n + (i - (n + 1)) = i - 1
      BY <2>3, <1>1
    <3>2. t[i] = s[i - 1]
      BY <2>1, <2>3, <3>1, <1>5
    <3>3. ~(i <= n) /\ i # n + 1
      BY <2>3, <1>1
    <3> QED
      BY <3>2, <3>3
  <2> QED
    BY <2>2, <2>3
<1> QED
  BY ONLY <1>10, <1>11, <1>12 DEF Behind

LEMMA Pushed ==
  ASSUME HashMapAssumption,
         NEW s, Chain(s), NEW k \in Keys, NEW v \in Values, ~Holds(s, k),
         NEW n \in 0 .. Len(s), BucketBegins(s, k, n), NEW t, t = With(k, v, s, n)
  PROVE  /\ Chain(t) /\ Len(t) = Len(s) + 1
         /\ \A j, w : Entry(t, j, w) <=> (j = k /\ w = v) \/ Entry(s, j, w)
         /\ \A j : Holds(t, j) <=> j = k \/ Holds(s, j)
         /\ \A i, j : Before(s, i, j) => Before(t, i, j)
         /\ \A j : Holds(s, j) /\ BucketOf[k] <= BucketOf[j] => Before(t, k, j)
<1> DEFINE at(i) == IF i <= n THEN i ELSE i + 1
<1>t. PICK T : T = [key : Keys, val : Values]
  OBVIOUS
<1>e. PICK e : e = [key |-> k, val |-> v]
  OBVIOUS
<1>0. /\ Len(s) \in Nat /\ DOMAIN s = 1 .. Len(s) /\ s \in Seq(T)
      /\ \A i \in DOMAIN s : s[i].key \in Keys
      /\ \A i, j \in DOMAIN s : s[i].key = s[j].key => i = j
      /\ \A i, j \in DOMAIN s : i < j => BucketOf[s[i].key] <= BucketOf[s[j].key]
  BY <1>t, ChainEntries
<1>1. n \in Nat /\ n <= Len(s)
  BY <1>0
<1>2. e \in T /\ e.key = k /\ e.val = v
  BY <1>t, <1>e
<1>3. /\ \A j \in Keys : BucketOf[j] \in Nat
      /\ \A i \in DOMAIN s : i <= n <=> BucketOf[s[i].key] < BucketOf[k]
  BY DEF HashMapAssumption, BucketBegins
<1>4. Inserted(t, s, n, e)
  BY <1>e DEF With, Inserted
<1>5. /\ t \in Seq(T) /\ Len(t) = Len(s) + 1 /\ DOMAIN t = 1 .. Len(s) + 1
      /\ \A i \in 1 .. Len(s) + 1 :
           t[i] = IF i <= n THEN s[i] ELSE IF i = n + 1 THEN e ELSE s[i - 1]
  <2>1. n \in 0 .. Len(s) /\ s \in Seq(T) /\ e \in T
    BY <1>0, <1>1, <1>2
  <2>2. t \in Seq(T) /\ Len(t) = Len(s) + 1 /\ Behind(t, s, n, e)
    BY ONLY <2>1, <1>4, InsertedBehind
  <2> QED
    BY ONLY <2>2, LenProperties DEF Behind
<1>6. /\ n + 1 \in DOMAIN t /\ t[n + 1] = e
      /\ \A i \in DOMAIN s : at(i) \in DOMAIN t /\ at(i) # n + 1 /\ t[at(i)] = s[i]
      /\ \A i, j \in DOMAIN s : i < j => at(i) < at(j)
      /\ \A i \in DOMAIN s : n < i => n + 1 < at(i)
  <2>1. n + 1 \in DOMAIN t /\ t[n + 1] = e
    BY <1>0, <1>1, <1>5
  <2>2. ASSUME NEW i \in DOMAIN s
        PROVE  at(i) \in DOMAIN t /\ at(i) # n + 1 /\ t[at(i)] = s[i] /\ (n < i => n + 1 < at(i))
    <3>1. CASE i <= n
      BY <3>1, <1>0, <1>1, <1>5
    <3>2. CASE ~(i <= n)
      <4>1. i + 1 \in 1 .. Len(s) + 1 /\ ~(i + 1 <= n) /\ i + 1 # n + 1 /\ (i + 1) - 1 = i
            /\ n + 1 < i + 1
        BY <3>2, <1>1
      <4> QED
        BY <4>1, <3>2, <1>5
    <3> QED
      BY <3>1, <3>2
  <2>3. ASSUME NEW i \in DOMAIN s, NEW j \in DOMAIN s, i < j PROVE at(i) < at(j)
    BY <2>3, <1>1
  <2> QED
    BY <2>1, <2>2, <2>3
<1>12. ASSUME NEW i \in DOMAIN t PROVE i = n + 1 \/ \E p \in DOMAIN s : i = at(p)
  <2>1. CASE i <= n
    BY <2>1, <1>0, <1>1, <1>5
  <2>2. CASE ~(i <= n) /\ i # n + 1
    <3>1. i - 1 \in DOMAIN s /\ ~(i - 1 <= n) /\ (i - 1) + 1 = i
      BY <2>2, <1>0, <1>1, <1>5
    <3> QED
      BY <3>1
  <2> QED
    BY <2>1, <2>2
<1>13. \A p, q \in DOMAIN s : at(p) < at(q) => p < q
  BY <1>0, <1>1
<1> HIDE DEF at
<1>7. ASSUME NEW j, NEW w PROVE Entry(t, j, w) <=> (j = k /\ w = v) \/ Entry(s, j, w)
  <2>1. ASSUME Entry(t, j, w) PROVE (j = k /\ w = v) \/ Entry(s, j, w)
    <3>1. PICK i \in DOMAIN t : t[i].key = j /\ t[i].val = w
      BY <2>1 DEF Entry
    <3>2. CASE i = n + 1
      BY <3>1, <3>2, <1>2, <1>6
    <3>3. ASSUME NEW p \in DOMAIN s, i = at(p) PROVE Entry(s, j, w)
      BY <3>1, <3>3, <1>6 DEF Entry
    <3> QED
      BY <3>2, <3>3, <1>12
  <2>2. Entry(t, k, v)
    BY <1>2, <1>6 DEF Entry
  <2>3. ASSUME Entry(s, j, w) PROVE Entry(t, j, w)
    <3>1. PICK i \in DOMAIN s : s[i].key = j /\ s[i].val = w
      BY <2>3 DEF Entry
    <3> QED
      BY <3>1, <1>6 DEF Entry
  <2> QED
    BY <2>1, <2>2, <2>3
<1>8. ASSUME NEW j PROVE Holds(t, j) <=> j = k \/ Holds(s, j)
  <2>1. \A i : Holds(i, j) <=> \E w : Entry(i, j, w)
    BY DEF Holds, Entry
  <2> QED
    BY <1>7, <2>1
<1>9. ASSUME NEW i, NEW j, Before(s, i, j) PROVE Before(t, i, j)
  <2>1. PICK p \in DOMAIN s, q \in DOMAIN s : p < q /\ s[p].key = i /\ s[q].key = j
    BY <1>9 DEF Before
  <2>2. at(p) \in DOMAIN t /\ at(q) \in DOMAIN t /\ at(p) < at(q)
    BY <1>6, <2>1
  <2>3. t[at(p)] = s[p] /\ t[at(q)] = s[q]
    BY <1>6
  <2> QED
    BY <2>1, <2>2, <2>3 DEF Before
<1>10. ASSUME NEW j, Holds(s, j), BucketOf[k] <= BucketOf[j] PROVE Before(t, k, j)
  <2>1. PICK i \in DOMAIN s : s[i].key = j
    BY <1>10 DEF Holds
  <2>2. n < i
    <3>1. j \in Keys /\ BucketOf[j] \in Nat /\ BucketOf[k] \in Nat
      BY <1>0, <1>1, <1>3, <2>1
    <3>2. ~(BucketOf[s[i].key] < BucketOf[k])
      BY <3>1, <1>10, <2>1
    <3> QED
      BY <3>2, <1>0, <1>1, <1>3
  <2>3. /\ n + 1 \in DOMAIN t /\ at(i) \in DOMAIN t /\ n + 1 < at(i)
        /\ t[n + 1].key = k /\ t[at(i)].key = j
    BY <1>2, <1>6, <2>1, <2>2
  <2> QED
    BY <2>3 DEF Before
<1>11. OnePerKey(t)
  <2> SUFFICES ASSUME NEW i \in DOMAIN t, NEW j \in DOMAIN t, t[i].key = t[j].key
               PROVE  i = j
    BY DEF OnePerKey
  <2>1. ASSUME NEW p \in DOMAIN s PROVE t[at(p)].key # k
    BY <1>6 DEF Holds
  <2>2. t[n + 1].key = k
    BY <1>2, <1>6
  <2>3. ASSUME NEW p \in DOMAIN s, NEW q \in DOMAIN s, i = at(p), j = at(q) PROVE i = j
    <3>1. s[p].key = s[q].key
      BY <1>6, <2>3
    <3> QED
      BY <3>1, <1>0, <1>1, <2>3
  <2> QED
    BY <2>1, <2>2, <2>3, <1>12
<1>14. InBuckets(t)
  <2> SUFFICES ASSUME NEW i \in DOMAIN t, NEW j \in DOMAIN t, i < j
               PROVE  BucketOf[t[i].key] <= BucketOf[t[j].key]
    BY DEF InBuckets
  <2>1. ASSUME NEW p \in DOMAIN s, NEW q \in DOMAIN s, i = at(p), j = at(q)
        PROVE  BucketOf[t[i].key] <= BucketOf[t[j].key]
    BY <1>0, <1>1, <1>6, <1>13, <2>1
  <2>2. ASSUME NEW q \in DOMAIN s, i = n + 1, j = at(q)
        PROVE  BucketOf[t[i].key] <= BucketOf[t[j].key]
    <3>1. n < q
      BY <1>0, <1>1, <2>2 DEF at
    <3>2. ~(BucketOf[s[q].key] < BucketOf[k])
      BY <3>1, <1>0, <1>1, <1>3
    <3>3. BucketOf[s[q].key] \in Nat /\ BucketOf[k] \in Nat
      BY <1>0, <1>1, <1>3
    <3>4. BucketOf[k] <= BucketOf[s[q].key]
      BY <3>2, <3>3
    <3> QED
      BY <3>4, <1>2, <1>6, <2>2
  <2>3. ASSUME NEW p \in DOMAIN s, i = at(p), j = n + 1
        PROVE  BucketOf[t[i].key] <= BucketOf[t[j].key]
    <3>1. p <= n
      BY <1>0, <1>1, <2>3 DEF at
    <3>2. BucketOf[s[p].key] < BucketOf[k]
      BY <3>1, <1>0, <1>1, <1>3
    <3>3. BucketOf[s[p].key] \in Nat /\ BucketOf[k] \in Nat
      BY <1>0, <1>1, <1>3
    <3>4. BucketOf[s[p].key] <= BucketOf[k]
      BY <3>2, <3>3
    <3> QED
      BY <3>4, <1>2, <1>6, <2>3
  <2>4. ~(i = n + 1 /\ j = n + 1)
    BY <1>0, <1>1
  <2> QED
    BY <2>1, <2>2, <2>3, <2>4, <1>12
<1> QED
  BY <1>t, <1>0, <1>1, <1>5, <1>7, <1>8, <1>9, <1>10, <1>11, <1>14 DEF Chain

LEMMA CreateChanges ==
  ASSUME HashMapAssumption, Chain(chain), NEW k \in Keys, NEW v \in Values, Create(k, v)
  PROVE  /\ Changes(chain, chain', k)
         /\ Len(chain') <= MaxEntries
         /\ \A w : Entry(chain', k, w) <=> w = v
<1>1. PICK kept \in Kept(k) : \E n \in 0 .. Len(kept) :
        Len(kept) < MaxEntries /\ BucketBegins(kept, k, n) /\ chain' = With(k, v, kept, n)
  BY DEF Create
<1>n. PICK n \in 0 .. Len(kept) :
        Len(kept) < MaxEntries /\ BucketBegins(kept, k, n) /\ chain' = With(k, v, kept, n)
  BY <1>1
<1>2. /\ Chain(kept)
      /\ ~Holds(kept, k)
      /\ \A j, w : Entry(kept, j, w) => Entry(chain, j, w)
      /\ \A i, j : Before(chain, i, j) /\ Holds(kept, i) /\ Holds(kept, j)
                     => Before(kept, i, j)
  BY KeptThins
<1>t. PICK t : t = chain'
  OBVIOUS
<1>9. t = With(k, v, kept, n)
  BY <1>n, <1>t
<1>3. /\ Chain(t) /\ Len(t) = Len(kept) + 1
      /\ \A j, w : Entry(t, j, w) <=> (j = k /\ w = v) \/ Entry(kept, j, w)
      /\ \A j : Holds(t, j) <=> j = k \/ Holds(kept, j)
      /\ \A i, j : Before(kept, i, j) => Before(t, i, j)
      /\ \A j : Holds(kept, j) /\ BucketOf[k] <= BucketOf[j] => Before(t, k, j)
  BY <1>2, <1>9, <1>n, Pushed
<1>4. Len(t) <= MaxEntries
  <2>1. Len(kept) \in Nat /\ MaxEntries \in Nat
    BY <1>2, ChainEntries DEF HashMapAssumption
  <2> QED
    BY <2>1, <1>n, <1>3
<1>5. \A w : Entry(t, k, w) <=> w = v
  BY <1>2, <1>3, HoldsEntry
<1>6. Changes(chain, t, k)
  BY <1>2, <1>3 DEF Changes
<1> QED
  BY <1>4, <1>5, <1>6, <1>t

LEMMA RemoveChanges ==
  ASSUME HashMapAssumption, Chain(chain), NEW k \in Keys, Remove(k)
  PROVE  /\ Changes(chain, chain', k)
         /\ Len(chain') <= Len(chain)
         /\ ~Holds(chain', k)
<1> DEFINE t == chain'
<1>1. t \in Thinned(chain) /\ ~Holds(t, k)
  BY WithoutThins DEF Remove
<1> HIDE DEF t
<1>2. /\ Chain(t) /\ Len(t) <= Len(chain)
      /\ \A j, v : Entry(t, j, v) => Entry(chain, j, v)
      /\ \A i, j : Before(chain, i, j) /\ Holds(t, i) /\ Holds(t, j) => Before(t, i, j)
  BY <1>1, ThinnedPlaces, ThinnedKeeps
<1>3. Changes(chain, t, k)
  BY <1>1, <1>2 DEF Changes
<1> QED
  BY <1>1, <1>2, <1>3 DEF t

LEMMA FailToCreateChanges ==
  ASSUME HashMapAssumption, Chain(chain), NEW k \in Keys, FailToCreate(k)
  PROVE  /\ Changes(chain, chain', NoKey)
         /\ Len(chain') <= Len(chain)
<1> DEFINE t == chain'
<1>1. CASE t = chain
  <2>1. Changes(chain, chain, NoKey)
    BY HoldsEntry DEF Changes, HashMapAssumption
  <2>2. Len(chain) \in Nat
    BY ChainEntries
  <2> QED
    BY <1>1, <2>1, <2>2
<1>2. CASE t \in Thinned(chain)
  <2> HIDE DEF t
  <2>1. /\ Chain(t) /\ Len(t) <= Len(chain)
        /\ \A j, v : Entry(t, j, v) => Entry(chain, j, v)
        /\ \A i, j : Before(chain, i, j) /\ Holds(t, i) /\ Holds(t, j) => Before(t, i, j)
    BY <1>2, ThinnedPlaces, ThinnedKeeps
  <2>2. (\A j \in Keys : Holds(chain, j) => Holds(t, j)) => t = chain
    BY <1>2, NothingThinned
  <2>3. ~Holds(t, NoKey)
    BY <2>1, HoldsEntry DEF HashMapAssumption
  <2>4. Changes(chain, t, NoKey)
    BY <2>1, <2>2, <2>3 DEF Changes
  <2> QED
    BY <2>1, <2>4 DEF t
<1> QED
  BY <1>1, <1>2 DEF FailToCreate

-----------------------------------------------------------------------------
(***************************************************************************)
(* What a client may rely on.                                              *)
(***************************************************************************)

LEMMA Narrowed ==
  ASSUME NEW me \in ClientState, NEW S, NEW you, you = [me EXCEPT !.alone = @ \ S]
  PROVE  /\ you \in ClientState
         /\ you.op = me.op /\ you.stage = me.stage /\ you.key = me.key /\ you.val = me.val
         /\ you.old = me.old /\ you.gone = me.gone /\ you.todo = me.todo
         /\ you.done = me.done /\ you.ok = me.ok
         /\ you.alone = me.alone \ S
BY DEF ClientState

LEMMA FieldTypes ==
  ASSUME NEW me \in ClientState
  PROVE  /\ me.stage \in Stages /\ me.key \in Keys \cup {NoKey}
         /\ me.val \in Values \cup {Absent} /\ me.old \in Values \cup {Absent}
         /\ me.gone \in Values \cup {Absent}
         /\ me.todo \in Seq(Keys) /\ me.done \in Nat
         /\ me.ok \in BOOLEAN /\ me.alone \in SUBSET Keys
         /\ Len(me.todo) \in Nat /\ DOMAIN me.todo = 1 .. Len(me.todo)
         /\ \A i \in DOMAIN me.todo : me.todo[i] \in Keys
<1>1. me.todo \in Seq(Keys)
  BY DEF ClientState
<1>2. Len(me.todo) \in Nat /\ DOMAIN me.todo = 1 .. Len(me.todo)
  BY <1>1, LenProperties
<1>3. \A i \in DOMAIN me.todo : me.todo[i] \in Keys
  BY <1>1, <1>2, ElementOfSeq
<1> QED
  BY <1>1, <1>2, <1>3 DEF ClientState

(* A change does not reach the keys that are neither gone nor changed.     *)
LEMMA OutOfReach ==
  ASSUME NEW s, Chain(s), NEW t, NEW k, Changes(s, t, k),
         NEW j \in Keys, j # k, Holds(s, j) => Holds(t, j)
  PROVE  /\ Holds(s, j) <=> Holds(t, j)
         /\ \A v : Entry(s, j, v) <=> Entry(t, j, v)
         /\ \A v : Maps(s, j, v) <=> Maps(t, j, v)
<1>1. Chain(t) /\ \A v : Entry(t, j, v) => Entry(s, j, v)
  BY DEF Changes
<1>2. Holds(t, j) => Holds(s, j)
  BY <1>1, HoldsEntry
<1>3. ASSUME NEW v, Entry(s, j, v) PROVE Entry(t, j, v)
  <2>1. Holds(t, j)
    BY <1>3, HoldsEntry
  <2>2. PICK w : Entry(t, j, w)
    BY <2>1, <1>1, HoldsEntry
  <2>3. Entry(s, j, w)
    BY <2>2, <1>1
  <2>4. w = v
    BY <1>3, <2>3, HoldsEntry
  <2> QED
    BY <2>2, <2>4
<1> QED
  BY <1>1, <1>2, <1>3 DEF Maps

(* What somebody else does leaves a client with less of its own, but what  *)
(* it relies on holds for the rest.                                        *)
LEMMA OthersSound ==
  ASSUME HashMapAssumption, NEW s, Chain(s), NEW t, NEW k, Changes(s, t, k),
         NEW me, NEW fr, NEW w, Sound(me, s, fr, w),
         NEW S, S = {j \in Keys : Holds(s, j) /\ ~Holds(t, j)} \cup {k}
  PROVE  Sound([me EXCEPT !.alone = @ \ S], t, fr, w)
<1>y. PICK you : you = [me EXCEPT !.alone = @ \ S]
  OBVIOUS
<1>1. me \in ClientState
  BY DEF Sound, Locals
<1>2. /\ you \in ClientState
      /\ you.op = me.op /\ you.stage = me.stage /\ you.key = me.key /\ you.val = me.val
      /\ you.old = me.old /\ you.gone = me.gone /\ you.todo = me.todo
      /\ you.done = me.done /\ you.ok = me.ok
      /\ you.alone = me.alone \ S
  BY ONLY <1>1, <1>y, Narrowed
<1>3. me.alone \subseteq Keys /\ me.key \in Keys \cup {NoKey}
  BY <1>1, FieldTypes
<1>4. ASSUME NEW j \in you.alone
      PROVE  /\ j \in Keys /\ j \in me.alone /\ j # k
             /\ Holds(s, j) <=> Holds(t, j)
             /\ \A v : Entry(s, j, v) <=> Entry(t, j, v)
             /\ \A v : Maps(s, j, v) <=> Maps(t, j, v)
  <2>1. j \in Keys /\ j \in me.alone /\ j # k /\ (Holds(s, j) => Holds(t, j))
    BY <1>2, <1>3
  <2> QED
    BY <2>1, OutOfReach
<1>5. you.alone = Keys => me.alone = Keys /\ t = s
  <2> SUFFICES ASSUME you.alone = Keys PROVE me.alone = Keys /\ t = s
    OBVIOUS
  <2>1. me.alone = Keys /\ k \notin Keys
    BY <1>2, <1>3
  <2>2. \A j \in Keys : Holds(s, j) => Holds(t, j)
    BY <1>4
  <2> QED
    BY <2>1, <2>2 DEF Changes
<1>6. Locals(you, w)
  BY <1>2 DEF Sound, Locals
<1>7. OldIsCurrent(you, t)
  BY <1>2, <1>4 DEF Sound, OldIsCurrent
<1>8. OldWasReplaced(you, fr)
  BY <1>2, <1>4 DEF Sound, OldWasReplaced
<1>9. WalkMissesNone(you, t)
  <2> SUFFICES ASSUME me.stage = "keys", NEW j \in you.alone, Holds(t, j),
                      j \notin Elements(me.todo), me.key \in Keys
               PROVE  IF Holds(t, me.key) THEN Before(t, me.key, j)
                      ELSE BucketOf[me.key] <= BucketOf[j]
    BY <1>2 DEF WalkMissesNone, IsAhead
  <2>1. Chain(t)
    BY DEF Changes
  <2>4. IF Holds(s, me.key) THEN Before(s, me.key, j) ELSE BucketOf[me.key] <= BucketOf[j]
    BY <1>4 DEF Sound, WalkMissesNone, IsAhead
  <2>5. BucketOf[me.key] <= BucketOf[j]
    BY <2>4, InOrder
  <2>2. CASE me.key = k
    BY <2>2, <2>5, <1>4 DEF Changes
  <2>3. CASE me.key # k
    <3>1. Holds(t, me.key) => Holds(s, me.key)
      BY <2>1, <2>3, HoldsEntry DEF Changes
    <3>3. me.key \in Keys \ {k} /\ j \in Keys \ {k}
      BY <2>3, <1>4
    <3> QED
      BY <2>1, <2>4, <2>5, <3>1, <3>3, <1>4 DEF Changes
  <2> QED
    BY <2>2, <2>3
<1>10. WalkIsExact(you, t)
  BY <1>2, <1>5 DEF Sound, WalkIsExact
<1>11. LenWasExact(you, t)
  BY <1>2, <1>5 DEF Sound, LenWasExact
<1>12. ClearMissesNone(you, t)
  BY <1>2, <1>4 DEF Sound, ClearMissesNone, StillListed
<1>13. ClearFindsAll(you, t)
  BY <1>2, <1>5 DEF Sound, ClearFindsAll
<1>14. ClearWasExact(you, t, fr)
  BY <1>2, <1>4, <1>5 DEF Sound, ClearWasExact
<1>15. BatchIsPrefix(you, t)
  BY <1>2, <1>4 DEF Sound, BatchIsPrefix
<1> QED
  BY <1>y, <1>6, <1>7, <1>8, <1>9, <1>10, <1>11, <1>12, <1>13, <1>14, <1>15 DEF Sound

(* Values are used and maps are frozen without a client being concerned.   *)
LEMMA LaterSound ==
  ASSUME NEW me, NEW s, NEW fr, NEW fr2, fr => fr2, NEW w \in Nat, NEW w2 \in Nat, w <= w2,
         Sound(me, s, fr, w)
  PROVE  Sound(me, s, fr2, w2)
<1>1. me.val <= w2
  <2>1. me.val \in Nat /\ me.val <= w
    BY DEF Sound, Locals, ClientState, Values, Absent
  <2> QED
    BY <2>1
<1>2. Locals(me, w2)
  BY <1>1 DEF Sound, Locals
<1>3. OldWasReplaced(me, fr2)
  BY DEF Sound, OldWasReplaced
<1>4. ClearWasExact(me, s, fr2)
  BY DEF Sound, ClearWasExact
<1> QED
  BY <1>2, <1>3, <1>4 DEF Sound

LEMMA IdleFields ==
  /\ Idle \in ClientState
  /\ Idle.op = "none" /\ Idle.stage = "idle" /\ Idle.key = NoKey /\ Idle.val = Absent
  /\ Idle.old = Absent /\ Idle.gone = Absent /\ Idle.todo = <<>>
  /\ Idle.done = 0 /\ Idle.ok = TRUE /\ Idle.alone = Keys
<1>1. <<>> \in Seq(Keys)
  BY EmptySeq
<1> QED
  BY <1>1 DEF Idle, ClientState, Stages

LEMMA IdleSound ==
  ASSUME NEW s, NEW fr, NEW w \in Nat
  PROVE  Sound(Idle, s, fr, w)
BY IdleFields DEF Sound, Locals, Absent, OldIsCurrent, OldWasReplaced, WalkMissesNone,
     WalkIsExact, LenWasExact, ClearMissesNone, ClearFindsAll, ClearWasExact, BatchIsPrefix

(* A client that has returned from insert or remove.                       *)
LEMMA ReturnedSound ==
  ASSUME NEW me, NEW s, NEW fr, NEW w, Locals(me, w), OldWasReplaced(me, fr),
         me.stage = "returned", me.op \in {"insert", "remove"}
  PROVE  Sound(me, s, fr, w)
BY DEF Sound, OldIsCurrent, WalkMissesNone, WalkIsExact, LenWasExact,
     ClearMissesNone, ClearFindsAll, ClearWasExact, BatchIsPrefix

-----------------------------------------------------------------------------
(***************************************************************************)
(* Steps.                                                                  *)
(***************************************************************************)

LEMMA InvFacts ==
  ASSUME HashMapAssumption, Inv
  PROVE  /\ Chain(chain) /\ Len(chain) \in Nat /\ Len(chain) <= MaxEntries
         /\ writes \in Nat /\ writes <= MaxWrites /\ MaxWrites \in Nat
         /\ calls \in Nat /\ calls <= MaxCalls /\ MaxCalls \in Nat
         /\ lru \in BOOLEAN /\ frozen \in BOOLEAN
         /\ client \in [Clients -> ClientState]
         /\ \A c \in Clients : Sound(client[c], chain, frozen, writes)
         /\ created \in [Keys -> Nat] /\ claimed \in [Keys -> Nat] /\ consumed \in [Keys -> Nat]
         /\ \A k \in Keys : claimed[k] <= created[k] /\ consumed[k] + Present(k) <= created[k]
<1>1. Chain(chain)
  BY DEF Inv, TypeOK, Chain, OnePerKey, InBuckets
<1> QED
  BY <1>1, ChainEntries DEF Inv, TypeOK, AllSound, Counted, HashMapAssumption

(* The type and the counters of a state, and what its clients rely on.     *)
Parts ==
  /\ Chain(chain) /\ Len(chain) <= MaxEntries /\ Used
  /\ lru \in BOOLEAN /\ frozen \in BOOLEAN /\ writes \in 0 .. MaxWrites /\ calls \in 0 .. MaxCalls
  /\ client \in [Clients -> ClientState] /\ AllSound
  /\ created \in [Keys -> Nat] /\ claimed \in [Keys -> Nat] /\ consumed \in [Keys -> Nat]
  /\ Counted

LEMMA InvFrom == Parts => Inv
BY DEF Parts, Inv, TypeOK, Chain, OnePerKey, InBuckets

(* A step of client c that leaves the map as it is.                        *)
LEMMA GoesOnInv ==
  ASSUME HashMapAssumption, Inv, UNCHANGED <<chain, lru, counters>>,
         frozen' \in BOOLEAN, frozen => frozen',
         writes' \in 0 .. MaxWrites, writes <= writes', calls' \in 0 .. MaxCalls,
         NEW c \in Clients, NEW locals, GoesOn(c, locals),
         Sound(locals, chain, frozen', writes')
  PROVE  Inv'
<1>1. /\ Chain(chain) /\ Len(chain) <= MaxEntries
      /\ writes \in Nat /\ MaxWrites \in Nat /\ lru \in BOOLEAN
      /\ client \in [Clients -> ClientState]
      /\ \A d \in Clients : Sound(client[d], chain, frozen, writes)
      /\ created \in [Keys -> Nat] /\ claimed \in [Keys -> Nat] /\ consumed \in [Keys -> Nat]
  BY InvFacts
<1>2. locals \in ClientState
  BY DEF Sound, Locals
<1>3. client' = [client EXCEPT ![c] = locals]
  BY DEF GoesOn
<1>4. ASSUME NEW d \in Clients PROVE Sound(client'[d], chain, frozen', writes')
  <2>1. CASE d = c
    BY <1>1, <1>3, <2>1
  <2>2. CASE d # c
    <3>1. client'[d] = client[d]
      BY <1>1, <1>3, <2>2
    <3>2. writes' \in Nat
      BY <1>1
    <3> QED
      BY <1>1, <3>1, <3>2, LaterSound
  <2> QED
    BY <2>1, <2>2
<1>5. AllSound' /\ chain' = chain
  BY <1>4 DEF AllSound
<1>6. client' \in [Clients -> ClientState]
  BY <1>1, <1>2, <1>3
<1>7. Used'
  <2>1. \A i \in DOMAIN chain : chain[i].val \in Nat /\ chain[i].val <= writes
    BY <1>1, ChainEntries DEF Inv, Used, Values
  <2>2. \A i \in DOMAIN chain : chain[i].val <= writes'
    BY <2>1, <1>1
  <2> QED
    BY <2>2, <1>5 DEF Used
<1>8. Counted'
  <2>1. /\ created' = created /\ claimed' = claimed /\ consumed' = consumed
        /\ Counted
    BY DEF Inv, counters
  <2> QED
    BY <2>1, <1>5 DEF Counted, Present, Has
<1>9. /\ Chain(chain)' /\ (Len(chain) <= MaxEntries)' /\ lru' \in BOOLEAN
      /\ created' \in [Keys -> Nat] /\ claimed' \in [Keys -> Nat] /\ consumed' \in [Keys -> Nat]
  BY <1>1, <1>5 DEF counters
<1>10. writes' \in 0 .. MaxWrites /\ calls' \in 0 .. MaxCalls /\ frozen' \in BOOLEAN
  OBVIOUS
<1>11. Parts'
  BY <1>5, <1>6, <1>7, <1>8, <1>9, <1>10 DEF Parts
<1> QED
  BY <1>11, InvFrom, PTL

(* What is a client's own after it has itself changed k.                   *)
Mine(me, k) ==
  IF me.stage = "idle" THEN me ELSE [me EXCEPT !.alone = @ \ (Gone \ {k})]

(* A step of self, a client or a program, that changes the map.            *)
LEMMA ChangesInv ==
  ASSUME HashMapAssumption, Inv, UNCHANGED <<lru, frozen>>,
         NEW k \in Keys \cup {NoKey}, Changes(chain, chain', k), (Len(chain) <= MaxEntries)', Used',
         writes' \in 0 .. MaxWrites, writes <= writes', calls' \in 0 .. MaxCalls,
         NEW self, NEW before \in [Clients -> ClientState],
         \A c \in Clients : c # self => before[c] = client[c],
         self \in Clients => Sound(Mine(before[self], k), chain', frozen, writes'),
         client' = Disturb(before, k, self),
         created' \in [Keys -> Nat], claimed' \in [Keys -> Nat], consumed' \in [Keys -> Nat],
         Counted'
  PROVE  Inv'
<1>1. /\ Chain(chain) /\ lru \in BOOLEAN /\ frozen \in BOOLEAN
      /\ writes \in Nat /\ MaxWrites \in Nat
      /\ \A d \in Clients : Sound(client[d], chain, frozen, writes)
  BY InvFacts
<1>2. writes' \in Nat
  BY <1>1
<1>3. /\ client' = [c \in Clients |-> client'[c]]
      /\ \A d \in Clients :
           client'[d] =
             IF before[d].stage = "idle" THEN before[d]
             ELSE [before[d] EXCEPT !.alone = @ \ (IF d = self THEN Gone \ {k} ELSE Gone \cup {k})]
  BY DEF Disturb
<1>4. ASSUME NEW d \in Clients PROVE Sound(client'[d], chain', frozen, writes')
  <2>1. CASE d = self
    BY <1>3, <2>1 DEF Mine
  <2>2. CASE d # self /\ before[d].stage # "idle"
    <3> DEFINE S == {j \in Keys : Holds(chain, j) /\ ~Holds(chain', j)} \cup {k}
    <3>1. before[d] = client[d] /\ Sound(client[d], chain, frozen, writes)
      BY <1>1, <2>2
    <3>2. S = Gone \cup {k}
      BY DEF Gone, Has
    <3>3. client'[d] = [client[d] EXCEPT !.alone = @ \ S]
      BY <1>3, <2>2, <3>1, <3>2
    <3>4. Sound([client[d] EXCEPT !.alone = @ \ S], chain', frozen, writes)
      BY <1>1, <3>1, OthersSound
    <3>5. Sound(client'[d], chain', frozen, writes)
      BY <3>3, <3>4
    <3> QED
      BY <3>5, <1>1, <1>2, LaterSound
  <2>3. CASE d # self /\ before[d].stage = "idle"
    <3>1. client'[d] = client[d] /\ client[d].stage = "idle"
      BY <1>3, <2>3
    <3>2. Sound(client[d], chain, frozen, writes)
      BY <1>1
    <3>3. client[d].op = "insertBatch" => FALSE
      BY <3>1, <3>2 DEF Sound, Locals
    <3>4. Sound(client[d], chain', frozen, writes)
      BY <3>1, <3>2, <3>3 DEF Sound, OldIsCurrent, OldWasReplaced, WalkMissesNone, WalkIsExact,
           LenWasExact, ClearMissesNone, ClearFindsAll, ClearWasExact, BatchIsPrefix
    <3> QED
      BY <3>1, <3>4, <1>1, <1>2, LaterSound
  <2> QED
    BY <2>1, <2>2, <2>3
<1>5. AllSound'
  BY <1>4 DEF AllSound
<1>6. client' \in [Clients -> ClientState]
  BY <1>3, <1>4 DEF Sound, Locals
<1>7. /\ Chain(chain)' /\ lru' \in BOOLEAN /\ frozen' \in BOOLEAN
  BY <1>1 DEF Changes
<1>8. /\ writes' \in 0 .. MaxWrites /\ calls' \in 0 .. MaxCalls /\ (Len(chain) <= MaxEntries)'
      /\ created' \in [Keys -> Nat] /\ claimed' \in [Keys -> Nat] /\ consumed' \in [Keys -> Nat]
      /\ Used' /\ Counted'
  OBVIOUS
<1>9. Parts'
  BY <1>5, <1>6, <1>7, <1>8 DEF Parts
<1> QED
  BY <1>9, InvFrom, PTL

LEMMA CallsTypes ==
  ASSUME HashMapAssumption, Inv, NEW c \in Clients, Calls(c)
  PROVE  calls' \in 0 .. MaxCalls
<1>1. calls \in Nat /\ MaxCalls \in Nat
  BY InvFacts
<1> QED
  BY <1>1 DEF Calls

LEMMA NewValueTypes ==
  ASSUME HashMapAssumption, Inv, NewValue
  PROVE  /\ writes' = writes + 1 /\ writes' \in 0 .. MaxWrites /\ writes <= writes'
         /\ writes' \in Values /\ writes' # Absent /\ writes' \in Nat /\ writes < writes'
<1>1. writes \in Nat /\ MaxWrites \in Nat
  BY InvFacts
<1> QED
  BY <1>1 DEF NewValue, Values, Absent

LEMMA WritesType ==
  ASSUME HashMapAssumption, Inv
  PROVE  writes \in 0 .. MaxWrites /\ writes <= writes /\ writes \in Nat
<1>1. writes \in Nat /\ MaxWrites \in Nat /\ writes <= MaxWrites
  BY InvFacts
<1> QED
  BY <1>1

LEMMA InsertLookupInv ==
  ASSUME HashMapAssumption, Inv, UNCHANGED lru, NEW c \in Clients, NEW k \in Keys,
         InsertLookup(c, k)
  PROVE  Inv'
<1>l. PICK locals : locals = [Idle EXCEPT !.op = "insert", !.stage = "insert", !.key = k,
                                          !.val = writes + 1, !.old = Lookup(k)]
  OBVIOUS
<1>1. Chain(chain) /\ frozen \in BOOLEAN
  BY InvFacts
<1>2. writes' = writes + 1 /\ writes' \in Values /\ writes' # Absent /\ writes' \in Nat
  BY NewValueTypes DEF InsertLookup
<1>3. Maps(chain, k, Lookup(k)) /\ Lookup(k) \in Values \cup {Absent}
  BY <1>1, LookupMaps
<1>4. /\ locals \in ClientState
      /\ locals.op = "insert" /\ locals.stage = "insert" /\ locals.key = k
      /\ locals.val = writes' /\ locals.old = Lookup(k)
  BY <1>l, <1>2, <1>3, IdleFields DEF ClientState, Stages
<1>5. Locals(locals, writes')
  BY <1>2, <1>4 DEF Locals
<1>6. Sound(locals, chain, frozen, writes')
  BY <1>3, <1>4, <1>5 DEF Sound, OldIsCurrent, OldWasReplaced, WalkMissesNone, WalkIsExact,
     LenWasExact, ClearMissesNone, ClearFindsAll, ClearWasExact, BatchIsPrefix
<1>7. GoesOn(c, locals) /\ frozen' = frozen /\ UNCHANGED <<chain, lru, counters>>
  BY <1>l DEF InsertLookup
<1>8. calls' \in 0 .. MaxCalls /\ writes' \in 0 .. MaxWrites /\ writes <= writes'
  BY CallsTypes, NewValueTypes DEF InsertLookup
<1> QED
  BY <1>1, <1>6, <1>7, <1>8, GoesOnInv

LEMMA RemoveLookupInv ==
  ASSUME HashMapAssumption, Inv, UNCHANGED lru, NEW c \in Clients, NEW k \in Keys,
         RemoveLookup(c, k)
  PROVE  Inv'
<1>l. PICK locals : locals = IF Has(k) THEN [Idle EXCEPT !.op = "remove", !.stage = "remove",
                                                         !.key = k, !.old = Lookup(k)]
                             ELSE Idle
  OBVIOUS
<1>1. Chain(chain) /\ frozen \in BOOLEAN
  BY InvFacts
<1>2. writes' = writes /\ writes \in Nat /\ writes \in 0 .. MaxWrites /\ writes <= writes
  BY WritesType DEF RemoveLookup
<1>3. ASSUME Has(k) PROVE Sound(locals, chain, frozen, writes)
  <2>1. Maps(chain, k, Lookup(k)) /\ Lookup(k) \in Values /\ Lookup(k) # Absent
    BY <1>1, <1>3, LookupMaps DEF Values, Absent
  <2>2. /\ locals \in ClientState
        /\ locals.op = "remove" /\ locals.stage = "remove" /\ locals.key = k
        /\ locals.val = Absent /\ locals.old = Lookup(k)
    BY <1>l, <1>3, <2>1, IdleFields DEF ClientState, Stages
  <2>3. Locals(locals, writes)
    BY <1>2, <2>1, <2>2 DEF Locals, Absent
  <2> QED
    BY <2>1, <2>2, <2>3 DEF Sound, OldIsCurrent, OldWasReplaced, WalkMissesNone, WalkIsExact,
       LenWasExact, ClearMissesNone, ClearFindsAll, ClearWasExact, BatchIsPrefix
<1>4. ASSUME ~Has(k) PROVE Sound(locals, chain, frozen, writes)
  <2>1. locals = Idle
    BY <1>l, <1>4
  <2> QED
    BY <1>2, <2>1, IdleSound
<1>5. Sound(locals, chain, frozen, writes)
  BY <1>3, <1>4
<1>6. GoesOn(c, locals) /\ frozen' = frozen /\ UNCHANGED <<chain, lru, counters>>
  BY <1>l DEF RemoveLookup
<1>7. calls' \in 0 .. MaxCalls
  BY CallsTypes DEF RemoveLookup
<1> QED
  BY <1>1, <1>2, <1>5, <1>6, <1>7, GoesOnInv

LEMMA KeysStartInv ==
  ASSUME HashMapAssumption, Inv, UNCHANGED lru, NEW c \in Clients, NEW op \in {"len", "clear"},
         KeysStart(c, op)
  PROVE  Inv'
<1>l. PICK locals : locals = [Idle EXCEPT !.op = op, !.stage = "keys"]
  OBVIOUS
<1>1. Chain(chain) /\ frozen \in BOOLEAN /\ Len(chain) \in Nat
  BY InvFacts
<1>2. writes' = writes /\ writes \in Nat /\ writes \in 0 .. MaxWrites /\ writes <= writes
  BY WritesType DEF KeysStart
<1>3. /\ locals \in ClientState
      /\ locals.op = op /\ locals.stage = "keys" /\ locals.key = NoKey
      /\ locals.val = Absent /\ locals.todo = <<>> /\ locals.done = 0
  BY <1>l, IdleFields DEF ClientState, Stages
<1>4. Locals(locals, writes)
  BY <1>2, <1>3 DEF Locals, Absent
<1>5. /\ ~Holds(chain, NoKey)
      /\ \A j : IsAhead(chain, NoKey, j)
  BY <1>1, HoldsEntry DEF HashMapAssumption, IsAhead
<1>6. Len(locals.todo) = 0 /\ \A i \in DOMAIN locals.todo : FALSE
  BY <1>3
<1>7. Sound(locals, chain, frozen, writes)
  BY <1>1, <1>3, <1>4, <1>5, <1>6 DEF Sound, OldIsCurrent, OldWasReplaced, WalkMissesNone,
     WalkIsExact, LenWasExact, ClearMissesNone, ClearFindsAll, ClearWasExact, BatchIsPrefix
<1>8. GoesOn(c, locals) /\ frozen' = frozen /\ UNCHANGED <<chain, lru, counters>>
  BY <1>l DEF KeysStart
<1>9. calls' \in 0 .. MaxCalls
  BY CallsTypes DEF KeysStart
<1> QED
  BY <1>1, <1>2, <1>7, <1>8, <1>9, GoesOnInv

LEMMA BatchTypes ==
  ASSUME HashMapAssumption, NEW keys \in Batches
  PROVE  /\ keys \in Seq(Keys) /\ Len(keys) \in Nat
         /\ keys # <<>> => 0 < Len(keys)
<1>1. keys \in Seq(Keys)
  BY DEF HashMapAssumption
<1> QED
  BY <1>1, LenProperties, EmptySeq

LEMMA RemoveBatchInv ==
  ASSUME HashMapAssumption, Inv, UNCHANGED lru, NEW c \in Clients, NEW keys \in Batches,
         RemoveBatch(c, keys)
  PROVE  Inv'
<1>l. PICK locals : locals = IF keys = <<>> THEN Idle
                             ELSE [Idle EXCEPT !.op = "removeBatch", !.stage = "removeBatch",
                                               !.todo = keys]
  OBVIOUS
<1>1. frozen \in BOOLEAN
  BY InvFacts
<1>2. writes' = writes /\ writes \in Nat /\ writes \in 0 .. MaxWrites /\ writes <= writes
  BY WritesType DEF RemoveBatch
<1>3. ASSUME keys # <<>> PROVE Sound(locals, chain, frozen, writes)
  <2>1. /\ locals \in ClientState
        /\ locals.op = "removeBatch" /\ locals.stage = "removeBatch" /\ locals.done = 0
        /\ locals.val = Absent /\ locals.todo = keys
    BY <1>l, <1>3, BatchTypes, IdleFields DEF ClientState, Stages
  <2>2. Locals(locals, writes)
    BY <1>2, <1>3, <2>1, BatchTypes DEF Locals, Absent
  <2> QED
    BY <2>1, <2>2 DEF Sound, OldIsCurrent, OldWasReplaced, WalkMissesNone, WalkIsExact,
       LenWasExact, ClearMissesNone, ClearFindsAll, ClearWasExact, BatchIsPrefix
<1>4. ASSUME keys = <<>> PROVE Sound(locals, chain, frozen, writes)
  <2>1. locals = Idle
    BY <1>l, <1>4
  <2> QED
    BY <1>2, <2>1, IdleSound
<1>5. Sound(locals, chain, frozen, writes)
  BY <1>3, <1>4
<1>6. GoesOn(c, locals) /\ frozen' = frozen /\ UNCHANGED <<chain, lru, counters>>
  BY <1>l DEF RemoveBatch
<1>7. calls' \in 0 .. MaxCalls
  BY CallsTypes DEF RemoveBatch
<1> QED
  BY <1>1, <1>2, <1>5, <1>6, <1>7, GoesOnInv

LEMMA InsertBatchInv ==
  ASSUME HashMapAssumption, Inv, UNCHANGED lru, NEW c \in Clients, NEW keys \in Batches,
         InsertBatch(c, keys)
  PROVE  Inv'
<1>l. PICK locals : locals = IF keys = <<>> THEN Idle
                             ELSE [Idle EXCEPT !.op = "insertBatch", !.stage = "insertBatch",
                                               !.todo = keys, !.val = writes + 1]
  OBVIOUS
<1>1. frozen \in BOOLEAN /\ Chain(chain)
  BY InvFacts
<1>2. /\ writes' = writes + 1 /\ writes' \in Values /\ writes' # Absent /\ writes' \in Nat
      /\ writes < writes' /\ writes \in Nat
  BY NewValueTypes, WritesType DEF InsertBatch
<1>3. ASSUME keys # <<>> PROVE Sound(locals, chain, frozen, writes')
  <2>1. /\ locals \in ClientState
        /\ locals.op = "insertBatch" /\ locals.stage = "insertBatch" /\ locals.done = 0
        /\ locals.val = writes' /\ locals.todo = keys
    BY <1>l, <1>2, <1>3, BatchTypes, IdleFields DEF ClientState, Stages
  <2>2. Locals(locals, writes')
    BY <1>2, <1>3, <2>1, BatchTypes DEF Locals
  <2>3. \A k : ~Entry(chain, k, writes')
    <3>1. \A i \in DOMAIN chain : chain[i].val <= writes /\ chain[i].val \in Nat
      BY <1>1, ChainEntries DEF Inv, Used, Values
    <3> QED
      BY <3>1, <1>2 DEF Entry
  <2>4. BatchIsPrefix(locals, chain)
    BY <2>1, <2>3 DEF BatchIsPrefix
  <2> QED
    BY <2>1, <2>2, <2>4 DEF Sound, OldIsCurrent, OldWasReplaced, WalkMissesNone, WalkIsExact,
       LenWasExact, ClearMissesNone, ClearFindsAll, ClearWasExact
<1>4. ASSUME keys = <<>> PROVE Sound(locals, chain, frozen, writes')
  <2>1. locals = Idle
    BY <1>l, <1>4
  <2> QED
    BY <1>2, <2>1, IdleSound
<1>5. Sound(locals, chain, frozen, writes')
  BY <1>3, <1>4
<1>6. GoesOn(c, locals) /\ frozen' = frozen /\ UNCHANGED <<chain, lru, counters>>
  BY <1>l DEF InsertBatch
<1>7. calls' \in 0 .. MaxCalls /\ writes' \in 0 .. MaxWrites /\ writes <= writes'
  BY CallsTypes, NewValueTypes DEF InsertBatch
<1> QED
  BY <1>1, <1>5, <1>6, <1>7, GoesOnInv

LEMMA FreezeInv ==
  ASSUME HashMapAssumption, Inv, UNCHANGED lru, NEW c \in Clients, Freeze(c)
  PROVE  Inv'
<1>1. writes' = writes /\ writes \in Nat /\ writes \in 0 .. MaxWrites /\ writes <= writes
  BY WritesType DEF Freeze
<1>2. /\ GoesOn(c, Idle) /\ frozen' = TRUE /\ UNCHANGED <<chain, lru, counters>>
      /\ calls' \in 0 .. MaxCalls
  BY CallsTypes DEF Freeze
<1>3. Sound(Idle, chain, frozen', writes')
  BY <1>1, IdleSound
<1> QED
  BY <1>1, <1>2, <1>3, GoesOnInv

(* The key after that of the client: the first of those it has still to    *)
(* come to.                                                                *)
LEMMA NextKeyIsFirst ==
  ASSUME HashMapAssumption, Chain(chain), NEW m \in Keys \cup {NoKey},
         NEW next, next = NextKey(m)
  PROVE  /\ next \in Keys \cup {NoKey}
         /\ \A j : Holds(chain, j) /\ (Holds(chain, m) => Before(chain, m, j))
                     => next # NoKey /\ (j = next \/ Before(chain, next, j))
         /\ \A p \in 0 .. Len(chain) :
              m = (IF p = 0 THEN NoKey ELSE chain[p].key) =>
                IF p = Len(chain) THEN next = NoKey
                ELSE p + 1 \in DOMAIN chain /\ next = chain[p + 1].key /\ next # NoKey
<1>1. /\ Len(chain) \in Nat /\ DOMAIN chain = 1 .. Len(chain)
      /\ \A i \in DOMAIN chain : chain[i].key \in Keys
      /\ \A i, j \in DOMAIN chain : chain[i].key = chain[j].key => i = j
  BY ChainEntries
<1>2. NoKey \notin Keys
  BY DEF HashMapAssumption
<1>3. PICK p : p = IF Has(m) THEN PositionOf(m) ELSE 0
  OBVIOUS
<1>4. /\ p \in 0 .. Len(chain)
      /\ p # 0 => p \in DOMAIN chain /\ chain[p].key = m
      /\ p = 0 => ~Has(m)
  BY <1>1, <1>3 DEF Has, Holds, PositionOf
<1>5. next = IF p + 1 \in DOMAIN chain THEN chain[p + 1].key ELSE NoKey
  BY <1>3 DEF NextKey
<1>6. next \in Keys \cup {NoKey}
  BY <1>1, <1>5
<1>7. ASSUME NEW j, Holds(chain, j), Holds(chain, m) => Before(chain, m, j)
      PROVE  next # NoKey /\ (j = next \/ Before(chain, next, j))
  <2>1. PICK q \in DOMAIN chain : chain[q].key = j
    BY <1>7 DEF Holds
  <2>2. p < q
    <3>1. CASE p = 0
      BY <3>1, <1>1, <2>1
    <3>2. CASE p # 0
      <4>1. Holds(chain, m)
        BY <3>2, <1>4 DEF Holds
      <4>2. PICK a \in DOMAIN chain, b \in DOMAIN chain :
              a < b /\ chain[a].key = m /\ chain[b].key = j
        BY <4>1, <1>7 DEF Before
      <4>3. a = p /\ b = q
        BY <3>2, <4>2, <1>1, <1>4, <2>1
      <4> QED
        BY <4>2, <4>3
    <3> QED
      BY <3>1, <3>2
  <2>3. p + 1 \in DOMAIN chain /\ (p + 1 = q \/ p + 1 < q)
    BY <1>1, <1>4, <2>1, <2>2
  <2>4. next = chain[p + 1].key /\ next # NoKey
    BY <1>1, <1>2, <1>5, <2>3
  <2>5. p + 1 = q => j = next
    BY <2>1, <2>4
  <2>6. p + 1 < q => Before(chain, next, j)
    BY <2>1, <2>3, <2>4 DEF Before
  <2> QED
    BY <2>3, <2>4, <2>5, <2>6
<1>8. ASSUME NEW r \in 0 .. Len(chain), m = (IF r = 0 THEN NoKey ELSE chain[r].key)
      PROVE  IF r = Len(chain) THEN next = NoKey
             ELSE r + 1 \in DOMAIN chain /\ next = chain[r + 1].key /\ next # NoKey
  <2>1. p = r
    <3>1. CASE r = 0
      <4>1. m = NoKey
        BY <3>1, <1>8
      <4>2. p = 0
        BY <4>1, <1>1, <1>2, <1>4
      <4> QED
        BY <3>1, <4>2
    <3>2. CASE r # 0
      <4>1. r \in DOMAIN chain /\ chain[r].key = m
        BY <3>2, <1>1, <1>8
      <4>2. Has(m)
        BY <4>1 DEF Has, Holds
      <4>3. p # 0
        BY <4>2, <1>4
      <4> QED
        BY <4>1, <4>3, <1>1, <1>4
    <3> QED
      BY <3>1, <3>2
  <2>4. r \in 0 .. Len(chain)
    OBVIOUS
  <2>5. Len(chain) \in Nat
    BY <1>1
  <2>2. CASE r = Len(chain)
    <3>1. p + 1 \notin DOMAIN chain
      BY <1>1, <2>1, <2>2
    <3> QED
      BY <2>2, <3>1, <1>5
  <2>3. CASE r # Len(chain)
    <3>2. r + 1 \in 1 .. Len(chain)
      BY ONLY <2>3, <2>4, <2>5
    <3>1. r + 1 \in DOMAIN chain
      BY <3>2, <1>1
    <3> QED
      BY <2>1, <2>3, <3>1, <1>1, <1>2, <1>5
  <2> QED
    BY <2>2, <2>3
<1> QED
  BY <1>6, <1>7, <1>8

LEMMA Appended ==
  ASSUME NEW T, NEW q \in Seq(T), NEW e \in T
  PROVE  /\ Append(q, e) \in Seq(T) /\ Len(Append(q, e)) = Len(q) + 1
         /\ DOMAIN Append(q, e) = 1 .. Len(q) + 1 /\ DOMAIN q = 1 .. Len(q)
         /\ Len(q) \in Nat
         /\ \A i \in 1 .. Len(q) : Append(q, e)[i] = q[i]
         /\ Append(q, e)[Len(q) + 1] = e
<1>1. /\ Append(q, e) \in Seq(T) /\ Len(Append(q, e)) = Len(q) + 1
      /\ \A i \in 1 .. Len(q) : Append(q, e)[i] = q[i]
      /\ Append(q, e)[Len(q) + 1] = e
  BY AppendProperties
<1> QED
  BY <1>1, LenProperties

(* What the place in the walk means.                                       *)
LEMMA WalkPlace ==
  ASSUME HashMapAssumption, Chain(chain), NEW me \in ClientState, WalkIsExact(me, chain),
         me.stage = "keys", me.alone = Keys, NEW next, next = NextKey(me.key)
  PROVE  IF Len(me.todo) = Len(chain) THEN next = NoKey
         ELSE /\ Len(me.todo) + 1 \in DOMAIN chain
              /\ next = chain[Len(me.todo) + 1].key /\ next # NoKey
<1> DEFINE L == Len(me.todo)
<1>1. /\ L \in Nat /\ DOMAIN me.todo = 1 .. L /\ me.todo \in Seq(Keys)
      /\ me.key \in Keys \cup {NoKey}
  BY FieldTypes
<1>2. /\ L <= Len(chain) /\ \A i \in DOMAIN me.todo : me.todo[i] = chain[i].key
      /\ me.key = IF me.todo = <<>> THEN NoKey ELSE me.todo[L]
  BY DEF WalkIsExact
<1>3. L = 0 <=> me.todo = <<>>
  BY <1>1, EmptySeq
<1>4. Len(chain) \in Nat
  BY ChainEntries
<1> HIDE DEF L
<1>5. me.key = IF L = 0 THEN NoKey ELSE chain[L].key
  BY <1>1, <1>2, <1>3
<1>6. L \in 0 .. Len(chain)
  BY <1>1, <1>2, <1>4
<1> QED
  BY <1>1, <1>5, <1>6, NextKeyIsFirst DEF L

LEMMA KeysNextInv ==
  ASSUME HashMapAssumption, Inv, UNCHANGED <<lru, calls>>, NEW c \in Clients, KeysNext(c)
  PROVE  Inv'
<1>m. PICK me : me = client[c]
  OBVIOUS
<1>n. PICK next : next = NextKey(me.key)
  OBVIOUS
<1>l. PICK locals : locals =
        IF next # NoKey THEN [me EXCEPT !.key = next, !.todo = Append(@, next)]
        ELSE IF me.op = "clear" /\ me.todo # <<>> THEN [me EXCEPT !.stage = "removeBatch"]
        ELSE Returns(me, TRUE)
  OBVIOUS
<1>1. /\ Chain(chain) /\ frozen \in BOOLEAN /\ Sound(me, chain, frozen, writes)
      /\ Len(chain) \in Nat
  BY <1>m, InvFacts
<1>2. /\ me.stage = "keys" /\ GoesOn(c, locals)
      /\ UNCHANGED <<chain, frozen, writes, counters>>
  BY <1>m, <1>n, <1>l DEF KeysNext
<1>3. me \in ClientState /\ Locals(me, writes) /\ me.op \in {"len", "clear"} /\ me.done = 0
  BY <1>1, <1>2 DEF Sound, Locals
<1>4. /\ me.key \in Keys \cup {NoKey} /\ me.alone \in SUBSET Keys /\ me.todo \in Seq(Keys)
      /\ Len(me.todo) \in Nat /\ DOMAIN me.todo = 1 .. Len(me.todo)
      /\ \A i \in DOMAIN me.todo : me.todo[i] \in Keys
  BY <1>3, FieldTypes
<1>5. /\ next \in Keys \cup {NoKey}
      /\ \A j : Holds(chain, j) /\ (Holds(chain, me.key) => Before(chain, me.key, j))
                  => next # NoKey /\ (j = next \/ Before(chain, next, j))
  BY <1>1, <1>4, <1>n, NextKeyIsFirst
<1>6. ASSUME me.alone = Keys
      PROVE  IF Len(me.todo) = Len(chain) THEN next = NoKey
             ELSE /\ Len(me.todo) + 1 \in DOMAIN chain
                  /\ next = chain[Len(me.todo) + 1].key /\ next # NoKey
  BY <1>1, <1>2, <1>3, <1>6, <1>n, WalkPlace DEF Sound
<1>7. \A j \in me.alone : Holds(chain, j) =>
        j \in Elements(me.todo) \/ (Holds(chain, me.key) => Before(chain, me.key, j))
  <2>1. \A j \in me.alone : Holds(chain, j) =>
          j \in Elements(me.todo) \/ IsAhead(chain, me.key, j)
    BY <1>1, <1>2 DEF Sound, WalkMissesNone
  <2>2. Holds(chain, me.key) => me.key \in Keys
    BY <1>1, HoldsEntry
  <2> QED
    BY <2>1, <2>2 DEF IsAhead
<1>8. me.alone = Keys => /\ Len(me.todo) <= Len(chain)
                         /\ \A i \in DOMAIN me.todo : me.todo[i] = chain[i].key
  BY <1>1, <1>2 DEF Sound, WalkIsExact
<1>9. /\ DOMAIN chain = 1 .. Len(chain)
      /\ \A i, j \in DOMAIN chain : chain[i].key = chain[j].key => i = j
  BY <1>1, ChainEntries
<1>10. ASSUME next # NoKey PROVE Sound(locals, chain, frozen, writes)
  <2>1. locals = [me EXCEPT !.key = next, !.todo = Append(@, next)]
    BY <1>l, <1>10
  <2>q. PICK q : q = Append(me.todo, next)
    OBVIOUS
  <2>2. /\ next \in Keys /\ q \in Seq(Keys) /\ Len(q) = Len(me.todo) + 1
        /\ DOMAIN q = 1 .. Len(me.todo) + 1
        /\ \A i \in 1 .. Len(me.todo) : q[i] = me.todo[i]
        /\ q[Len(me.todo) + 1] = next
    BY <1>4, <1>5, <1>10, <2>q, Appended
  <2>3. /\ locals \in ClientState
        /\ locals.op = me.op /\ locals.stage = "keys" /\ locals.key = next
        /\ locals.val = me.val /\ locals.todo = q /\ locals.done = 0
        /\ locals.alone = me.alone
    BY <1>2, <1>3, <1>5, <2>1, <2>2, <2>q DEF ClientState
  <2>4. Locals(locals, writes)
    BY <1>3, <2>3 DEF Locals
  <2>5. WalkMissesNone(locals, chain)
    <3> SUFFICES ASSUME NEW j \in me.alone, Holds(chain, j)
                 PROVE  j \in Elements(q) \/ Before(chain, next, j)
      <4>1. Chain(chain) /\ \A j : Before(chain, next, j) => Holds(chain, next)
        BY <1>1, OneIsFirst
      <4> QED
        BY <2>3, <4>1 DEF WalkMissesNone, IsAhead
    <3>1. CASE j \in Elements(me.todo)
      <4>1. PICK i \in DOMAIN me.todo : me.todo[i] = j
        BY <3>1 DEF Elements
      <4>2. i \in DOMAIN q /\ q[i] = j
        BY <4>1, <1>4, <2>2
      <4> QED
        BY <4>2 DEF Elements
    <3>2. CASE Holds(chain, me.key) => Before(chain, me.key, j)
      <4>1. j = next \/ Before(chain, next, j)
        BY <3>2, <1>5
      <4>2. Len(me.todo) + 1 \in DOMAIN q
        BY <1>4, <2>2
      <4>3. next \in Elements(q)
        BY <4>2, <2>2 DEF Elements
      <4> QED
        BY <4>1, <4>3
    <3> QED
      BY <3>1, <3>2, <1>7
  <2>6. WalkIsExact(locals, chain)
    <3> SUFFICES ASSUME me.alone = Keys
                 PROVE  /\ Len(q) <= Len(chain)
                        /\ \A i \in DOMAIN q : q[i] = chain[i].key
                        /\ next = IF q = <<>> THEN NoKey ELSE q[Len(q)]
      BY <2>3 DEF WalkIsExact
    <3>1. Len(me.todo) + 1 \in DOMAIN chain /\ next = chain[Len(me.todo) + 1].key
      BY <1>6, <1>10
    <3>2. Len(q) <= Len(chain)
      BY <3>1, <1>4, <1>9, <2>2, <1>1
    <3>3. ASSUME NEW i \in DOMAIN q PROVE q[i] = chain[i].key
      <4>1. CASE i = Len(me.todo) + 1
        BY <4>1, <3>1, <2>2
      <4>2. CASE i # Len(me.todo) + 1
        <5>1. i \in 1 .. Len(me.todo) + 1 /\ Len(me.todo) \in Nat
          BY <2>2, <1>4
        <5>2. i \in 1 .. Len(me.todo) /\ i \in DOMAIN me.todo
          BY ONLY <5>1, <4>2, <1>4
        <5> QED
          BY <5>2, <1>8, <2>2
      <4> QED
        BY <4>1, <4>2
    <3>4. q # <<>>
      BY <2>q, <2>2, <1>4, AppendProperties
    <3> QED
      BY <3>2, <3>3, <3>4, <2>2
  <2> QED
    BY <1>3, <2>3, <2>4, <2>5, <2>6 DEF Sound, OldIsCurrent, OldWasReplaced,
       LenWasExact, ClearMissesNone, ClearFindsAll, ClearWasExact, BatchIsPrefix
<1>11. ASSUME next = NoKey PROVE \A j \in me.alone : Holds(chain, j) => j \in Elements(me.todo)
  BY <1>5, <1>7, <1>11
<1>12. ASSUME next = NoKey, me.alone = Keys PROVE Len(me.todo) = Len(chain)
  BY <1>6, <1>12
<1>13. ASSUME next = NoKey, me.op = "clear", me.todo # <<>>
       PROVE  Sound(locals, chain, frozen, writes)
  <2>1. locals = [me EXCEPT !.stage = "removeBatch"]
    BY <1>l, <1>13
  <2>2. /\ locals \in ClientState
        /\ locals.op = "clear" /\ locals.stage = "removeBatch" /\ locals.key = me.key
        /\ locals.val = me.val /\ locals.todo = me.todo /\ locals.done = 0
        /\ locals.alone = me.alone
    BY <1>3, <1>13, <2>1 DEF ClientState, Stages
  <2>3. 0 < Len(me.todo)
    BY <1>4, <1>13, EmptySeq
  <2>4. Locals(locals, writes)
    BY <1>3, <2>2, <2>3 DEF Locals
  <2>5. ClearMissesNone(locals, chain)
    <3> SUFFICES ASSUME NEW j \in me.alone, Holds(chain, j) PROVE StillListed(locals, j)
      BY <2>2 DEF ClearMissesNone
    <3>1. PICK i \in DOMAIN me.todo : me.todo[i] = j
      BY <1>11, <1>13 DEF Elements
    <3>2. 0 < i
      BY <3>1, <1>4
    <3> QED
      BY <3>1, <3>2, <2>2 DEF StillListed
  <2>6. ClearFindsAll(locals, chain)
    <3> SUFFICES ASSUME me.alone = Keys
                 PROVE  /\ \A i, j \in DOMAIN me.todo : me.todo[i] = me.todo[j] => i = j
                        /\ \A i \in DOMAIN me.todo : Holds(chain, me.todo[i])
      BY <2>2 DEF ClearFindsAll
    <3>1. \A i \in DOMAIN me.todo : i \in DOMAIN chain /\ me.todo[i] = chain[i].key
      BY <1>1, <1>4, <1>8, <1>9
    <3> QED
      BY <3>1, <1>9 DEF Holds
  <2> QED
    BY <2>2, <2>4, <2>5, <2>6 DEF Sound, OldIsCurrent, OldWasReplaced, WalkMissesNone,
       WalkIsExact, LenWasExact, ClearWasExact, BatchIsPrefix
<1>14. ASSUME next = NoKey, ~(me.op = "clear" /\ me.todo # <<>>)
       PROVE  Sound(locals, chain, frozen, writes)
  <2>1. locals = [me EXCEPT !.stage = "returned", !.ok = TRUE]
    BY <1>l, <1>14 DEF Returns
  <2>2. /\ locals \in ClientState
        /\ locals.op = me.op /\ locals.stage = "returned" /\ locals.ok = TRUE
        /\ locals.val = me.val /\ locals.todo = me.todo /\ locals.alone = me.alone
    BY <1>3, <2>1 DEF ClientState, Stages
  <2>3. Locals(locals, writes)
    BY <1>3, <2>2 DEF Locals
  <2>4. LenWasExact(locals, chain)
    BY <1>12, <1>14, <2>2 DEF LenWasExact
  <2>5. ClearWasExact(locals, chain, frozen)
    <3> SUFFICES ASSUME me.op = "clear", NEW j \in me.alone, Holds(chain, j) PROVE FALSE
      BY <2>2 DEF ClearWasExact
    <3>1. j \in Elements(me.todo) /\ me.todo = <<>>
      BY <1>11, <1>14
    <3> QED
      BY <3>1 DEF Elements
  <2> QED
    BY <1>3, <2>2, <2>3, <2>4, <2>5 DEF Sound, OldIsCurrent, OldWasReplaced, WalkMissesNone,
       WalkIsExact, ClearMissesNone, ClearFindsAll, BatchIsPrefix
<1>15. Sound(locals, chain, frozen, writes)
  BY <1>10, <1>13, <1>14
<1>16. calls' \in 0 .. MaxCalls /\ writes \in 0 .. MaxWrites /\ writes <= writes
  <2>1. calls \in Nat /\ calls <= MaxCalls /\ MaxCalls \in Nat
    BY InvFacts
  <2> QED
    BY <2>1, WritesType
<1> QED
  BY <1>1, <1>2, <1>15, <1>16, GoesOnInv

-----------------------------------------------------------------------------
(***************************************************************************)
(* Steps that change the map.                                              *)
(***************************************************************************)

LEMMA ChangesUsed ==
  ASSUME HashMapAssumption, Inv, NEW k \in Keys \cup {NoKey}, Changes(chain, chain', k),
         writes' \in Nat, writes <= writes', \A v : Entry(chain', k, v) => v <= writes'
  PROVE  Used'
<1>1. /\ Chain(chain) /\ writes \in Nat
      /\ \A i \in DOMAIN chain : chain[i].val <= writes /\ chain[i].val \in Nat
  BY InvFacts, ChainEntries DEF Inv, Used, Values
<1>t. PICK t : t = chain'
  OBVIOUS
<1>2. Changes(chain, t, k) /\ Chain(t) /\ \A v : Entry(t, k, v) => v <= writes'
  BY <1>t DEF Changes
<1>3. ASSUME NEW i \in DOMAIN t PROVE t[i].val <= writes'
  <2>1. Entry(t, t[i].key, t[i].val) /\ t[i].key \in Keys
    BY <1>2, ChainEntries DEF Entry
  <2>2. CASE t[i].key = k
    BY <1>2, <2>1, <2>2
  <2>3. CASE t[i].key # k
    <3>1. Entry(chain, t[i].key, t[i].val)
      BY <1>2, <2>1, <2>3 DEF Changes
    <3>2. t[i].val \in Nat /\ t[i].val <= writes
      BY <1>1, <3>1 DEF Entry
    <3> QED
      BY <3>2, <1>1
  <2> QED
    BY <2>2, <2>3
<1> QED
  BY <1>3, <1>t DEF Used

(* No other key comes into the map.                                        *)
LEMMA OthersPresent ==
  ASSUME Chain(chain), NEW k, Changes(chain, chain', k), NEW j \in Keys, j # k
  PROVE  /\ Present(j)' <= Present(j) /\ Present(j)' \in 0 .. 1 /\ Present(j) \in 0 .. 1
         /\ Holds(chain', j) => Holds(chain, j)
<1>t. PICK t : t = chain'
  OBVIOUS
<1>1. Holds(t, j) => Holds(chain, j)
  BY <1>t, HoldsEntry DEF Changes
<1>2. Present(j) = (IF Holds(chain, j) THEN 1 ELSE 0) /\ Present(j)' = (IF Holds(t, j) THEN 1 ELSE 0)
  BY <1>t DEF Present, Has
<1> QED
  BY <1>1, <1>2, <1>t

LEMMA CreateCounted ==
  ASSUME HashMapAssumption, Inv, NEW k \in Keys, NEW v \in Values, Create(k, v)
  PROVE  /\ created' \in [Keys -> Nat]
         /\ \A j \in Keys : claimed[j] <= created'[j] /\ consumed[j] + Present(j)' <= created'[j]
         /\ ~Has(k) => claimed[k] + 1 <= created'[k]
<1>1. /\ Chain(chain) /\ Changes(chain, chain', k)
      /\ created \in [Keys -> Nat] /\ claimed \in [Keys -> Nat] /\ consumed \in [Keys -> Nat]
      /\ \A j \in Keys : claimed[j] <= created[j] /\ consumed[j] + Present(j) <= created[j]
  BY InvFacts, CreateChanges
<1>2. created' = IF Has(k) THEN created ELSE [created EXCEPT ![k] = @ + 1]
  BY DEF Create
<1>3. created' \in [Keys -> Nat]
  BY <1>1, <1>2
<1>4. \A j \in Keys : j # k => created'[j] = created[j]
  BY <1>1, <1>2
<1>5. created'[k] = IF Has(k) THEN created[k] ELSE created[k] + 1
  BY <1>1, <1>2
<1>6. Present(k) = (IF Has(k) THEN 1 ELSE 0) /\ Present(k)' \in 0 .. 1
  BY DEF Present
<1>7. ASSUME NEW j \in Keys
      PROVE  claimed[j] <= created'[j] /\ consumed[j] + Present(j)' <= created'[j]
  <2>1. /\ created[j] \in Nat /\ claimed[j] \in Nat /\ consumed[j] \in Nat
        /\ claimed[j] <= created[j] /\ consumed[j] + Present(j) <= created[j]
    BY <1>1
  <2>2. CASE j = k
    BY ONLY <2>1, <2>2, <1>5, <1>6
  <2>3. CASE j # k
    <3>1. Present(j)' <= Present(j) /\ Present(j)' \in 0 .. 1 /\ Present(j) \in 0 .. 1
      BY ONLY <1>1, <2>3, OthersPresent, Zenon
    <3>2. created'[j] = created[j]
      BY <1>4, <2>3
    <3> QED
      BY ONLY <2>1, <3>1, <3>2
  <2> QED
    BY <2>2, <2>3
<1>8. ~Has(k) => claimed[k] + 1 <= created'[k]
  <2>1. created[k] \in Nat /\ claimed[k] \in Nat
    BY <1>1
  <2> QED
    BY <2>1, <1>1, <1>5
<1> QED
  BY <1>3, <1>7, <1>8

LEMMA RemoveCounted ==
  ASSUME HashMapAssumption, Inv, NEW k \in Keys, Has(k), Remove(k)
  PROVE  /\ created' = created
         /\ \A j \in Keys : consumed[j] + Present(j)' <= created[j]
         /\ consumed[k] + 1 <= created[k] /\ Present(k)' = 0
<1>1. /\ Chain(chain) /\ Changes(chain, chain', k) /\ ~Holds(chain', k)
      /\ created \in [Keys -> Nat] /\ consumed \in [Keys -> Nat]
      /\ \A j \in Keys : consumed[j] + Present(j) <= created[j]
  BY InvFacts, RemoveChanges
<1>2. Present(k) = 1 /\ Present(k)' = 0
  BY <1>1 DEF Present, Has
<1>3. ASSUME NEW j \in Keys PROVE consumed[j] + Present(j)' <= created[j]
  <2>1. created[j] \in Nat /\ consumed[j] \in Nat /\ consumed[j] + Present(j) <= created[j]
    BY <1>1
  <2>2. CASE j = k
    BY ONLY <2>1, <2>2, <1>2
  <2>3. CASE j # k
    <3>1. Present(j)' <= Present(j) /\ Present(j)' \in 0 .. 1 /\ Present(j) \in 0 .. 1
      BY ONLY <1>1, <2>3, OthersPresent, Zenon
    <3> QED
      BY ONLY <2>1, <3>1
  <2> QED
    BY <2>2, <2>3
<1>4. consumed[k] + 1 <= created[k]
  BY <1>1, <1>2
<1>5. created' = created
  BY DEF Remove
<1> QED
  BY <1>2, <1>3, <1>4, <1>5

(* A step that creates an entry, or removes one, keeps everything but what *)
(* the client that takes it relies on.                                     *)
LEMMA CreateInv ==
  ASSUME HashMapAssumption, Inv, UNCHANGED <<lru, frozen, consumed>>,
         NEW k \in Keys, NEW v \in Values, v <= writes', Create(k, v),
         claimed' = claimed \/ (~Has(k) /\ claimed' = [claimed EXCEPT ![k] = @ + 1]),
         writes' \in 0 .. MaxWrites, writes <= writes', calls' \in 0 .. MaxCalls,
         NEW self, NEW before \in [Clients -> ClientState],
         \A c \in Clients : c # self => before[c] = client[c],
         self \in Clients => Sound(Mine(before[self], k), chain', frozen, writes'),
         client' = Disturb(before, k, self)
  PROVE  Inv'
<1>1. /\ Chain(chain) /\ claimed \in [Keys -> Nat] /\ consumed \in [Keys -> Nat]
      /\ MaxWrites \in Nat
  BY InvFacts
<1>2. /\ Changes(chain, chain', k) /\ (Len(chain) <= MaxEntries)'
      /\ \A w : Entry(chain', k, w) <=> w = v
  BY <1>1, CreateChanges
<1>3. writes' \in Nat
  BY <1>1
<1>4. Used'
  BY <1>2, <1>3, ChangesUsed
<1>5. /\ created' \in [Keys -> Nat]
      /\ \A j \in Keys : claimed[j] <= created'[j] /\ consumed[j] + Present(j)' <= created'[j]
      /\ ~Has(k) => claimed[k] + 1 <= created'[k]
  BY ONLY HashMapAssumption, Inv, Create(k, v), CreateCounted, Zenon
<1>6. claimed' \in [Keys -> Nat] /\ consumed' \in [Keys -> Nat]
  <2>1. CASE claimed' = claimed
    BY <2>1, <1>1
  <2>2. CASE claimed' = [claimed EXCEPT ![k] = @ + 1]
    BY <2>2, <1>1
  <2> QED
    BY <2>1, <2>2
<1>7. \A j \in Keys : claimed'[j] <= created'[j]
  BY <1>1, <1>5
<1>8. Counted'
  BY <1>5, <1>7 DEF Counted
<1>9. k \in Keys \cup {NoKey} /\ UNCHANGED <<lru, frozen>>
  OBVIOUS
<1> QED
  BY <1>2, <1>4, <1>5, <1>6, <1>8, <1>9, ChangesInv

LEMMA RemoveInv ==
  ASSUME HashMapAssumption, Inv, UNCHANGED <<lru, frozen, writes, claimed>>,
         NEW k \in Keys, Has(k), Remove(k),
         consumed' = consumed \/ consumed' = [consumed EXCEPT ![k] = @ + 1],
         calls' \in 0 .. MaxCalls,
         NEW self, NEW before \in [Clients -> ClientState],
         \A c \in Clients : c # self => before[c] = client[c],
         self \in Clients => Sound(Mine(before[self], k), chain', frozen, writes),
         client' = Disturb(before, k, self)
  PROVE  Inv'
<1>1. /\ Chain(chain) /\ claimed \in [Keys -> Nat] /\ consumed \in [Keys -> Nat]
      /\ created \in [Keys -> Nat] /\ MaxEntries \in Nat /\ Len(chain) <= MaxEntries
      /\ Len(chain) \in Nat
      /\ \A j \in Keys : claimed[j] <= created[j]
  BY InvFacts DEF HashMapAssumption
<1>2. Changes(chain, chain', k) /\ Len(chain') <= Len(chain) /\ ~Holds(chain', k)
  BY <1>1, RemoveChanges
<1>t. PICK t : t = chain'
  OBVIOUS
<1>3. (Len(chain) <= MaxEntries)'
  <2>1. Chain(t)
    BY <1>2, <1>t DEF Changes
  <2>2. Len(t) \in Nat /\ Len(t) <= Len(chain)
    BY <1>2, <1>t, <2>1, ChainEntries
  <2> QED
    BY <1>1, <1>t, <2>2
<1>4. writes' = writes /\ writes \in Nat /\ writes <= writes /\ writes \in 0 .. MaxWrites
  BY WritesType
<1>5. Used'
  <2>1. \A v : ~Entry(t, k, v)
    BY <1>2, <1>t, HoldsEntry DEF Changes
  <2> QED
    BY <1>2, <1>4, <1>t, <2>1, ChangesUsed
<1>6. /\ created' = created
      /\ \A j \in Keys : consumed[j] + Present(j)' <= created[j]
      /\ consumed[k] + 1 <= created[k] /\ Present(k)' = 0
  BY RemoveCounted
<1>7. consumed' \in [Keys -> Nat] /\ created' \in [Keys -> Nat] /\ claimed' \in [Keys -> Nat]
  <2>1. consumed[k] + 1 \in Nat
    BY <1>1
  <2>2. [consumed EXCEPT ![k] = @ + 1] \in [Keys -> Nat]
    BY <1>1, <2>1
  <2>3. consumed' \in [Keys -> Nat]
    BY <1>1, <2>2
  <2>4. created' = created /\ claimed' = claimed
    BY <1>6
  <2> QED
    BY <1>1, <2>3, <2>4
<1>8. ASSUME NEW j \in Keys PROVE consumed'[j] + Present(j)' <= created'[j]
  <2>1. consumed[j] \in Nat /\ created[j] \in Nat
    BY <1>1
  <2>2. consumed'[j] = consumed[j] \/ (j = k /\ consumed'[j] = consumed[j] + 1)
    BY <1>1
  <2>3. CASE consumed'[j] = consumed[j]
    BY <1>6, <2>3
  <2>4. CASE j = k /\ consumed'[j] = consumed[j] + 1
    BY <1>6, <2>1, <2>4
  <2> QED
    BY <2>2, <2>3, <2>4
<1>9. Counted'
  BY <1>1, <1>6, <1>8 DEF Counted
<1>10. k \in Keys \cup {NoKey} /\ UNCHANGED <<lru, frozen>>
  OBVIOUS
<1> QED
  BY <1>2, <1>3, <1>4, <1>5, <1>7, <1>9, <1>10, ChangesInv

(* A client that finds it cannot go on leaves the map as it is.            *)
LEMMA GivesUpInv ==
  ASSUME HashMapAssumption, Inv, UNCHANGED <<chain, lru, frozen, writes, calls, counters>>,
         NEW c \in Clients, NEW locals, GoesOn(c, locals), Sound(locals, chain, frozen, writes)
  PROVE  Inv'
<1>1. /\ frozen \in BOOLEAN /\ calls \in Nat /\ calls <= MaxCalls /\ MaxCalls \in Nat
      /\ writes \in 0 .. MaxWrites /\ writes <= writes
  BY InvFacts, WritesType
<1>2. /\ UNCHANGED <<chain, lru, counters>> /\ frozen' = frozen /\ writes' = writes
      /\ calls' = calls
  OBVIOUS
<1>3. calls' \in 0 .. MaxCalls
  BY <1>1, <1>2
<1> QED
  BY <1>1, <1>2, <1>3, GoesOnInv

(* What becomes of a client that is through with its own change of k.      *)
LEMMA MineFields ==
  ASSUME NEW me \in ClientState, me.stage # "idle", NEW k, NEW you, you = Mine(me, k)
  PROVE  /\ you \in ClientState
         /\ you.op = me.op /\ you.stage = me.stage /\ you.key = me.key /\ you.val = me.val
         /\ you.old = me.old /\ you.gone = me.gone /\ you.todo = me.todo
         /\ you.done = me.done /\ you.ok = me.ok
         /\ you.alone = me.alone \ (Gone \ {k})
<1>s. PICK S : S = Gone \ {k}
  OBVIOUS
<1>1. you = [me EXCEPT !.alone = @ \ S]
  BY <1>s DEF Mine
<1> QED
  BY <1>s, <1>1, Narrowed

LEMMA MineIdle ==
  ASSUME NEW k PROVE Mine(Idle, k) = Idle
BY IdleFields DEF Mine

LEMMA UpdateOnceInv ==
  ASSUME HashMapAssumption, Inv, UNCHANGED lru, NEW c \in Clients, NEW k \in Keys,
         NEW op \in DOMAIN Flags, UpdateOnce(c, k, op)
  PROVE  Inv'
<1>b. PICK before : before = [client EXCEPT ![c] = Idle]
  OBVIOUS
<1>1. /\ before \in [Clients -> ClientState] /\ before[c] = Idle
      /\ \A d \in Clients : d # c => before[d] = client[d]
  <2>1. PICK locals : locals = Idle
    OBVIOUS
  <2>2. locals \in ClientState /\ before = [client EXCEPT ![c] = locals]
    BY <1>b, <2>1, IdleFields
  <2>3. client \in [Clients -> ClientState]
    BY InvFacts
  <2>4. /\ before \in [Clients -> ClientState] /\ before[c] = locals
        /\ \A d \in Clients : d # c => before[d] = client[d]
    BY <2>2, <2>3
  <2> QED
    BY <2>1, <2>4
<1>2. /\ writes' = writes + 1 /\ writes' \in 0 .. MaxWrites /\ writes <= writes'
      /\ writes' \in Values /\ writes' \in Nat /\ calls' \in 0 .. MaxCalls
      /\ UNCHANGED <<lru, frozen, consumed>>
  BY NewValueTypes, CallsTypes DEF UpdateOnce
<1>3. ASSUME NEW j PROVE Sound(Mine(before[c], j), chain', frozen, writes')
  BY <1>1, <1>2, IdleSound, MineIdle
<1>4. CASE /\ MayWrite(k, Flags[op])
           /\ Create(k, writes + 1)
           /\ ChangesAndGoesOn(c, k, Idle)
           /\ claimed' = IF op = "insert_new" THEN [claimed EXCEPT ![k] = @ + 1] ELSE claimed
  <2>1. client' = Disturb(before, k, c)
    BY <1>4, <1>b DEF ChangesAndGoesOn
  <2>2. Create(k, writes')
    BY <1>2, <1>4
  <2>3. op = "insert_new" => ~Has(k)
    BY <1>4 DEF MayWrite, CanUpdate, Flags
  <2>4. claimed' = claimed \/ (~Has(k) /\ claimed' = [claimed EXCEPT ![k] = @ + 1])
    BY <1>4, <2>3
  <2>5. writes' <= writes'
    BY <1>2
  <2> QED
    BY <1>1, <1>2, <1>3, <2>1, <2>2, <2>4, <2>5, CreateInv
<1>5. CASE /\ ~MayWrite(k, Flags[op])
           /\ FailToCreate(k)
           /\ ChangesAndGoesOn(c, NoKey, Idle)
           /\ UNCHANGED claimed
  <2>1. client' = Disturb(before, NoKey, c)
    BY <1>5, <1>b DEF ChangesAndGoesOn
  <2>2. /\ Chain(chain) /\ Len(chain) \in Nat /\ Len(chain) <= MaxEntries /\ MaxEntries \in Nat
        /\ created \in [Keys -> Nat] /\ claimed \in [Keys -> Nat] /\ consumed \in [Keys -> Nat]
        /\ \A j \in Keys : claimed[j] <= created[j] /\ consumed[j] + Present(j) <= created[j]
    BY InvFacts DEF HashMapAssumption
  <2>3. Changes(chain, chain', NoKey) /\ Len(chain') <= Len(chain)
    BY <1>5, <2>2, FailToCreateChanges
  <2>t. PICK t : t = chain'
    OBVIOUS
  <2>4. Chain(t) /\ Len(t) \in Nat
    BY <2>3, <2>t, ChainEntries DEF Changes
  <2>5. (Len(chain) <= MaxEntries)'
    BY <2>2, <2>3, <2>4, <2>t
  <2>6. Used'
    <3>1. \A v : ~Entry(t, NoKey, v)
      BY <2>4, HoldsEntry DEF HashMapAssumption
    <3> QED
      BY <1>2, <2>3, <2>t, <3>1, ChangesUsed
  <2>7. created' = created /\ claimed' = claimed /\ consumed' = consumed
    BY <1>2, <1>5 DEF FailToCreate
  <2>8. Counted'
    <3> SUFFICES ASSUME NEW j \in Keys
                 PROVE  claimed'[j] <= created'[j] /\ consumed'[j] + Present(j)' <= created'[j]
      BY DEF Counted
    <3>1. Present(j)' <= Present(j) /\ Present(j)' \in 0 .. 1 /\ Present(j) \in 0 .. 1
      BY <2>2, <2>3, OthersPresent DEF HashMapAssumption
    <3>2. consumed[j] \in Nat /\ created[j] \in Nat
      BY <2>2
    <3>3. consumed[j] + Present(j)' <= created[j]
      BY <2>2, <3>1, <3>2
    <3> QED
      BY <2>2, <2>7, <3>3
  <2>9. created' \in [Keys -> Nat] /\ claimed' \in [Keys -> Nat] /\ consumed' \in [Keys -> Nat]
    BY <2>2, <2>7
  <2>10. NoKey \in Keys \cup {NoKey} /\ UNCHANGED <<lru, frozen>>
    BY <1>2
  <2> QED
    BY <1>1, <1>2, <1>3, <2>1, <2>3, <2>5, <2>6, <2>8, <2>9, <2>10, ChangesInv
<1> QED
  BY <1>4, <1>5 DEF UpdateOnce

LEMMA DeleteInv ==
  ASSUME HashMapAssumption, Inv, UNCHANGED lru, NEW c \in Clients, NEW k \in Keys, Delete(c, k)
  PROVE  Inv'
<1>b. PICK before : before = [client EXCEPT ![c] = Idle]
  OBVIOUS
<1>1. /\ before \in [Clients -> ClientState] /\ before[c] = Idle
      /\ \A d \in Clients : d # c => before[d] = client[d]
  <2>1. PICK locals : locals = Idle
    OBVIOUS
  <2>2. locals \in ClientState /\ before = [client EXCEPT ![c] = locals]
    BY <1>b, <2>1, IdleFields
  <2>3. client \in [Clients -> ClientState]
    BY InvFacts
  <2>4. /\ before \in [Clients -> ClientState] /\ before[c] = locals
        /\ \A d \in Clients : d # c => before[d] = client[d]
    BY <2>2, <2>3
  <2> QED
    BY <2>1, <2>4
<1>2. /\ calls' \in 0 .. MaxCalls /\ writes \in Nat /\ writes \in 0 .. MaxWrites
      /\ writes <= writes /\ UNCHANGED <<lru, frozen, writes, claimed, consumed>>
      /\ frozen \in BOOLEAN
  BY CallsTypes, WritesType, InvFacts DEF Delete
<1>3. CASE MayDelete(k) /\ Remove(k) /\ ChangesAndGoesOn(c, k, Idle)
  <2>1. client' = Disturb(before, k, c) /\ Has(k) /\ Remove(k)
    BY <1>3, <1>b DEF ChangesAndGoesOn, MayDelete
  <2>2. Sound(Mine(before[c], k), chain', frozen, writes)
    BY <1>1, <1>2, IdleSound, MineIdle
  <2>3. UNCHANGED <<lru, frozen, writes, claimed>> /\ consumed' = consumed
    BY <1>2
  <2> QED
    BY <1>1, <1>2, <2>1, <2>2, <2>3, RemoveInv
<1>4. CASE GoesOn(c, Idle) /\ UNCHANGED <<chain, created>>
  <2>1. Sound(Idle, chain, frozen, writes)
    BY <1>2, IdleSound
  <2>2. UNCHANGED <<chain, lru, counters>> /\ frozen' = frozen /\ writes' = writes
    BY <1>2, <1>4 DEF counters
  <2> QED
    BY <1>2, <1>4, <2>1, <2>2, GoesOnInv
<1> QED
  BY <1>3, <1>4 DEF Delete

LEMMA InsertWriteInv ==
  ASSUME HashMapAssumption, Inv, UNCHANGED <<lru, calls>>, NEW c \in Clients, InsertWrite(c)
  PROVE  Inv'
<1>m. PICK me : me = client[c]
  OBVIOUS
<1>1. /\ Chain(chain) /\ frozen \in BOOLEAN /\ Sound(me, chain, frozen, writes)
      /\ calls \in Nat /\ calls <= MaxCalls /\ MaxCalls \in Nat
  BY <1>m, InvFacts
<1>2. /\ me.stage = "insert" /\ UNCHANGED <<frozen, writes, claimed, consumed>>
      /\ writes \in Nat /\ writes \in 0 .. MaxWrites /\ writes <= writes
      /\ calls' \in 0 .. MaxCalls
  BY <1>1, <1>m, WritesType DEF InsertWrite
<1>3. /\ me \in ClientState /\ me.val <= writes /\ me.op = "insert"
      /\ me.key \in Keys /\ me.val # Absent
      /\ me.key \in me.alone => Maps(chain, me.key, me.old)
  BY <1>1, <1>2 DEF Sound, Locals, OldIsCurrent
<1>4. me.val \in Values
  BY <1>3, FieldTypes
<1>5. CASE /\ Create(me.key, me.val)
           /\ ChangesAndGoesOn(c, me.key, Returns([me EXCEPT !.gone = Lookup(me.key)], TRUE))
  <2>l. PICK locals : locals = [me EXCEPT !.gone = Lookup(me.key), !.stage = "returned", !.ok = TRUE]
    OBVIOUS
  <2>1. Returns([me EXCEPT !.gone = Lookup(me.key)], TRUE) = locals
    BY <1>3, <2>l DEF Returns, ClientState
  <2>2. Lookup(me.key) \in Values \cup {Absent}
    BY <1>1, LookupMaps
  <2>3. /\ locals \in ClientState
        /\ locals.op = "insert" /\ locals.stage = "returned" /\ locals.key = me.key
        /\ locals.val = me.val /\ locals.old = me.old /\ locals.gone = Lookup(me.key)
        /\ locals.ok = TRUE /\ locals.alone = me.alone
    BY <1>3, <2>l, <2>2 DEF ClientState, Stages
  <2>y. PICK you : you = Mine(locals, me.key)
    OBVIOUS
  <2>4. /\ you \in ClientState
        /\ you.op = "insert" /\ you.stage = "returned" /\ you.key = me.key
        /\ you.val = me.val /\ you.old = me.old /\ you.gone = Lookup(me.key)
        /\ you.ok = TRUE /\ you.alone = me.alone \ (Gone \ {me.key})
    BY <2>3, <2>y, MineFields
  <2>5. Locals(you, writes)
    BY <1>3, <2>4 DEF Locals
  <2>6. OldWasReplaced(you, frozen)
    BY <1>1, <1>3, <2>4, LookupMaps DEF OldWasReplaced
  <2>7. Sound(you, chain', frozen, writes)
    BY <2>4, <2>5, <2>6, ReturnedSound
  <2>b. PICK before : before = [client EXCEPT ![c] = locals]
    OBVIOUS
  <2>8. /\ before \in [Clients -> ClientState] /\ before[c] = locals
        /\ \A d \in Clients : d # c => before[d] = client[d]
    <3>1. client \in [Clients -> ClientState]
      BY InvFacts
    <3>2. locals \in ClientState
      BY <2>3
    <3> QED
      BY <3>1, <3>2, <2>b
  <2>9. client' = Disturb(before, me.key, c)
    BY <1>5, <2>1, <2>b DEF ChangesAndGoesOn
  <2>10. Sound(Mine(before[c], me.key), chain', frozen, writes') /\ me.val <= writes'
    BY <1>2, <1>3, <2>7, <2>8, <2>y
  <2>11. UNCHANGED <<lru, frozen, consumed>> /\ claimed' = claimed /\ writes' = writes
    BY <1>2
  <2> QED
    BY <1>2, <1>3, <1>4, <1>5, <2>8, <2>9, <2>10, <2>11, CreateInv
<1>6. CASE GoesOn(c, Returns(me, FALSE)) /\ UNCHANGED <<chain, created>>
  <2>l. PICK locals : locals = [me EXCEPT !.stage = "returned", !.ok = FALSE]
    OBVIOUS
  <2>1. /\ locals \in ClientState
        /\ locals.op = "insert" /\ locals.stage = "returned" /\ locals.val = me.val
        /\ locals.ok = FALSE
    BY <1>3, <2>l DEF ClientState, Stages
  <2>2. Locals(locals, writes) /\ OldWasReplaced(locals, frozen)
    BY <1>3, <2>1 DEF Locals, OldWasReplaced
  <2>3. Sound(locals, chain, frozen, writes)
    BY <2>1, <2>2, ReturnedSound
  <2>4. GoesOn(c, locals) /\ UNCHANGED <<chain, lru, frozen, writes, calls, counters>>
    BY <1>2, <1>6, <2>l DEF Returns, counters
  <2> QED
    BY <2>3, <2>4, GivesUpInv
<1> QED
  BY <1>m, <1>5, <1>6 DEF InsertWrite

LEMMA RemoveDeleteInv ==
  ASSUME HashMapAssumption, Inv, UNCHANGED <<lru, calls>>, NEW c \in Clients, RemoveDelete(c)
  PROVE  Inv'
<1>m. PICK me : me = client[c]
  OBVIOUS
<1>1. /\ Chain(chain) /\ frozen \in BOOLEAN /\ Sound(me, chain, frozen, writes)
      /\ calls \in Nat /\ calls <= MaxCalls /\ MaxCalls \in Nat
  BY <1>m, InvFacts
<1>2. /\ me.stage = "remove" /\ UNCHANGED <<frozen, writes, claimed>>
      /\ writes \in Nat /\ writes \in 0 .. MaxWrites /\ writes <= writes
      /\ calls' \in 0 .. MaxCalls
  BY <1>1, <1>m, WritesType DEF RemoveDelete
<1>3. /\ me \in ClientState /\ me.val <= writes /\ me.op = "remove"
      /\ me.key \in Keys /\ me.old # Absent
      /\ me.key \in me.alone => Maps(chain, me.key, me.old)
  BY <1>1, <1>2 DEF Sound, Locals, OldIsCurrent
<1>5. CASE /\ MayDelete(me.key)
           /\ Remove(me.key)
           /\ ChangesAndGoesOn(c, me.key, Returns([me EXCEPT !.gone = Lookup(me.key)], TRUE))
           /\ consumed' = [consumed EXCEPT ![me.key] = @ + 1]
  <2>l. PICK locals : locals = [me EXCEPT !.gone = Lookup(me.key), !.stage = "returned", !.ok = TRUE]
    OBVIOUS
  <2>1. Returns([me EXCEPT !.gone = Lookup(me.key)], TRUE) = locals
    BY <1>3, <2>l DEF Returns, ClientState
  <2>2. Lookup(me.key) \in Values \cup {Absent}
    BY <1>1, LookupMaps
  <2>3. /\ locals \in ClientState
        /\ locals.op = "remove" /\ locals.stage = "returned" /\ locals.key = me.key
        /\ locals.val = me.val /\ locals.old = me.old /\ locals.gone = Lookup(me.key)
        /\ locals.ok = TRUE /\ locals.alone = me.alone
    BY <1>3, <2>l, <2>2 DEF ClientState, Stages
  <2>y. PICK you : you = Mine(locals, me.key)
    OBVIOUS
  <2>4. /\ you \in ClientState
        /\ you.op = "remove" /\ you.stage = "returned" /\ you.key = me.key
        /\ you.val = me.val /\ you.old = me.old /\ you.gone = Lookup(me.key)
        /\ you.ok = TRUE /\ you.alone = me.alone \ (Gone \ {me.key})
    BY <2>3, <2>y, MineFields
  <2>5. Locals(you, writes)
    BY <1>3, <2>4 DEF Locals
  <2>6. OldWasReplaced(you, frozen)
    BY <1>1, <1>3, <2>4, LookupMaps DEF OldWasReplaced
  <2>7. Sound(you, chain', frozen, writes)
    BY <2>4, <2>5, <2>6, ReturnedSound
  <2>b. PICK before : before = [client EXCEPT ![c] = locals]
    OBVIOUS
  <2>8. /\ before \in [Clients -> ClientState] /\ before[c] = locals
        /\ \A d \in Clients : d # c => before[d] = client[d]
    <3>1. client \in [Clients -> ClientState]
      BY InvFacts
    <3>2. locals \in ClientState
      BY <2>3
    <3> QED
      BY <3>1, <3>2, <2>b
  <2>9. client' = Disturb(before, me.key, c) /\ Has(me.key) /\ Remove(me.key)
    BY <1>5, <2>1, <2>b DEF ChangesAndGoesOn, MayDelete
  <2>10. Sound(Mine(before[c], me.key), chain', frozen, writes)
    BY <2>7, <2>8, <2>y
  <2>11. UNCHANGED <<lru, frozen, writes, claimed>>
    BY <1>2
  <2> QED
    BY <1>2, <1>3, <1>5, <2>8, <2>9, <2>10, <2>11, RemoveInv
<1>6. CASE ~MayDelete(me.key) /\ GoesOn(c, Returns(me, FALSE)) /\ UNCHANGED <<chain, created, consumed>>
  <2>l. PICK locals : locals = [me EXCEPT !.stage = "returned", !.ok = FALSE]
    OBVIOUS
  <2>1. /\ locals \in ClientState
        /\ locals.op = "remove" /\ locals.stage = "returned" /\ locals.val = me.val
        /\ locals.ok = FALSE /\ locals.key = me.key /\ locals.alone = me.alone
    BY <1>3, <2>l DEF ClientState, Stages
  <2>2. Locals(locals, writes)
    BY <1>3, <2>1 DEF Locals
  <2>3. OldWasReplaced(locals, frozen)
    <3>1. me.key \in me.alone => Has(me.key)
      BY <1>3 DEF Maps, Has
    <3> QED
      BY <1>6, <2>1, <3>1 DEF OldWasReplaced, MayDelete
  <2>4. Sound(locals, chain, frozen, writes)
    BY <2>1, <2>2, <2>3, ReturnedSound
  <2>5. GoesOn(c, locals) /\ UNCHANGED <<chain, lru, frozen, writes, calls, counters>>
    BY <1>2, <1>6, <2>l DEF Returns, counters
  <2> QED
    BY <2>4, <2>5, GivesUpInv
<1> QED
  BY <1>m, <1>5, <1>6 DEF RemoveDelete

(* A key that is the client's own after its change of k is k, or it has    *)
(* not been reached.                                                       *)
LEMMA OwnAfterChange ==
  ASSUME Chain(chain), NEW k, Changes(chain, chain', k), NEW j \in Keys, j \notin Gone \ {k}, j # k
  PROVE  /\ Holds(chain, j) <=> Holds(chain', j)
         /\ \A v : Entry(chain, j, v) <=> Entry(chain', j, v)
<1>1. Holds(chain, j) => Holds(chain', j)
  BY DEF Gone, Has
<1>t. PICK t : t = chain'
  OBVIOUS
<1>2. Changes(chain, t, k) /\ (Holds(chain, j) => Holds(t, j))
  BY <1>1, <1>t
<1>3. /\ Holds(chain, j) <=> Holds(t, j)
      /\ \A v : Entry(chain, j, v) <=> Entry(t, j, v)
  BY <1>2, OutOfReach
<1> QED
  BY <1>3, <1>t

(* One more key of a batch is done.                                        *)
LEMMA OneDoneFields ==
  ASSUME NEW me \in ClientState, me.done < Len(me.todo), me.stage \in {"removeBatch", "insertBatch"},
         NEW locals, locals = OneDone(me)
  PROVE  /\ locals \in ClientState /\ locals.stage # "idle"
         /\ locals.op = me.op /\ locals.key = me.key /\ locals.val = me.val
         /\ locals.old = me.old /\ locals.gone = me.gone /\ locals.todo = me.todo
         /\ locals.done = me.done + 1 /\ locals.alone = me.alone
         /\ IF me.done + 1 = Len(me.todo) THEN locals.stage = "returned" /\ locals.ok = TRUE
            ELSE locals.stage = me.stage /\ locals.done < Len(me.todo)
         /\ me.done + 1 \in DOMAIN me.todo
<1>1. me.done \in Nat /\ Len(me.todo) \in Nat /\ DOMAIN me.todo = 1 .. Len(me.todo)
  BY FieldTypes
<1>2. me.done + 1 \in DOMAIN me.todo /\ me.done + 1 \in Nat
  BY <1>1
<1>3. CASE me.done + 1 = Len(me.todo)
  <2>1. locals = [me EXCEPT !.done = me.done + 1, !.stage = "returned", !.ok = TRUE]
    BY <1>3 DEF OneDone, Returns, ClientState
  <2> QED
    BY <1>2, <1>3, <2>1 DEF ClientState, Stages
<1>4. CASE me.done + 1 # Len(me.todo)
  <2>1. locals = [me EXCEPT !.done = me.done + 1]
    BY <1>4 DEF OneDone, ClientState
  <2>2. me.done + 1 < Len(me.todo)
    BY <1>1, <1>4
  <2> QED
    BY <1>2, <1>4, <2>1, <2>2 DEF ClientState, Stages
<1> QED
  BY <1>3, <1>4

LEMMA GiveUpFields ==
  ASSUME NEW me \in ClientState, NEW locals, locals = GiveUp(me)
  PROVE  /\ locals \in ClientState /\ locals.stage = "returned" /\ locals.ok = FALSE
         /\ locals.op = me.op /\ locals.val = me.val /\ locals.todo = me.todo
         /\ locals.done = me.done /\ locals.alone = me.alone
BY DEF GiveUp, Returns, ClientState, Stages

LEMMA RemoveBatchStepInv ==
  ASSUME HashMapAssumption, Inv, UNCHANGED <<lru, calls>>, NEW c \in Clients, RemoveBatchStep(c)
  PROVE  Inv'
<1>m. PICK me : me = client[c]
  OBVIOUS
<1>k. PICK k : k = me.todo[me.done + 1]
  OBVIOUS
<1>1. /\ Chain(chain) /\ frozen \in BOOLEAN /\ Sound(me, chain, frozen, writes)
      /\ calls \in Nat /\ calls <= MaxCalls /\ MaxCalls \in Nat
  BY <1>m, InvFacts
<1>2. /\ me.stage = "removeBatch" /\ UNCHANGED <<frozen, writes, claimed, consumed>>
      /\ writes \in Nat /\ writes \in 0 .. MaxWrites /\ writes <= writes
      /\ calls' \in 0 .. MaxCalls
  BY <1>1, <1>m, WritesType DEF RemoveBatchStep
<1>3. /\ me \in ClientState /\ me.val <= writes /\ me.op \in {"clear", "removeBatch"}
      /\ me.done < Len(me.todo)
  BY <1>1, <1>2 DEF Sound, Locals
<1>4. /\ me.done \in Nat /\ Len(me.todo) \in Nat /\ DOMAIN me.todo = 1 .. Len(me.todo)
      /\ me.alone \in SUBSET Keys /\ \A i \in DOMAIN me.todo : me.todo[i] \in Keys
  BY <1>3, FieldTypes
<1>5. me.done + 1 \in DOMAIN me.todo /\ k \in Keys
  BY <1>3, <1>4, <1>k
<1>6. CASE MayDelete(k) /\ Remove(k) /\ ChangesAndGoesOn(c, k, OneDone(me))
  <2>l. PICK locals : locals = OneDone(me)
    OBVIOUS
  <2>1. /\ locals \in ClientState /\ locals.stage # "idle"
        /\ locals.op = me.op /\ locals.val = me.val /\ locals.todo = me.todo
        /\ locals.done = me.done + 1 /\ locals.alone = me.alone
        /\ IF me.done + 1 = Len(me.todo) THEN locals.stage = "returned" /\ locals.ok = TRUE
           ELSE locals.stage = me.stage /\ locals.done < Len(me.todo)
    BY <1>2, <1>3, <2>l, OneDoneFields
  <2>y. PICK you : you = Mine(locals, k)
    OBVIOUS
  <2>2. /\ you \in ClientState
        /\ you.op = me.op /\ you.stage = locals.stage /\ you.val = me.val /\ you.todo = me.todo
        /\ you.done = me.done + 1 /\ you.ok = locals.ok
        /\ you.alone = me.alone \ (Gone \ {k})
    BY <2>1, <2>y, MineFields
  <2>3. you.stage \in {"removeBatch", "returned"}
    BY <1>2, <2>1, <2>2
  <2>4. Locals(you, writes)
    BY <1>2, <1>3, <2>1, <2>2 DEF Locals
  <2>t. PICK t : t = chain'
    OBVIOUS
  <2>5. Changes(chain, chain', k) /\ ~Holds(chain', k)
    BY <1>1, <1>5, <1>6, RemoveChanges
  <2>6. ASSUME NEW j \in you.alone, Holds(t, j)
        PROVE  j \in me.alone /\ j # k /\ Holds(chain, j)
    <3>1. j # k /\ j \in Keys /\ j \in me.alone /\ j \notin Gone \ {k}
      BY <1>4, <2>2, <2>5, <2>6, <2>t
    <3> QED
      BY <1>1, <2>5, <2>6, <2>t, <3>1, OwnAfterChange
  <2>7. ASSUME me.op = "clear", NEW j \in you.alone, Holds(t, j)
        PROVE  \E i \in DOMAIN me.todo : me.done + 1 < i /\ me.todo[i] = j
    <3>1. StillListed(me, j) /\ j # k
      BY <1>1, <1>2, <2>6, <2>7 DEF Sound, ClearMissesNone
    <3>2. PICK i \in DOMAIN me.todo : me.done < i /\ me.todo[i] = j
      BY <3>1 DEF StillListed
    <3>3. i # me.done + 1
      BY <1>k, <3>1, <3>2
    <3>4. me.done + 1 < i
      BY <1>4, <3>2, <3>3
    <3> QED
      BY <3>2, <3>4
  <2>8. ClearMissesNone(you, t)
    BY <2>2, <2>7 DEF ClearMissesNone, StillListed
  <2>9. ClearWasExact(you, t, frozen)
    <3> SUFFICES ASSUME you.stage = "returned", me.op = "clear", NEW j \in you.alone, Holds(t, j)
                 PROVE  FALSE
      BY <1>2, <2>1, <2>2 DEF ClearWasExact
    <3>1. me.done + 1 = Len(me.todo)
      BY <1>2, <2>1, <2>2
    <3>2. PICK i \in DOMAIN me.todo : me.done + 1 < i
      BY <2>7
    <3> QED
      BY <1>4, <3>1, <3>2
  <2>10. ClearFindsAll(you, t)
    <3> SUFFICES ASSUME me.op = "clear", you.alone = Keys
                 PROVE  /\ \A i, j \in DOMAIN me.todo : me.todo[i] = me.todo[j] => i = j
                        /\ \A i \in DOMAIN me.todo : me.done + 1 < i => Holds(t, me.todo[i])
      BY <2>2 DEF ClearFindsAll
    <3>1. me.alone = Keys
      BY <1>4, <2>2
    <3>2. /\ \A i, j \in DOMAIN me.todo : me.todo[i] = me.todo[j] => i = j
          /\ \A i \in DOMAIN me.todo : me.done < i => Holds(chain, me.todo[i])
      BY <1>1, <1>2, <3>1 DEF Sound, ClearFindsAll
    <3>3. ASSUME NEW i \in DOMAIN me.todo, me.done + 1 < i PROVE Holds(t, me.todo[i])
      <4>1. me.done < i /\ i # me.done + 1
        BY <1>4, <3>3
      <4>2. Holds(chain, me.todo[i]) /\ me.todo[i] # k /\ me.todo[i] \in Keys
        BY <1>4, <1>5, <1>k, <3>2, <4>1
      <4>3. me.todo[i] \notin Gone \ {k}
        BY <2>2, <4>2
      <4> QED
        BY <1>1, <2>5, <2>t, <4>2, <4>3, OwnAfterChange
    <3> QED
      BY <3>2, <3>3
  <2>11. Sound(you, t, frozen, writes)
    BY <1>3, <2>2, <2>3, <2>4, <2>8, <2>9, <2>10 DEF Sound, OldIsCurrent, OldWasReplaced,
       WalkMissesNone, WalkIsExact, LenWasExact, BatchIsPrefix
  <2>b. PICK before : before = [client EXCEPT ![c] = locals]
    OBVIOUS
  <2>12. /\ before \in [Clients -> ClientState] /\ before[c] = locals
         /\ \A d \in Clients : d # c => before[d] = client[d]
    <3>1. client \in [Clients -> ClientState]
      BY InvFacts
    <3>2. locals \in ClientState
      BY <2>1
    <3> QED
      BY <3>1, <3>2, <2>b
  <2>13. client' = Disturb(before, k, c) /\ Has(k) /\ Remove(k)
    BY <1>6, <2>l, <2>b DEF ChangesAndGoesOn, MayDelete
  <2>14. Sound(Mine(before[c], k), chain', frozen, writes)
    BY <2>11, <2>12, <2>y, <2>t
  <2>15. UNCHANGED <<lru, frozen, writes, claimed>> /\ consumed' = consumed
    BY <1>2
  <2> QED
    BY <1>2, <1>5, <2>12, <2>13, <2>14, <2>15, RemoveInv
<1>7. CASE ~MayDelete(k) /\ GoesOn(c, GiveUp(me)) /\ UNCHANGED <<chain, created>>
  <2>l. PICK locals : locals = GiveUp(me)
    OBVIOUS
  <2>1. /\ locals \in ClientState /\ locals.stage = "returned" /\ locals.ok = FALSE
        /\ locals.op = me.op /\ locals.val = me.val /\ locals.alone = me.alone
    BY <1>3, <2>l, GiveUpFields
  <2>2. Locals(locals, writes)
    BY <1>3, <2>1 DEF Locals
  <2>3. ClearWasExact(locals, chain, frozen)
    <3> SUFFICES ASSUME me.op = "clear", me.alone = Keys PROVE frozen
      BY <2>1 DEF ClearWasExact
    <3>1. me.done < me.done + 1
      BY <1>4
    <3>2. Has(k)
      BY <1>1, <1>2, <1>5, <1>k, <3>1 DEF Sound, ClearFindsAll, Has
    <3> QED
      BY <1>7, <3>2 DEF MayDelete
  <2>4. Sound(locals, chain, frozen, writes)
    BY <1>3, <2>1, <2>2, <2>3 DEF Sound, OldIsCurrent, OldWasReplaced, WalkMissesNone,
       WalkIsExact, LenWasExact, ClearMissesNone, ClearFindsAll, BatchIsPrefix
  <2>5. GoesOn(c, locals) /\ UNCHANGED <<chain, lru, frozen, writes, calls, counters>>
    BY <1>2, <1>7, <2>l DEF counters
  <2> QED
    BY <2>4, <2>5, GivesUpInv
<1> QED
  BY <1>m, <1>k, <1>6, <1>7 DEF RemoveBatchStep

LEMMA InsertBatchStepInv ==
  ASSUME HashMapAssumption, Inv, UNCHANGED <<lru, calls>>, NEW c \in Clients, InsertBatchStep(c)
  PROVE  Inv'
<1>m. PICK me : me = client[c]
  OBVIOUS
<1>k. PICK k : k = me.todo[me.done + 1]
  OBVIOUS
<1>1. /\ Chain(chain) /\ frozen \in BOOLEAN /\ Sound(me, chain, frozen, writes)
      /\ calls \in Nat /\ calls <= MaxCalls /\ MaxCalls \in Nat
  BY <1>m, InvFacts
<1>2. /\ me.stage = "insertBatch" /\ UNCHANGED <<frozen, writes, claimed, consumed>>
      /\ writes \in Nat /\ writes \in 0 .. MaxWrites /\ writes <= writes
      /\ calls' \in 0 .. MaxCalls
  BY <1>1, <1>m, WritesType DEF InsertBatchStep
<1>3. /\ me \in ClientState /\ me.val <= writes /\ me.op = "insertBatch" /\ me.val # Absent
      /\ me.done < Len(me.todo)
  BY <1>1, <1>2 DEF Sound, Locals
<1>4. /\ me.done \in Nat /\ Len(me.todo) \in Nat /\ DOMAIN me.todo = 1 .. Len(me.todo)
      /\ me.alone \in SUBSET Keys /\ \A i \in DOMAIN me.todo : me.todo[i] \in Keys
      /\ me.val \in Values
  BY <1>3, FieldTypes
<1>5. me.done + 1 \in DOMAIN me.todo /\ k \in Keys
  BY <1>3, <1>4, <1>k
<1>8. \A j \in me.alone : Entry(chain, j, me.val) <=> \E i \in 1 .. me.done : me.todo[i] = j
  BY <1>1, <1>3 DEF Sound, BatchIsPrefix
<1>6. CASE Create(k, me.val) /\ ChangesAndGoesOn(c, k, OneDone(me))
  <2>l. PICK locals : locals = OneDone(me)
    OBVIOUS
  <2>1. /\ locals \in ClientState /\ locals.stage # "idle"
        /\ locals.op = me.op /\ locals.val = me.val /\ locals.todo = me.todo
        /\ locals.done = me.done + 1 /\ locals.alone = me.alone
        /\ IF me.done + 1 = Len(me.todo) THEN locals.stage = "returned" /\ locals.ok = TRUE
           ELSE locals.stage = me.stage /\ locals.done < Len(me.todo)
    BY <1>2, <1>3, <2>l, OneDoneFields
  <2>y. PICK you : you = Mine(locals, k)
    OBVIOUS
  <2>2. /\ you \in ClientState
        /\ you.op = me.op /\ you.stage = locals.stage /\ you.val = me.val /\ you.todo = me.todo
        /\ you.done = me.done + 1 /\ you.ok = locals.ok
        /\ you.alone = me.alone \ (Gone \ {k})
    BY <2>1, <2>y, MineFields
  <2>3. you.stage \in {"insertBatch", "returned"}
    BY <1>2, <2>1, <2>2
  <2>4. Locals(you, writes)
    BY <1>2, <1>3, <2>1, <2>2 DEF Locals
  <2>t. PICK t : t = chain'
    OBVIOUS
  <2>5. Changes(chain, chain', k) /\ \A w : Entry(t, k, w) <=> w = me.val
    BY <1>1, <1>4, <1>5, <1>6, <2>t, CreateChanges
  <2>6. ASSUME NEW j \in you.alone
        PROVE  Entry(t, j, me.val) <=> \E i \in 1 .. me.done + 1 : me.todo[i] = j
    <3>1. CASE j = k
      <4>1. Entry(t, j, me.val)
        BY <2>5, <3>1
      <4>2. me.done + 1 \in 1 .. me.done + 1 /\ me.todo[me.done + 1] = j
        BY <1>4, <1>k, <3>1
      <4> QED
        BY <4>1, <4>2
    <3>2. CASE j # k
      <4>1. j \in me.alone /\ j \in Keys /\ j \notin Gone \ {k}
        BY <1>4, <2>2
      <4>2. Entry(chain, j, me.val) <=> Entry(t, j, me.val)
        BY <1>1, <2>5, <2>t, <3>2, <4>1, OwnAfterChange
      <4>3. Entry(chain, j, me.val) <=> \E i \in 1 .. me.done : me.todo[i] = j
        BY <1>8, <4>1
      <4>4. \A i \in 1 .. me.done + 1 : i = me.done + 1 \/ i \in 1 .. me.done
        BY <1>4
      <4>5. \A i \in 1 .. me.done : i \in 1 .. me.done + 1
        BY <1>4
      <4>6. me.todo[me.done + 1] # j
        BY <1>k, <3>2
      <4> QED
        BY <4>2, <4>3, <4>4, <4>5, <4>6
    <3> QED
      BY <3>1, <3>2
  <2>7. BatchIsPrefix(you, t)
    BY <1>2, <2>1, <2>2, <2>6 DEF BatchIsPrefix
  <2>8. Sound(you, t, frozen, writes)
    BY <1>3, <2>2, <2>3, <2>4, <2>7 DEF Sound, OldIsCurrent, OldWasReplaced, WalkMissesNone,
       WalkIsExact, LenWasExact, ClearMissesNone, ClearFindsAll, ClearWasExact
  <2>b. PICK before : before = [client EXCEPT ![c] = locals]
    OBVIOUS
  <2>9. /\ before \in [Clients -> ClientState] /\ before[c] = locals
        /\ \A d \in Clients : d # c => before[d] = client[d]
    <3>1. client \in [Clients -> ClientState]
      BY InvFacts
    <3>2. locals \in ClientState
      BY <2>1
    <3> QED
      BY <3>1, <3>2, <2>b
  <2>10. client' = Disturb(before, k, c)
    BY <1>6, <2>l, <2>b DEF ChangesAndGoesOn
  <2>11. Sound(Mine(before[c], k), chain', frozen, writes') /\ me.val <= writes'
    BY <1>2, <1>3, <2>8, <2>9, <2>y, <2>t
  <2>12. UNCHANGED <<lru, frozen, consumed>> /\ claimed' = claimed /\ writes' = writes
    BY <1>2
  <2> QED
    BY <1>2, <1>4, <1>5, <1>6, <2>9, <2>10, <2>11, <2>12, CreateInv
<1>7. CASE GoesOn(c, GiveUp(me)) /\ UNCHANGED <<chain, created>>
  <2>l. PICK locals : locals = GiveUp(me)
    OBVIOUS
  <2>1. /\ locals \in ClientState /\ locals.stage = "returned" /\ locals.ok = FALSE
        /\ locals.op = me.op /\ locals.val = me.val /\ locals.todo = me.todo
        /\ locals.done = me.done /\ locals.alone = me.alone
    BY <1>3, <2>l, GiveUpFields
  <2>2. Locals(locals, writes)
    BY <1>3, <2>1 DEF Locals
  <2>3. BatchIsPrefix(locals, chain)
    BY <1>8, <2>1 DEF BatchIsPrefix
  <2>4. Sound(locals, chain, frozen, writes)
    BY <1>3, <2>1, <2>2, <2>3 DEF Sound, OldIsCurrent, OldWasReplaced, WalkMissesNone,
       WalkIsExact, LenWasExact, ClearMissesNone, ClearFindsAll, ClearWasExact
  <2>5. GoesOn(c, locals) /\ UNCHANGED <<chain, lru, frozen, writes, calls, counters>>
    BY <1>2, <1>7, <2>l DEF counters
  <2> QED
    BY <2>4, <2>5, GivesUpInv
<1> QED
  BY <1>m, <1>k, <1>6, <1>7 DEF InsertBatchStep

LEMMA ProgramUpdateInv ==
  ASSUME HashMapAssumption, Inv, UNCHANGED lru, NEW k \in Keys, ProgramUpdate(k)
  PROVE  Inv'
<1>1. /\ writes' = writes + 1 /\ writes' \in 0 .. MaxWrites /\ writes <= writes'
      /\ writes' \in Values /\ writes' \in Nat
      /\ calls \in Nat /\ calls <= MaxCalls /\ MaxCalls \in Nat
      /\ client \in [Clients -> ClientState]
  BY NewValueTypes, InvFacts DEF ProgramUpdate
<1>2. /\ Create(k, writes') /\ client' = Disturb(client, k, NoKey)
      /\ UNCHANGED <<lru, frozen, consumed>> /\ claimed' = claimed /\ calls' = calls
  BY <1>1 DEF ProgramUpdate
<1>3. calls' \in 0 .. MaxCalls /\ writes' <= writes'
  BY <1>1, <1>2
<1>4. NoKey \notin Clients
  BY DEF HashMapAssumption
<1>5. \A c \in Clients : c # NoKey => client[c] = client[c]
  OBVIOUS
<1> QED
  BY <1>1, <1>2, <1>3, <1>4, <1>5, CreateInv

LEMMA ProgramDeleteInv ==
  ASSUME HashMapAssumption, Inv, UNCHANGED lru, NEW k \in Keys, ProgramDelete(k)
  PROVE  Inv'
<1>1. /\ calls \in Nat /\ calls <= MaxCalls /\ MaxCalls \in Nat
      /\ client \in [Clients -> ClientState]
  BY InvFacts
<1>2. /\ Has(k) /\ Remove(k) /\ client' = Disturb(client, k, NoKey)
      /\ UNCHANGED <<lru, frozen, writes, claimed>> /\ consumed' = consumed /\ calls' = calls
  BY DEF ProgramDelete
<1>3. calls' \in 0 .. MaxCalls
  BY <1>1, <1>2
<1>4. NoKey \notin Clients
  BY DEF HashMapAssumption
<1>5. \A c \in Clients : c # NoKey => client[c] = client[c]
  OBVIOUS
<1> QED
  BY <1>1, <1>2, <1>3, <1>4, <1>5, RemoveInv

-----------------------------------------------------------------------------
LEMMA InitInv ==
  ASSUME HashMapAssumption, Init
  PROVE  Inv
<1>1. /\ MaxEntries \in Nat /\ MaxWrites \in Nat /\ MaxCalls \in Nat /\ 0 \in Nat
  BY DEF HashMapAssumption
<1>2. Chain(chain) /\ Len(chain) = 0 /\ ~\E i \in DOMAIN chain : TRUE
  <2>1. chain = <<>>
    BY DEF Init
  <2>2. <<>> \in Seq([key : Keys, val : Values]) /\ Len(<<>>) = 0
    BY EmptySeq
  <2> QED
    BY <2>1, <2>2 DEF Chain, OnePerKey, InBuckets
<1>3. /\ client \in [Clients -> ClientState]
      /\ \A c \in Clients : client[c] = Idle
  BY IdleFields DEF Init
<1>4. AllSound
  BY <1>1, <1>3, IdleSound DEF AllSound, Init
<1>5. /\ created = [k \in Keys |-> 0] /\ claimed = [k \in Keys |-> 0]
      /\ consumed = [k \in Keys |-> 0]
  BY DEF Init
<1>6. /\ created \in [Keys -> Nat] /\ claimed \in [Keys -> Nat] /\ consumed \in [Keys -> Nat]
  BY <1>5
<1>7. Counted
  BY <1>2, <1>5 DEF Counted, Present, Has, Holds
<1>8. Used
  BY <1>2 DEF Used
<1>9. /\ lru \in BOOLEAN /\ frozen \in BOOLEAN /\ writes \in 0 .. MaxWrites
      /\ calls \in 0 .. MaxCalls
  <2>1. 0 \in 0 .. MaxWrites /\ 0 \in 0 .. MaxCalls
    BY <1>1
  <2>2. lru \in BOOLEAN /\ frozen = FALSE /\ writes = 0 /\ calls = 0
    BY DEF Init
  <2> QED
    BY <2>1, <2>2
<1>10. Len(chain) <= MaxEntries
  BY <1>1, <1>2
<1>11. Parts
  BY <1>2, <1>3, <1>4, <1>6, <1>7, <1>8, <1>9, <1>10 DEF Parts
<1> QED
  BY <1>11, InvFrom

LEMMA NextInv == HashMapAssumption /\ Inv /\ [Next]_vars => Inv'
<1> SUFFICES ASSUME HashMapAssumption, Inv, [Next]_vars PROVE Inv'
  OBVIOUS
<1>1. CASE UNCHANGED vars
  BY <1>1 DEF vars, counters, Inv, TypeOK, Counted, Present, Has, Used, AllSound
<1>2. ASSUME UNCHANGED lru, NEW c \in Clients, Call(c) PROVE Inv'
  <2>1. ASSUME NEW k \in Keys, NEW op \in DOMAIN Flags, UpdateOnce(c, k, op) PROVE Inv'
    BY <1>2, <2>1, UpdateOnceInv
  <2>2. ASSUME NEW k \in Keys, Delete(c, k) \/ InsertLookup(c, k) \/ RemoveLookup(c, k)
        PROVE  Inv'
    BY <1>2, <2>2, DeleteInv, InsertLookupInv, RemoveLookupInv
  <2>3. ASSUME NEW op \in {"len", "clear"}, KeysStart(c, op) PROVE Inv'
    BY <1>2, <2>3, KeysStartInv
  <2>4. ASSUME NEW keys \in Batches, RemoveBatch(c, keys) \/ InsertBatch(c, keys) PROVE Inv'
    BY <1>2, <2>4, RemoveBatchInv, InsertBatchInv
  <2>5. CASE Freeze(c)
    BY <1>2, <2>5, FreezeInv
  <2> QED
    BY <1>2, <2>1, <2>2, <2>3, <2>4, <2>5 DEF Call
<1>3. ASSUME UNCHANGED lru, NEW c \in Clients, Continue(c) PROVE Inv'
  <2>1. UNCHANGED <<lru, calls>>
    BY <1>3 DEF Continue
  <2>2. InsertWrite(c) \/ RemoveDelete(c) \/ KeysNext(c) \/ RemoveBatchStep(c) \/ InsertBatchStep(c)
    BY <1>3 DEF Continue
  <2> QED
    BY <1>3, <2>1, <2>2, InsertWriteInv, RemoveDeleteInv, KeysNextInv, RemoveBatchStepInv,
       InsertBatchStepInv
<1>4. ASSUME UNCHANGED lru, NEW k \in Keys, ProgramUpdate(k) \/ ProgramDelete(k) PROVE Inv'
  BY <1>4, ProgramUpdateInv, ProgramDeleteInv
<1> QED
  BY <1>1, <1>2, <1>3, <1>4 DEF Next

(* Inv holds in every state, whatever threads and programs do to the map   *)
(* and in whatever order.                                                  *)
THEOREM Invariance == Spec => []Inv
<1>1. Init => Inv
  BY InitInv, HashMapAssumption
<1>2. Inv /\ [Next]_vars => Inv'
  BY NextInv, HashMapAssumption
<1> QED
  BY <1>1, <1>2, PTL DEF Spec

(* Every variable keeps its type: the map has at most one entry for a key  *)
(* and at most max_entries of them.                                        *)
THEOREM TypeCorrect == Spec => []TypeOK
<1>1. Inv => TypeOK
  BY DEF Inv
<1> QED
  BY <1>1, Invariance, PTL

(* insert and remove return what they have replaced or removed, unless the *)
(* key was changed between their two calls.                                *)
THEOREM ReturnedIsReplaced == Spec => []ReturnsWhatItReplaced
<1>1. Inv => ReturnsWhatItReplaced
  <2> SUFFICES ASSUME Inv PROVE ReturnsWhatItReplaced
    OBVIOUS
  <2>1. \A c \in Clients : Sound(client[c], chain, frozen, writes)
    BY DEF Inv, AllSound
  <2> QED
    BY <2>1 DEF ReturnsWhatItReplaced, Sound, OldWasReplaced
<1> QED
  BY <1>1, Invariance, PTL

(* No two threads are told that they made the same entry, or are handed    *)
(* it.                                                                     *)
THEOREM OneOwner == Spec => []EntriesHaveOneOwner
<1>1. Inv => EntriesHaveOneOwner
  <2> SUFFICES ASSUME Inv, NEW k \in Keys
               PROVE  claimed[k] <= created[k] /\ consumed[k] <= created[k]
    BY DEF EntriesHaveOneOwner
  <2>1. /\ claimed[k] <= created[k] /\ consumed[k] + Present(k) <= created[k]
        /\ consumed[k] \in Nat /\ created[k] \in Nat
    BY InvFacts, HashMapAssumption
  <2>2. Present(k) \in 0 .. 1
    BY DEF Present
  <2> QED
    BY <2>1, <2>2
<1> QED
  BY <1>1, Invariance, PTL

(* clear leaves none of its own keys behind if it returns Ok, and fails    *)
(* only on a frozen map or if somebody else has changed it.                *)
THEOREM ClearedIsExact == Spec => []ClearIsExact
<1>1. Inv => ClearIsExact
  <2> SUFFICES ASSUME Inv PROVE ClearIsExact
    OBVIOUS
  <2>1. \A c \in Clients : Sound(client[c], chain, frozen, writes)
    BY DEF Inv, AllSound
  <2> QED
    BY <2>1 DEF ClearIsExact, Returned, Has, Sound, ClearWasExact
<1> QED
  BY <1>1, Invariance, PTL

(* len counts every entry of a map that nobody changes once.               *)
THEOREM LengthIsExact == Spec => []LenIsExact
<1>1. Inv => LenIsExact
  <2> SUFFICES ASSUME Inv PROVE LenIsExact
    OBVIOUS
  <2>1. \A c \in Clients : Sound(client[c], chain, frozen, writes)
    BY DEF Inv, AllSound
  <2> QED
    BY <2>1 DEF LenIsExact, Returned, Sound, LenWasExact
<1> QED
  BY <1>1, Invariance, PTL

(* insert_batch writes a prefix, and all of it if it returns Ok.           *)
THEOREM PrefixIsWritten == Spec => []BatchWritesAPrefix
<1>1. Inv => BatchWritesAPrefix
  <2> SUFFICES ASSUME Inv, NEW c \in Clients, client[c].op = "insertBatch"
               PROVE  /\ client[c].stage = "returned" /\ client[c].ok =>
                           client[c].done = Len(client[c].todo)
                      /\ \A k \in client[c].alone :
                           Lookup(k) = client[c].val <=>
                             \E i \in 1 .. client[c].done : client[c].todo[i] = k
    BY DEF BatchWritesAPrefix
  <2>1. Sound(client[c], chain, frozen, writes) /\ Chain(chain)
    BY InvFacts, HashMapAssumption
  <2>2. BatchIsPrefix(client[c], chain) /\ client[c].val # Absent
    BY <2>1 DEF Sound, Locals
  <2>3. ASSUME NEW k PROVE Lookup(k) = client[c].val <=> Entry(chain, k, client[c].val)
    <3>1. Maps(chain, k, Lookup(k)) /\ (Maps(chain, k, client[c].val) => client[c].val = Lookup(k))
      BY <2>1, LookupMaps
    <3>2. Entry(chain, k, client[c].val) => Holds(chain, k)
      BY <2>1, HoldsEntry
    <3> QED
      BY <2>2, <3>1, <3>2 DEF Maps
  <2> QED
    BY <2>2, <2>3 DEF BatchIsPrefix
<1> QED
  BY <1>1, Invariance, PTL
=============================================================================
