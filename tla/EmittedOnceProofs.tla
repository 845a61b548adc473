-------------------------- MODULE EmittedOnceProofs --------------------------
(***************************************************************************)
(* Proof of EmittedOnce of module TryInit: what reaches the subscriber of  *)
(* an object is in the order in which its programs wrote it, and has the   *)
(* metadata of its own callsite.                                           *)
(***************************************************************************)
EXTENDS TryInitProofs

(* The last call for an object that a thread has is the one it is in.      *)
Latest ==
  \A t \in Threads, c \in Calls :
    caller[t].stage # "free" /\ tracer[c].object = caller[t].object => c <= caller[t].call

(* A ring holds records of its own object, in the order they were written, *)
(* and so do the queues and the subscriber: an emitted record has come     *)
(* through a handler of its object.                                        *)
RingInOrder(o) ==
  LET records == ring[o].records IN
  /\ \A i \in DOMAIN records : ObjectOf(records[i]) = o
  /\ \A i, j \in DOMAIN records : i < j => records[i] < records[j]

QueueOfObject(c) ==
  LET queue == tracer[c].queue IN
  \A i \in DOMAIN queue : ObjectOf(queue[i]) = tracer[c].object

Handled(event) ==
  /\ event.metadata = written[event.record].record
  /\ \E c \in CallsFor(ObjectOf(event.record)) : tracer[c].handler # "none"

FromTheRing ==
  /\ \A o \in Calls : RingInOrder(o)
  /\ \A c \in Calls : QueueOfObject(c)
  /\ \A j \in DOMAIN emitted : Handled(emitted[j])

(* The records of an object on their way: what its ring still has, what a  *)
(* queue holds, and what is out.                                           *)
ToRead(o) ==
  {ring[o].records[k] : k \in {k \in DOMAIN ring[o].records : k > ring[o].consumed}}
Queued(c) == {tracer[c].queue[i] : i \in DOMAIN tracer[c].queue}
Out(o) == {n \in DOMAIN written : IsEmitted(n) /\ ObjectOf(n) = o}

Before(M, N) == \A m \in M, n \in N : m < n

Increasing(queue) == \A i, j \in DOMAIN queue : i < j => queue[i] < queue[j]

(* What is still to be read by a reader that is on its own is newer than   *)
(* what it has read, ...                                                   *)
ReadInOrder(c) ==
  LET o == tracer[c].object IN
  /\ tracer[c].reader = "polling" => tracer[c].at = ring[o].consumed
  /\ Increasing(tracer[c].queue)
  /\ IsReading(c) => Before(Queued(c), ToRead(o))

(* ... and that is newer than what its handler has emitted.                *)
EmittedInOrder(c) ==
  LET o == tracer[c].object IN
  /\ Before(Out(o), Queued(c))
  /\ IsReading(c) => Before(Out(o), ToRead(o))

OneAfterTheOther ==
  \A c \in Calls :
    tracer[c].object # 0 /\ NotInitAgain(tracer[c].object) =>
      /\ ReadInOrder(c)
      /\ tracer[c].handler # "none" => EmittedInOrder(c)

(* Records of one object are emitted in order.                             *)
Ordered(m, n) == ObjectOf(m) = ObjectOf(n) /\ NotInitAgain(ObjectOf(n)) => m < n

AllOrdered ==
  \A j \in DOMAIN emitted : \A i \in 1 .. j - 1 : Ordered(emitted[i].record, emitted[j].record)

OrderInv ==
  /\ Inv
  /\ Latest
  /\ FromTheRing
  /\ OneAfterTheOther
  /\ AllOrdered

-----------------------------------------------------------------------------
(***************************************************************************)
(* Sequences.                                                              *)
(***************************************************************************)

LEMMA TailOf ==
  ASSUME NEW S, NEW q \in Seq(S), q # <<>>
  PROVE  /\ 1 \in DOMAIN q /\ Head(q) = q[1] /\ Head(q) \in S /\ Tail(q) \in Seq(S)
         /\ \A i \in DOMAIN Tail(q) : i \in Nat /\ i > 0 /\ i + 1 \in DOMAIN q
                                      /\ Tail(q)[i] = q[i + 1]
<1>1. Len(q) \in Nat /\ Len(q) # 0 /\ DOMAIN q = 1 .. Len(q)
  BY EmptySeq, LenProperties
<1> QED
  BY <1>1, HeadTailProperties

LEMMA AppendTo ==
  ASSUME NEW S, NEW q \in Seq(S), NEW x \in S
  PROVE  /\ Append(q, x) \in Seq(S) /\ Len(q) \in Nat
         /\ DOMAIN q = 1 .. Len(q) /\ DOMAIN Append(q, x) = 1 .. Len(q) + 1
         /\ \A i \in DOMAIN q : Append(q, x)[i] = q[i]
         /\ Append(q, x)[Len(q) + 1] = x
BY AppendProperties, LenProperties

-----------------------------------------------------------------------------
(***************************************************************************)
(* What steps change.                                                      *)
(***************************************************************************)

(* Only a program adds a record to a ring.                                 *)
LEMMA RecordsKept ==
  ASSUME Types, Owned, Readers, Next,
         ~\E t \in Threads, record \in Events \cup {Undecodable} : Write(t, record)
  PROVE  /\ written' = written
         /\ \A o \in Calls : ring'[o].records \in {ring[o].records, <<>>}
<1>1. ring \in [Calls -> RingType]
  BY DEF Types
<1>2. \A o, p \in Calls : LetGo(o)[p].records \in {ring[p].records, <<>>}
  BY <1>1 DEF LetGo, NoRing, RingType
<1>3. ASSUME NEW t \in Threads, CallerStep(t)
      PROVE  /\ written' = written
             /\ \A o \in Calls : ring'[o].records \in {ring[o].records, <<>>}
  <2>1. written' = written
    BY <1>3 DEF CallerStep, Load, InitAgain, StartCall, Look, Install, Find, ReturnErr,
       MakeRingBuf, Spawn, SpawnPanics, Join, DropProgram
  <2>2. CASE Load(t)
    BY <1>1, <2>1, <2>2 DEF Load, NewRing, NoRing
  <2>3. CASE Find(t)
    BY <1>1, <2>1, <2>3 DEF Find, RingType
  <2>4. CASE ReturnErr(t) \/ DropProgram(t)
    <3>1. caller[t].object \in Calls
      BY <2>4, OfThread DEF ReturnErr, DropProgram
    <3> QED
      BY <1>2, <2>1, <2>4, <3>1 DEF ReturnErr, DropProgram
  <2>5. CASE ring' = ring
    BY <2>1, <2>5
  <2> QED
    BY <1>3, <2>2, <2>3, <2>4, <2>5
    DEF CallerStep, InitAgain, Look, Install, MakeRingBuf, Spawn, SpawnPanics, Join
<1>4. ASSUME NEW c \in Calls, ReaderStep(c)
      PROVE  /\ written' = written
             /\ \A o \in Calls : ring'[o].records \in {ring[o].records, <<>>}
  <2>1. written' = written /\ tracer[c].reader # "none"
    BY <1>4, ReaderKeeps DEF Reading
  <2>2. tracer[c].object \in Calls
    BY <2>1, OfReader
  <2>3. CASE Take(c)
    BY <1>1, <2>1, <2>2, <2>3 DEF Take, RingType
  <2>4. CASE ring' = LetGo(tracer[c].object)
    BY <1>2, <2>1, <2>2, <2>4
  <2>5. CASE ring' = ring
    BY <2>1, <2>5
  <2> QED
    BY <1>4, <2>3, <2>4, <2>5 DEF ReaderStep, StartReader, Poll, PollDone, ReaderReturns
<1>5. ASSUME NEW c \in Calls, Handle(c)
      PROVE  written' = written /\ ring' = ring
  BY <1>5 DEF Handle
<1> QED
  BY <1>3, <1>4, <1>5 DEF Next, UserInstalls

(* Who changes what is known of call c.                                    *)
LEMMA TracerSteps ==
  ASSUME Types, Owned, Next, NEW c \in Calls
  PROVE  \/ Same(c)
         \/ \E t \in Threads : caller[t].call = c
                               /\ (MakeRingBuf(t) \/ Spawn(t) \/ SpawnPanics(t))
         \/ ReaderStep(c) \/ Handle(c)
<1>1. ASSUME NEW t \in Threads, CallerStep(t), caller[t].call # c \/ tracer' = tracer
      PROVE  Same(c)
  <2>1. CASE Spawn(t) \/ SpawnPanics(t)
    BY <1>1, <2>1, SpawnKeeps DEF Same
  <2>2. CASE MakeRingBuf(t)
    BY <1>1, <2>2 DEF MakeRingBuf, Same, Types
  <2>3. CASE tracer' = tracer
    BY <2>3 DEF Same
  <2> QED
    BY <1>1, <2>1, <2>2, <2>3 DEF CallerStep, Load, InitAgain, StartCall, Look, Install, Find,
       ReturnErr, Join, DropProgram
<1>2. ASSUME NEW t \in Threads, CallerStep(t), caller[t].call = c
      PROVE  Same(c) \/ MakeRingBuf(t) \/ Spawn(t) \/ SpawnPanics(t)
  BY <1>2 DEF CallerStep, Load, InitAgain, StartCall, Look, Install, Find,
     ReturnErr, Join, DropProgram, Same
<1>3. ASSUME NEW d \in Calls, ReaderStep(d), d # c PROVE Same(c)
  BY <1>3, ReaderKeeps
<1>4. ASSUME NEW d \in Calls, Handle(d), d # c PROVE Same(c)
  BY <1>4, HandlerKeeps
<1>5. CASE tracer' = tracer
  BY <1>5 DEF Same
<1> QED
  BY <1>1, <1>2, <1>3, <1>4, <1>5 DEF Next, Write, UserInstalls

(* Only a handler emits.                                                   *)
LEMMA EmittedKept ==
  ASSUME Types, Next, ~\E c \in Calls : Handle(c)
  PROVE  emitted' = emitted
BY DEF Next, CallerStep, Load, InitAgain, StartCall, Look, Install, Find, ReturnErr, MakeRingBuf,
   Spawn, SpawnPanics, Join, DropProgram, Write, UserInstalls, ReaderStep, StartReader, Poll,
   Take, PollDone

(* A handler drops a record, or emits it with its own metadata.            *)
LEMMA HandlerEmits ==
  ASSUME Types, NEW c \in Calls, Handle(c)
  PROVE  /\ written' = written
         /\ \/ emitted' = emitted /\ tracer'[c].queue = tracer[c].queue
            \/ /\ tracer[c].queue # <<>> /\ tracer'[c].queue = Tail(tracer[c].queue)
               /\ \/ emitted' = emitted
                  \/ LET n == Head(tracer[c].queue) IN
                     /\ written[n].record \in Events
                     /\ emitted' = Append(emitted, [record |-> n, metadata |-> written[n].record])
<1>1. tracer \in [Calls -> Tracer] /\ tracer[c] \in Tracer /\ written' = written
  BY DEF Types, Handle
<1> DEFINE n == Head(tracer[c].queue)
           key == written[n].record
           known == WithCallsite(tracer[c].callsites, key)
<1>2. CASE tracer[c].queue # <<>> /\ Emit(c, n) /\ key # Undecodable /\ key.level \in Levels
  <2>1. tracer[c].queue # <<>> /\ tracer[c].queue \in Seq(DOMAIN written)
        /\ tracer[c].callsites \in Seq(Events)
    BY <1>1, <1>2 DEF Tracer
  <2>2. written[n] \in Record
    BY <2>1, HeadTailProperties DEF Types
  <2>3. key \in Events
    BY <1>2, <2>2 DEF Record
  <2>4. MetadataOf(known, key) = key
    BY <2>1, <2>3, OneCallsite
  <2> HIDE DEF known, key, n
  <2>5. /\ tracer' = [tracer EXCEPT ![c].queue = Tail(@), ![c].callsites = known]
        /\ emitted' = Append(emitted, [record |-> n, metadata |-> key])
    BY <1>2, <2>4 DEF Emit, known, key, n
  <2>6. tracer'[c].queue = Tail(tracer[c].queue)
    BY <1>1, <2>5 DEF Tracer
  <2> QED
    BY <1>1, <2>1, <2>3, <2>5, <2>6 DEF n, key
<1>3. CASE tracer[c].queue # <<>> /\ Emit(c, n) /\ ~(key # Undecodable /\ key.level \in Levels)
  <2>1. tracer' = [tracer EXCEPT ![c].queue = Tail(@)] /\ emitted' = emitted
    BY <1>3 DEF Emit
  <2>2. tracer'[c].queue = Tail(tracer[c].queue)
    BY <1>1, <2>1 DEF Tracer
  <2> QED
    BY <1>1, <1>3, <2>1, <2>2
<1>4. CASE tracer' = [tracer EXCEPT ![c].handler = "ended"] /\ emitted' = emitted
  BY <1>1, <1>4 DEF Tracer
<1> QED
  BY <1>2, <1>3, <1>4 DEF Handle

(* A reader takes the record at its position.                              *)
LEMMA TakeEffect ==
  ASSUME Types, Readers, NEW c \in Calls, Take(c)
  PROVE  LET o == tracer[c].object
             k == tracer[c].at + 1
         IN
         /\ o \in Calls /\ k \in DOMAIN ring[o].records
         /\ tracer[c].reader = "polling" /\ tracer'[c].reader = "polling"
         /\ tracer'[c].at = k /\ ring'[o].consumed = k
         /\ ring'[o].records = ring[o].records
         /\ \/ tracer'[c].queue = tracer[c].queue
            \/ tracer'[c].queue = Append(tracer[c].queue, ring[o].records[k])
         /\ tracer'[c].object = o /\ tracer'[c].handler = tracer[c].handler
<1>1. /\ tracer \in [Calls -> Tracer] /\ tracer[c] \in Tracer /\ ring \in [Calls -> RingType]
      /\ tracer[c].reader = "polling" /\ tracer[c].object \in Calls
  BY OfReader DEF Types, Take
<1>2. ring[tracer[c].object].records \in Seq(DOMAIN written) /\ tracer[c].at \in Nat
  BY <1>1 DEF RingType, Tracer
<1>3. tracer[c].at + 1 \in DOMAIN ring[tracer[c].object].records
  BY <1>2, LenProperties DEF Take
<1>q. PICK q : q = IF tracer[c].stop THEN tracer[c].queue
                   ELSE Append(tracer[c].queue, ring[tracer[c].object].records[tracer[c].at + 1])
  OBVIOUS
<1>4. /\ tracer' = [tracer EXCEPT ![c].at = tracer[c].at + 1, ![c].queue = q]
      /\ ring' = [ring EXCEPT ![tracer[c].object].consumed = tracer[c].at + 1]
  BY <1>q DEF Take
<1>5. /\ tracer'[c].at = tracer[c].at + 1 /\ tracer'[c].queue = q
      /\ tracer'[c].reader = tracer[c].reader /\ tracer'[c].object = tracer[c].object
      /\ tracer'[c].handler = tracer[c].handler
  BY <1>1, <1>4 DEF Tracer
<1>6. /\ ring'[tracer[c].object].consumed = tracer[c].at + 1
      /\ ring'[tracer[c].object].records = ring[tracer[c].object].records
  BY <1>1, <1>4 DEF RingType
<1> QED
  BY <1>1, <1>3, <1>5, <1>6, <1>q

(* The other steps leave the queue alone, or begin with an empty one.      *)
LEMMA QueueKept ==
  ASSUME Types, Owned, Readers, Next, NEW c \in Calls, ~Take(c), ~Handle(c)
  PROVE  tracer'[c].queue \in {tracer[c].queue, <<>>}
<1>1. tracer \in [Calls -> Tracer] /\ tracer[c] \in Tracer
  BY DEF Types
<1>2. CASE ReaderStep(c)
  BY <1>1, <1>2 DEF ReaderStep, StartReader, Poll, PollDone, ReaderReturns, Tracer
<1>3. ASSUME NEW t \in Threads, caller[t].call = c, Spawn(t) \/ SpawnPanics(t)
      PROVE  tracer'[c].queue = tracer[c].queue
  BY <1>1, <1>3 DEF Spawn, SpawnPanics, Tracer
<1>4. ASSUME NEW t \in Threads, caller[t].call = c, MakeRingBuf(t)
      PROVE  tracer'[c].queue = <<>>
  BY <1>1, <1>4 DEF MakeRingBuf, Nothing, Tracer
<1> QED
  BY <1>2, <1>3, <1>4, TracerSteps DEF Same

-----------------------------------------------------------------------------
(***************************************************************************)
(* The calls made for an object.                                           *)
(***************************************************************************)

(* A call stays one for its object, and does not lose its handler.         *)
LEMMA Permanent ==
  ASSUME Inv, Next, NEW c \in Calls, tracer[c].object # 0
  PROVE  /\ tracer'[c].object = tracer[c].object
         /\ tracer[c].handler # "none" => tracer'[c].handler # "none"
         /\ ~\E t \in Threads : caller[t].call = c /\ MakeRingBuf(t)
<1>1. Types /\ Owned /\ Readers
  BY DEF Inv
<1>2. ASSUME NEW t \in Threads, caller[t].call = c, MakeRingBuf(t) PROVE FALSE
  BY <1>1, <1>2 DEF MakeRingBuf, Readers, Begun
<1>3. ASSUME NEW t \in Threads, caller[t].call = c, Spawn(t) \/ SpawnPanics(t)
      PROVE  /\ tracer'[c].object = tracer[c].object
             /\ tracer[c].handler # "none" => tracer'[c].handler # "none"
  BY <1>1, <1>3, SpawnKeeps
<1>4. CASE ReaderStep(c)
  BY <1>1, <1>2, <1>4, ReaderKeeps
<1>5. CASE Handle(c)
  BY <1>1, <1>2, <1>5, HandlerKeeps
<1>6. CASE Same(c)
  BY <1>2, <1>6 DEF Same
<1> QED
  BY <1>1, <1>2, <1>3, <1>4, <1>5, <1>6, TracerSteps

LEMMA StillNotAgain ==
  ASSUME Inv, Next, NEW o \in Calls, NotInitAgain(o)'
  PROVE  NotInitAgain(o)
<1>1. o # 0
  BY DEF Calls
<1>2. \A c \in CallsFor(o) : /\ tracer'[c].object = o
                             /\ tracer[c].handler # "none" => tracer'[c].handler # "none"
  BY <1>1, Permanent DEF CallsFor
<1> QED
  BY <1>2 DEF NotInitAgain, CallsFor

(* While nobody calls try_init again for o after it has succeeded, it has  *)
(* one handler at most, and one reader at most that is at work.            *)
LEMMA OneHandler ==
  ASSUME NEW o \in Calls, NotInitAgain(o), NEW c \in CallsFor(o), NEW d \in CallsFor(o),
         tracer[c].handler # "none", tracer[d].handler # "none"
  PROVE  c = d
BY DEF NotInitAgain, CallsFor, Calls

LEMMA WaitedFor ==
  ASSUME Inv, Latest, NEW c \in Calls, NEW d \in Calls,
         tracer[c].object # 0, tracer[d].object = tracer[c].object,
         IsReading(c), tracer[c].handler = "none"
  PROVE  d <= c
<1>1. PICK t \in Threads : caller[t].call = c /\ Spawning(t)
  BY DEF Inv, Readers, IsReading
<1>2. caller[t].object = tracer[c].object /\ caller[t].stage # "free"
  BY <1>1 DEF Inv, Readers, Spawning
<1> QED
  BY <1>1, <1>2 DEF Latest

LEMMA OnItsOwn ==
  ASSUME Inv, Latest, NEW o \in Calls, NotInitAgain(o),
         NEW c \in CallsFor(o), NEW d \in CallsFor(o), IsReading(c), IsReading(d)
  PROVE  c = d
<1>1. /\ c \in Calls /\ d \in Calls /\ o # 0
      /\ tracer[c].object = o /\ tracer[d].object = o
  BY DEF CallsFor, Calls
<1>2. d <= c
  BY <1>1, WaitedFor DEF NotInitAgain
<1>3. c <= d
  BY <1>1, WaitedFor DEF NotInitAgain
<1> QED
  BY <1>1, <1>2, <1>3 DEF Calls

LEMMA NextLatest == Inv /\ Latest /\ Next => Latest'
<1> SUFFICES ASSUME Inv, Latest, Next PROVE Latest'
  OBVIOUS
<1>1. Types /\ Owned
  BY DEF Inv
<1>2. CASE SameObjects
  BY <1>2 DEF SameObjects, Latest
<1>3. ASSUME NEW t \in Threads, Load(t) \/ InitAgain(t) PROVE Latest'
  <2>1. /\ caller'[t].call = calls + 1 /\ tracer' = tracer /\ calls \in Nat
        /\ \A u \in Threads \ {t} : caller'[u] = caller[u]
        /\ caller'[t].object \in Calls
    <3>1. PICK o \in Calls, b \in BOOLEAN : StartCall(t, o, b)
      <4>1. CASE Load(t)
        <5>1. (t \in Builders) \in BOOLEAN /\ calls + 1 \in Calls
          BY <1>1, <4>1, TryInitAssumption DEF Load, StartCall, Types, Calls
        <5> QED
          BY <4>1, <5>1 DEF Load
      <4>2. CASE InitAgain(t)
        BY <1>1, <4>2, OfThread DEF InitAgain
      <4> QED
        BY <1>3, <4>1, <4>2
    <3> QED
      BY <1>1, <3>1 DEF StartCall, Types
  <2>2. \A c \in Calls : tracer[c].object # 0 => c <= calls
    BY <1>1 DEF Owned
  <2>3. 0 \notin Calls /\ \A c \in Calls : c \in Nat
    BY DEF Calls
  <2> QED
    BY <2>1, <2>2, <2>3 DEF Latest
<1>4. ASSUME NEW t \in Threads, MakeRingBuf(t) PROVE Latest'
  <2>c. PICK c : c = caller[t].call
    OBVIOUS
  <2>1. /\ MovesTo(t, "spawn") /\ caller[t].stage = "found" /\ c \in Calls
        /\ caller[t].object \in Calls
    BY <1>1, <1>4, <2>c, OfThread, GotoMoves DEF MakeRingBuf
  <2>2. /\ tracer'[c].object = caller[t].object
        /\ \A d \in Calls \ {c} : Same(d)
    BY <1>1, <1>4, <2>1, <2>c DEF MakeRingBuf, Nothing, Same, Types
  <2>3. \A u \in Threads : caller[u].object = caller[t].object => u = t
    BY <1>1, <2>1 DEF Owned
  <2>4. c <= c
    BY <2>1 DEF Calls
  <2> QED
    BY <2>1, <2>2, <2>3, <2>4, <2>c DEF Latest, MovesTo, Same
<1>5. ASSUME NEW t \in Threads, DropProgram(t) PROVE Latest'
  <2>1. /\ caller'[t].stage = "free" /\ tracer' = tracer
        /\ \A u \in Threads \ {t} : caller'[u] = caller[u]
    BY <1>1, <1>5 DEF DropProgram, Free, Types
  <2> QED
    BY <2>1 DEF Latest
<1> QED
  BY <1>1, <1>2, <1>3, <1>4, <1>5, ObjectSteps

-----------------------------------------------------------------------------
(***************************************************************************)
(* Records on their way.                                                   *)
(***************************************************************************)

(* What is written of a record stays.                                      *)
LEMMA WrittenGrows ==
  ASSUME Types, Owned, Readers, Next
  PROVE  /\ \A n \in DOMAIN written : n \in DOMAIN written' /\ written'[n] = written[n]
         /\ \A n \in DOMAIN written : ObjectOf(n)' = ObjectOf(n)
<1>1. ASSUME NEW t \in Threads, NEW record \in Events \cup {Undecodable}, Write(t, record)
      PROVE  \A n \in DOMAIN written : n \in DOMAIN written' /\ written'[n] = written[n]
  <2>1. [object |-> caller[t].object, record |-> record] \in Record
    BY <1>1, OfThread DEF Write, Record
  <2> QED
    BY <1>1, <2>1, AppendTo DEF Write, Types
<1> QED
  BY <1>1, RecordsKept DEF ObjectOf

LEMMA NextRing ==
  ASSUME Inv, FromTheRing, Next, NEW o \in Calls
  PROVE  RingInOrder(o)'
<1>1. /\ Types /\ Owned /\ Readers /\ ring[o].records \in Seq(DOMAIN written)
      /\ written \in Seq(Record)
  BY DEF Inv, Types, RingType
<1>r. PICK records \in Seq(DOMAIN written) : records = ring[o].records
  BY <1>1
<1>2. /\ \A i \in DOMAIN records : records[i] \in DOMAIN written /\ ObjectOf(records[i])' = o
      /\ \A i, j \in DOMAIN records : i < j => records[i] < records[j]
  BY <1>1, <1>r, WrittenGrows DEF FromTheRing, RingInOrder
<1>3. ASSUME NEW t \in Threads, NEW record \in Events \cup {Undecodable}, Write(t, record),
             caller[t].object = o
      PROVE  RingInOrder(o)'
  <2>n. PICK n : n = Len(written) + 1
    OBVIOUS
  <2>1. [object |-> o, record |-> record] \in Record
    BY DEF Record
  <2>2. /\ written'[n] = [object |-> o, record |-> record] /\ DOMAIN written = 1 .. Len(written)
        /\ n \in Nat /\ Len(written) \in Nat
    BY <1>1, <1>3, <2>1, <2>n, AppendTo DEF Write
  <2>3. ring'[o].records = Append(records, n)
    BY <1>1, <1>3, <1>r, <2>n DEF Write, Types, RingType
  <2>4. /\ DOMAIN Append(records, n) = 1 .. Len(records) + 1 /\ DOMAIN records = 1 .. Len(records)
        /\ Len(records) \in Nat
        /\ \A i \in DOMAIN records : Append(records, n)[i] = records[i]
        /\ Append(records, n)[Len(records) + 1] = n
    <3>1. records \in Seq(Nat)
      BY <2>2
    <3> QED
      BY <2>2, <3>1, AppendTo
  <2>5. ObjectOf(n)' = o
    BY <2>2 DEF ObjectOf
  <2>6. \A i \in DOMAIN records : records[i] < n
    BY <1>2, <2>2, <2>n
  <2>7. \A i \in DOMAIN Append(records, n) : i \in DOMAIN records \/ i = Len(records) + 1
    BY <2>4
  <2>8. \A i, j \in DOMAIN Append(records, n) : i < j => i \in DOMAIN records
    BY <2>4
  <2> QED
    BY <1>2, <2>3, <2>4, <2>5, <2>6, <2>7, <2>8 DEF RingInOrder, ObjectOf
<1>4. ASSUME NEW t \in Threads, NEW record \in Events \cup {Undecodable}, Write(t, record),
             caller[t].object # o
      PROVE  ring'[o].records = records
  BY <1>1, <1>4, <1>r DEF Write, Types
<1>5. ring'[o].records \in {records, <<>>}
        \/ \E t \in Threads, record \in Events \cup {Undecodable} : Write(t, record)
  BY <1>1, <1>r, RecordsKept
<1>6. CASE ring'[o].records = records
  BY <1>2, <1>6 DEF RingInOrder, ObjectOf
<1>7. CASE ring'[o].records = <<>>
  BY <1>7 DEF RingInOrder
<1> QED
  BY <1>3, <1>4, <1>5, <1>6, <1>7

LEMMA NextQueue ==
  ASSUME Inv, FromTheRing, Next, NEW c \in Calls
  PROVE  QueueOfObject(c)'
<1>1. /\ Types /\ Owned /\ Readers /\ tracer[c] \in Tracer
      /\ tracer[c].queue \in Seq(DOMAIN written) /\ ring \in [Calls -> RingType]
  BY DEF Inv, Types, Tracer
<1>q. PICK queue \in Seq(DOMAIN written) : queue = tracer[c].queue
  BY <1>1
<1>o. PICK o : o = tracer[c].object
  OBVIOUS
<1>2. \A i \in DOMAIN queue : queue[i] \in DOMAIN written /\ ObjectOf(queue[i])' = o
  BY <1>1, <1>q, <1>o, WrittenGrows DEF FromTheRing, QueueOfObject
<1>3. tracer'[c].object = o \/ tracer'[c].queue = <<>>
  <2>1. ASSUME NEW t \in Threads, caller[t].call = c, MakeRingBuf(t)
        PROVE  tracer'[c].queue = <<>>
    BY <1>1, <2>1 DEF MakeRingBuf, Nothing, Types
  <2>2. CASE Handle(c)
    BY <1>1, <1>o, <2>2, HandlerKeeps
  <2>3. CASE ReaderStep(c)
    BY <1>1, <1>o, <2>3, ReaderKeeps
  <2>4. ASSUME NEW t \in Threads, caller[t].call = c, Spawn(t) \/ SpawnPanics(t)
        PROVE  tracer'[c].object = o
    BY <1>1, <1>o, <2>4, SpawnKeeps
  <2> QED
    BY <1>1, <1>o, <2>1, <2>2, <2>3, <2>4, TracerSteps DEF Same
<1>4. CASE tracer'[c].queue = <<>>
  BY <1>4 DEF QueueOfObject
<1>5. CASE tracer'[c].queue = queue /\ tracer'[c].object = o
  BY <1>2, <1>5 DEF QueueOfObject, ObjectOf
<1>6. CASE Take(c)
  <2>r. PICK n : n = ring[o].records[tracer[c].at + 1]
    OBVIOUS
  <2>1. /\ o \in Calls /\ tracer[c].at + 1 \in DOMAIN ring[o].records /\ tracer'[c].object = o
        /\ tracer'[c].queue = queue \/ tracer'[c].queue = Append(queue, n)
    BY <1>1, <1>6, <1>q, <1>o, <2>r, TakeEffect
  <2>2. ring[o].records \in Seq(DOMAIN written)
    BY <1>1, <2>1 DEF RingType
  <2>3. n \in DOMAIN written /\ ObjectOf(n)' = o
    BY <1>1, <2>1, <2>2, <2>r, WrittenGrows DEF FromTheRing, RingInOrder
  <2>4. \A i \in DOMAIN Append(queue, n) : ObjectOf(Append(queue, n)[i])' = o
    BY <1>2, <2>3, AppendTo
  <2> QED
    BY <1>2, <2>1, <2>4 DEF QueueOfObject, ObjectOf
<1>7. CASE Handle(c)
  <2>1. tracer'[c].object = o
    BY <1>1, <1>7, <1>o, HandlerKeeps
  <2>2. CASE tracer'[c].queue = queue
    BY <1>5, <2>1, <2>2
  <2>3. CASE queue # <<>> /\ tracer'[c].queue = Tail(queue)
    <3>1. \A i \in DOMAIN Tail(queue) : ObjectOf(Tail(queue)[i])' = o
      BY <1>2, <2>3, TailOf
    <3> QED
      BY <2>1, <2>3, <3>1 DEF QueueOfObject, ObjectOf
  <2> QED
    BY <1>1, <1>7, <1>q, <2>2, <2>3, HandlerEmits
<1> QED
  BY <1>1, <1>3, <1>4, <1>5, <1>6, <1>7, <1>q, QueueKept

LEMMA StaysHandled ==
  ASSUME Inv, Next, NEW event \in Emitted, Handled(event)
  PROVE  Handled(event)'
<1>1. event.record \in DOMAIN written /\ written \in Seq(Record)
  BY DEF Emitted, Inv, Types
<1>2. written'[event.record] = written[event.record] /\ ObjectOf(event.record)' = ObjectOf(event.record)
  BY <1>1, WrittenGrows DEF Inv
<1>3. ObjectOf(event.record) # 0
  <2>1. written[event.record] \in Record
    BY <1>1
  <2> QED
    BY <2>1 DEF ObjectOf, Record, Calls
<1>4. PICK c \in CallsFor(ObjectOf(event.record)) : tracer[c].handler # "none"
  BY DEF Handled
<1>5. c \in CallsFor(ObjectOf(event.record))' /\ tracer'[c].handler # "none"
  BY <1>2, <1>3, <1>4, Permanent DEF CallsFor
<1> QED
  BY <1>2, <1>5 DEF Handled

(* What a handler emits is the oldest record in its queue.                 *)
LEMMA HeadHandled ==
  ASSUME Inv, FromTheRing, NEW c \in Calls, Handle(c), tracer[c].queue # <<>>,
         written[Head(tracer[c].queue)].record \in Events
  PROVE  LET n == Head(tracer[c].queue)
             event == [record |-> n, metadata |-> written[n].record]
         IN event \in Emitted /\ Handled(event) /\ ObjectOf(n) = tracer[c].object
<1> DEFINE n == Head(tracer[c].queue)
           event == [record |-> n, metadata |-> written[n].record]
<1>1. tracer[c].queue \in Seq(DOMAIN written) /\ tracer[c].handler = "running"
  BY DEF Inv, Types, Tracer, Handle
<1>2. n \in DOMAIN written /\ 1 \in DOMAIN tracer[c].queue /\ n = tracer[c].queue[1]
  BY <1>1, TailOf
<1>3. ObjectOf(n) = tracer[c].object
  BY <1>2 DEF FromTheRing, QueueOfObject
<1>4. c \in CallsFor(ObjectOf(n))
  BY <1>3 DEF CallsFor
<1> HIDE DEF n
<1>5. Handled(event)
  BY <1>1, <1>4 DEF Handled
<1> QED
  BY <1>2, <1>3, <1>5 DEF Emitted, n

LEMMA NextFromTheRing == Inv /\ FromTheRing /\ Next => FromTheRing'
<1> SUFFICES ASSUME Inv, FromTheRing, Next PROVE FromTheRing'
  OBVIOUS
<1>1. (\A o \in Calls : RingInOrder(o)') /\ (\A c \in Calls : QueueOfObject(c)')
  BY NextRing, NextQueue
<1>2. \A event \in Emitted : Handled(event) => Handled(event)'
  BY StaysHandled
<1>e. PICK old \in Seq(Emitted) : old = emitted
  BY DEF Inv, Types
<1>3. \A j \in DOMAIN old : old[j] \in Emitted /\ Handled(old[j])
  BY <1>e DEF FromTheRing
<1>4. CASE emitted' = emitted
  <2>1. \A j \in DOMAIN emitted' : emitted'[j] \in Emitted /\ Handled(emitted'[j])
    BY <1>3, <1>4, <1>e
  <2> QED
    BY <1>1, <1>2, <1>3, <1>4, <1>e DEF FromTheRing, Handled, CallsFor, ObjectOf
<1>5. ASSUME NEW event \in Emitted, Handled(event), emitted' = Append(emitted, event)
      PROVE  FromTheRing'
  <2>1. \A j \in DOMAIN Append(old, event) :
          Append(old, event)[j] \in Emitted /\ Handled(Append(old, event)[j])
    BY <1>3, <1>5, AppendTo
  <2>2. \A j \in DOMAIN Append(old, event) : Handled(Append(old, event)[j])'
    BY <1>2, <2>1
  <2> QED
    BY <1>1, <1>5, <1>e, <2>2 DEF FromTheRing, Handled, CallsFor, ObjectOf
<1>6. ASSUME NEW c \in Calls, Handle(c) PROVE FromTheRing'
  BY <1>4, <1>5, <1>6, HandlerEmits, HeadHandled DEF Inv
<1> QED
  BY <1>4, <1>6, EmittedKept DEF Inv

-----------------------------------------------------------------------------
(***************************************************************************)
(* One after the other.                                                    *)
(***************************************************************************)

(* The records are numbers, none of them greater than Len(written).        *)
LEMMA Numbers ==
  ASSUME Types, NEW o \in Calls, NEW c \in Calls
  PROVE  /\ DOMAIN written = 1 .. Len(written) /\ Len(written) \in Nat
         /\ ring[o].records \in Seq(DOMAIN written) /\ ring[o].consumed \in Nat
         /\ tracer[c].queue \in Seq(DOMAIN written)
         /\ ToRead(o) \subseteq DOMAIN written
         /\ Queued(c) \subseteq DOMAIN written
         /\ Out(o) \subseteq DOMAIN written
<1>1. ring[o] \in RingType /\ tracer[c] \in Tracer /\ written \in Seq(Record)
  BY DEF Types
<1>2. /\ ring[o].records \in Seq(DOMAIN written) /\ ring[o].consumed \in Nat
      /\ tracer[c].queue \in Seq(DOMAIN written)
  BY <1>1 DEF RingType, Tracer
<1>3. DOMAIN written = 1 .. Len(written) /\ Len(written) \in Nat
  BY <1>1, LenProperties
<1> QED
  BY <1>2, <1>3 DEF ToRead, Queued, Out

(* A map that is read is held by its reader.                               *)
Held == \A c \in Calls : IsReading(c) => ring[tracer[c].object].refs # 0

LEMMA ReadIsHeld == Inv => Held
<1> SUFFICES ASSUME Inv, NEW c \in Calls, IsReading(c)
             PROVE  ring[tracer[c].object].refs # 0
  BY DEF Held
<1>o. PICK o : o = tracer[c].object
  OBVIOUS
<1>1. o \in Calls
  BY <1>o, OfReader DEF Inv, IsReading, Reading
<1>2. c \in Handles(o)
  BY <1>o DEF Handles, IsReading
<1> QED
  BY <1>o, <1>1, <1>2, HandlesFinite, FS_EmptySet DEF Inv, Counted

(* Except for the steps of the programs and of other readers, what a reader*)
(* reads stays as it is.                                                   *)
LEMMA RingKept ==
  ASSUME Inv, Next, NEW c \in Calls, NEW o \in Calls,
         tracer[c].object = o, tracer'[c].object = o, IsReading(c)',
         ~\E d \in CallsFor(o) : Take(d),
         ~\E t \in Threads, record \in Events \cup {Undecodable} :
            Write(t, record) /\ caller[t].object = o
  PROVE  ring'[o].records = ring[o].records /\ ring'[o].consumed = ring[o].consumed
<1>1. /\ Types /\ Owned /\ Readers
      /\ ring \in [Calls -> RingType] /\ ring[o] \in RingType
  BY DEF Inv, Types
<1>2. Inv'
  BY NextInv
<1>3. Held'
  BY <1>2, ReadIsHeld, PTL
<1>4. ring'[o].refs # 0
  BY <1>3 DEF Held
<1>5. ASSUME NEW p \in Calls, ring' = LetGo(p)
      PROVE  ring'[o].records = ring[o].records /\ ring'[o].consumed = ring[o].consumed
  <2>1. CASE p # o
    BY <1>1, <1>5, <2>1, LetGoKeeps
  <2>2. CASE p = o
    BY <1>1, <1>4, <1>5, <2>2 DEF LetGo, NoRing, RingType
  <2> QED
    BY <2>1, <2>2
<1>6. ASSUME NEW t \in Threads, CallerStep(t)
      PROVE  ring'[o].records = ring[o].records /\ ring'[o].consumed = ring[o].consumed
  <2>1. CASE Load(t)
    <3>1. o <= c /\ c <= calls /\ calls \in Nat
      <4>1. tracer[c].object # 0
        BY DEF Calls
      <4> QED
        BY <1>1, <4>1 DEF Owned, Types
    <3>2. o # calls + 1
      BY <3>1 DEF Calls
    <3> QED
      BY <1>1, <2>1, <3>2 DEF Load
  <2>2. CASE Find(t)
    BY <1>1, <2>2 DEF Find, RingType
  <2>3. CASE ReturnErr(t) \/ DropProgram(t)
    <3>1. caller[t].object \in Calls
      BY <1>1, <2>3, OfThread DEF ReturnErr, DropProgram
    <3> QED
      BY <1>5, <2>3, <3>1 DEF ReturnErr, DropProgram
  <2>4. CASE ring' = ring
    BY <2>4
  <2> QED
    BY <1>6, <2>1, <2>2, <2>3, <2>4
    DEF CallerStep, InitAgain, Look, Install, MakeRingBuf, Spawn, SpawnPanics, Join
<1>7. ASSUME NEW d \in Calls, ReaderStep(d)
      PROVE  ring'[o].records = ring[o].records /\ ring'[o].consumed = ring[o].consumed
  <2>1. tracer[d].object \in Calls
    BY <1>1, <1>7, ReaderKeeps, OfReader DEF Reading
  <2>2. CASE Take(d)
    <3>1. tracer[d].object # o
      BY <2>2 DEF CallsFor
    <3> QED
      BY <1>1, <2>1, <2>2, <3>1 DEF Take
  <2>3. CASE ring' = LetGo(tracer[d].object)
    BY <1>5, <2>1, <2>3
  <2>4. CASE ring' = ring
    BY <2>4
  <2> QED
    BY <1>7, <2>2, <2>3, <2>4 DEF ReaderStep, StartReader, Poll, PollDone, ReaderReturns
<1>8. ASSUME NEW t \in Threads, NEW record \in Events \cup {Undecodable}, Write(t, record)
      PROVE  ring'[o].records = ring[o].records /\ ring'[o].consumed = ring[o].consumed
  BY <1>1, <1>8 DEF Write
<1>9. ASSUME NEW d \in Calls, Handle(d) PROVE ring' = ring
  BY <1>9 DEF Handle
<1> QED
  BY <1>6, <1>7, <1>8, <1>9 DEF Next, UserInstalls

(* What is out, and the step of a handler.                                 *)
LEMMA NextOut ==
  ASSUME Inv, Next, NEW o \in Calls
  PROVE  /\ emitted' = emitted => Out(o)' = Out(o)
         /\ \A event \in Emitted :
              emitted' = Append(emitted, event) =>
                /\ Out(o)' \subseteq Out(o) \cup {event.record}
                /\ ObjectOf(event.record) # o => Out(o)' = Out(o)
<1>1. /\ Types /\ Owned /\ Readers
  BY DEF Inv
<1>e. PICK old \in Seq(Emitted) : old = emitted
  BY <1>1 DEF Types
<1>2. \A n \in DOMAIN written : n \in DOMAIN written' /\ ObjectOf(n)' = ObjectOf(n)
  BY <1>1, WrittenGrows
<1>3. \A i \in DOMAIN old : old[i].record \in DOMAIN written
  <2>1. \A i \in DOMAIN old : old[i] \in Emitted
    OBVIOUS
  <2> QED
    BY <2>1 DEF Emitted
<1>4. ASSUME emitted' = emitted PROVE Out(o)' = Out(o)
  BY <1>2, <1>3, <1>4, <1>e DEF Out, IsEmitted
<1>5. ASSUME NEW event \in Emitted, emitted' = Append(emitted, event)
      PROVE  /\ Out(o)' \subseteq Out(o) \cup {event.record}
             /\ ObjectOf(event.record) # o => Out(o)' = Out(o)
  <2>1. /\ DOMAIN emitted' = DOMAIN old \cup {Len(old) + 1}
        /\ \A i \in DOMAIN old : emitted'[i] = old[i]
        /\ emitted'[Len(old) + 1] = event
    BY <1>5, <1>e, AppendTo
  <2>2. \A n : IsEmitted(n)' <=> IsEmitted(n) \/ n = event.record
    BY <1>e, <2>1 DEF IsEmitted
  <2>3. event.record \in DOMAIN written
    BY DEF Emitted
  <2>4. \A n : IsEmitted(n) => n \in DOMAIN written
    BY <1>3, <1>e DEF IsEmitted
  <2> QED
    BY <1>2, <2>2, <2>3, <2>4 DEF Out
<1> QED
  BY <1>4, <1>5

(* A step that takes nothing from the ring or the queue of call c.         *)
LEMMA TracerKept ==
  ASSUME Inv, Next, NEW c \in Calls, tracer[c].object # 0, ~Take(c), ~Handle(c)
  PROVE  /\ tracer'[c].queue \in {tracer[c].queue, <<>>}
         /\ IsReading(c)' => IsReading(c)
         /\ tracer'[c].reader = "polling" =>
              \/ tracer'[c].at = ring'[tracer[c].object].consumed
              \/ tracer[c].reader = "polling" /\ tracer'[c].at = tracer[c].at
<1>1. /\ Types /\ Owned /\ Readers /\ tracer \in [Calls -> Tracer] /\ tracer[c] \in Tracer
  BY DEF Inv, Types
<1>2. CASE ReaderStep(c)
  <2>1. IsReading(c)
    BY <1>1, <1>2, ReaderKeeps DEF IsReading
  <2>2. tracer'[c].reader = "polling" => tracer'[c].at = ring'[tracer[c].object].consumed
    BY <1>1, <1>2 DEF ReaderStep, StartReader, Poll, PollDone, ReaderReturns, Tracer
  <2> QED
    BY <1>1, <2>1, <2>2, QueueKept
<1>3. ASSUME NEW t \in Threads, caller[t].call = c, Spawn(t) \/ SpawnPanics(t)
      PROVE  tracer'[c].reader = tracer[c].reader /\ tracer'[c].at = tracer[c].at
  BY <1>1, <1>3 DEF Spawn, SpawnPanics, Tracer
<1>4. ~\E t \in Threads : caller[t].call = c /\ MakeRingBuf(t)
  BY Permanent
<1> QED
  BY <1>1, <1>2, <1>3, <1>4, TracerSteps, QueueKept DEF Same, IsReading

LEMMA TakenInOrder ==
  ASSUME Inv, FromTheRing, Next, NEW c \in Calls, Take(c),
         ReadInOrder(c), tracer[c].handler # "none" => EmittedInOrder(c)
  PROVE  ReadInOrder(c)' /\ (tracer'[c].handler # "none" => EmittedInOrder(c)')
<1>1. Types /\ Owned /\ Readers
  BY DEF Inv
<1>o. PICK o : o = tracer[c].object
  OBVIOUS
<1>k. PICK k : k = tracer[c].at + 1
  OBVIOUS
<1>2. /\ o \in Calls /\ k \in DOMAIN ring[o].records
      /\ tracer[c].reader = "polling" /\ tracer'[c].reader = "polling"
      /\ tracer'[c].at = k /\ ring'[o].consumed = k
      /\ ring'[o].records = ring[o].records
      /\ \/ tracer'[c].queue = tracer[c].queue
         \/ tracer'[c].queue = Append(tracer[c].queue, ring[o].records[k])
      /\ tracer'[c].object = o /\ tracer'[c].handler = tracer[c].handler
  BY <1>1, <1>o, <1>k, TakeEffect
<1>3. IsReading(c) /\ IsReading(c)'
  BY <1>2 DEF IsReading, Reading
<1>4. k = ring[o].consumed + 1 /\ k \in Nat /\ ring[o].consumed \in Nat
  <2>1. ring[o].consumed \in Nat
    BY <1>1, <1>2, Numbers
  <2>2. tracer[c].at = ring[o].consumed
    BY <1>2, <1>o DEF ReadInOrder
  <2> QED
    BY <1>k, <2>1, <2>2
<1>n. PICK n : n = ring[o].records[k]
  OBVIOUS
<1>5. /\ n \in ToRead(o) /\ ToRead(o)' \subseteq ToRead(o) /\ Before({n}, ToRead(o)')
  <2>1. n \in ToRead(o) /\ ToRead(o)' \subseteq ToRead(o)
    <3>1. ring'[o].records = ring[o].records /\ ring'[o].consumed = k
      BY <1>2
    <3>2. ToRead(o)' = {ring[o].records[i] : i \in {i \in DOMAIN ring[o].records : i > k}}
      BY <3>1, <1>2 DEF ToRead
    <3>3. DOMAIN ring[o].records \subseteq Nat
      BY <1>1, <1>2, Numbers
    <3>4. k > ring[o].consumed /\ \A i \in Nat : i > k => i > ring[o].consumed
      BY <1>4
    <3> QED
      BY <1>2, <1>n, <3>2, <3>3, <3>4 DEF ToRead
  <2>2. ASSUME NEW j \in DOMAIN ring[o].records, j > k PROVE n < ring[o].records[j]
    BY <1>2, <1>n, <2>2 DEF FromTheRing, RingInOrder
  <2>3. Before({n}, ToRead(o)')
    BY <1>2, <2>2 DEF Before, ToRead
  <2> QED
    BY <2>1, <2>3
<1>6. emitted' = emitted
  BY DEF Take
<1>7. Out(o)' = Out(o)
  BY <1>2, <1>6, NextOut
<1>q. PICK queue \in Seq(DOMAIN written) : queue = tracer[c].queue
  BY <1>1, <1>2, Numbers
<1>8. Increasing(queue) /\ Before(Queued(c), ToRead(o))
  BY <1>3, <1>o, <1>q DEF ReadInOrder
<1>9. CASE tracer'[c].queue = queue
  <2>1. Queued(c)' = Queued(c)
    BY <1>9, <1>q DEF Queued
  <2> QED
    BY <1>2, <1>3, <1>5, <1>7, <1>8, <1>9, <1>o, <2>1
    DEF ReadInOrder, EmittedInOrder, Before, Increasing
<1>10. CASE tracer'[c].queue = Append(queue, n)
  <2>1. n \in DOMAIN written
    BY <1>1, <1>2, <1>5, Numbers
  <2>2. /\ DOMAIN queue = 1 .. Len(queue) /\ DOMAIN Append(queue, n) = 1 .. Len(queue) + 1
        /\ Len(queue) \in Nat
        /\ \A i \in DOMAIN queue : Append(queue, n)[i] = queue[i]
        /\ Append(queue, n)[Len(queue) + 1] = n
    BY <2>1, AppendTo
  <2>3. \A i \in DOMAIN queue : queue[i] < n
    BY <1>5, <1>8, <1>q DEF Before, Queued
  <2>4. \A i \in DOMAIN Append(queue, n) : i \in DOMAIN queue \/ i = Len(queue) + 1
    BY <2>2
  <2>5. \A i, j \in DOMAIN Append(queue, n) : i < j => i \in DOMAIN queue
    BY <2>2
  <2>6. Increasing(Append(queue, n))
    BY <1>8, <2>2, <2>3, <2>4, <2>5 DEF Increasing
  <2>7. Queued(c)' \subseteq Queued(c) \cup {n}
    BY <1>10, <1>q, <2>2, <2>4 DEF Queued
  <2>8. ReadInOrder(c)'
    BY <1>2, <1>3, <1>5, <1>8, <1>10, <2>6, <2>7 DEF ReadInOrder, Before, Increasing
  <2>9. ASSUME tracer'[c].handler # "none" PROVE EmittedInOrder(c)'
    <3>1. Before(Out(o), Queued(c)) /\ Before(Out(o), ToRead(o))
      BY <1>2, <1>3, <1>o, <2>9 DEF EmittedInOrder
    <3> QED
      BY <1>2, <1>5, <1>7, <2>7, <3>1 DEF EmittedInOrder, Before
  <2> QED
    BY <2>8, <2>9
<1> QED
  BY <1>2, <1>9, <1>10, <1>n, <1>q

(* A handler that has emitted a record, or dropped it, has it no more.     *)
LEMMA HandledInOrder ==
  ASSUME Inv, Latest, FromTheRing, Next, NEW c \in Calls, Handle(c), tracer[c].object # 0,
         NotInitAgain(tracer[c].object), ReadInOrder(c), EmittedInOrder(c)
  PROVE  ReadInOrder(c)' /\ EmittedInOrder(c)'
<1>1. Types /\ Owned /\ Readers /\ tracer \in [Calls -> Tracer] /\ tracer[c] \in Tracer
  BY DEF Inv, Types
<1>o. PICK o \in Calls : o = tracer[c].object
  BY <1>1 DEF Tracer
<1>2. /\ tracer'[c].object = o /\ tracer'[c].reader = tracer[c].reader /\ ring' = ring
      /\ tracer'[c].at = tracer[c].at
  <2>1. tracer'[c].object = o /\ tracer'[c].reader = tracer[c].reader
    BY <1>1, <1>o, HandlerKeeps
  <2>2. ring' = ring
    BY DEF Handle
  <2>3. tracer'[c].at = tracer[c].at
    BY <1>1 DEF Handle, Emit, Tracer
  <2> QED
    BY <2>1, <2>2, <2>3
<1>3. ToRead(o)' = ToRead(o) /\ (IsReading(c)' <=> IsReading(c))
  BY <1>2 DEF ToRead, IsReading
<1>q. PICK queue \in Seq(DOMAIN written) : queue = tracer[c].queue
  BY <1>1, Numbers
<1>4. /\ Increasing(queue) /\ Before(Out(o), Queued(c))
      /\ IsReading(c) => Before(Out(o), ToRead(o)) /\ Before(Queued(c), ToRead(o))
      /\ tracer[c].reader = "polling" => tracer[c].at = ring[o].consumed
  BY <1>o, <1>q DEF ReadInOrder, EmittedInOrder
<1>5. CASE emitted' = emitted /\ tracer'[c].queue = queue
  <2>1. Out(o)' = Out(o) /\ Queued(c)' = Queued(c)
    BY <1>5, <1>q, NextOut DEF Queued
  <2> QED
    BY <1>2, <1>3, <1>4, <1>5, <2>1 DEF ReadInOrder, EmittedInOrder, Before, Increasing
<1>6. CASE queue # <<>> /\ tracer'[c].queue = Tail(queue)
  <2>1. /\ 1 \in DOMAIN queue /\ Head(queue) = queue[1] /\ Head(queue) \in DOMAIN written
        /\ \A i \in DOMAIN Tail(queue) : i \in Nat /\ i > 0 /\ i + 1 \in DOMAIN queue
                                         /\ Tail(queue)[i] = queue[i + 1]
    BY <1>6, TailOf
  <2>n. PICK n \in DOMAIN written : n = queue[1]
    BY <2>1
  <2>2. n \in Queued(c) /\ Queued(c)' \subseteq Queued(c)
    BY <1>6, <1>q, <2>1, <2>n DEF Queued
  <2>3. Before({n}, Queued(c)')
    <3>1. \A i \in DOMAIN Tail(queue) : n < Tail(queue)[i]
      BY <1>4, <2>1, <2>n DEF Increasing
    <3> QED
      BY <1>6, <3>1 DEF Before, Queued
  <2>4. Increasing(Tail(queue))
    <3> SUFFICES ASSUME NEW i \in DOMAIN Tail(queue), NEW j \in DOMAIN Tail(queue), i < j
                 PROVE  Tail(queue)[i] < Tail(queue)[j]
      BY DEF Increasing
    <3>1. i + 1 < j + 1
      BY <2>1
    <3> QED
      BY <1>4, <2>1, <3>1 DEF Increasing
  <2>5. Out(o)' \subseteq Out(o) \cup {n}
    <3>1. CASE emitted' = emitted
      BY <3>1, NextOut
    <3>2. CASE /\ written[n].record \in Events
               /\ emitted' = Append(emitted, [record |-> n, metadata |-> written[n].record])
      <4>1. [record |-> n, metadata |-> written[n].record] \in Emitted
        BY <3>2 DEF Emitted
      <4> QED
        BY <3>2, <4>1, NextOut
    <3>3. Head(tracer[c].queue) = n
      BY <1>q, <2>1, <2>n
    <3>4. \/ emitted' = emitted
          \/ LET m == Head(tracer[c].queue) IN
             /\ written[m].record \in Events
             /\ emitted' = Append(emitted, [record |-> m, metadata |-> written[m].record])
      BY <1>1, HandlerEmits
    <3> QED
      BY <3>1, <3>2, <3>3, <3>4
  <2>6. ReadInOrder(c)'
    BY <1>2, <1>3, <1>4, <1>6, <2>2, <2>4 DEF ReadInOrder, Before, Increasing
  <2>7. EmittedInOrder(c)'
    BY <1>2, <1>3, <1>4, <2>2, <2>3, <2>5 DEF EmittedInOrder, Before
  <2> QED
    BY <2>6, <2>7
<1> QED
  BY <1>1, <1>5, <1>6, <1>q, HandlerEmits

(* What a program writes is newer than all that was written before.        *)
LEMMA WrittenInOrder ==
  ASSUME Inv, Next, NEW c \in Calls, NEW t \in Threads, NEW record \in Events \cup {Undecodable},
         Write(t, record), tracer[c].object = caller[t].object,
         ReadInOrder(c), tracer[c].handler # "none" => EmittedInOrder(c)
  PROVE  ReadInOrder(c)' /\ (tracer'[c].handler # "none" => EmittedInOrder(c)')
<1>1. /\ Types /\ Owned /\ Readers /\ ring \in [Calls -> RingType]
      /\ tracer' = tracer /\ emitted' = emitted
  BY DEF Inv, Types, Write
<1>o. PICK o : o = tracer[c].object
  OBVIOUS
<1>2. o \in Calls
  BY <1>1, <1>o, OfThread DEF Write
<1>n. PICK n : n = Len(written) + 1
  OBVIOUS
<1>r. PICK records \in Seq(DOMAIN written) : records = ring[o].records
  BY <1>1, <1>2, Numbers
<1>3. DOMAIN written = 1 .. Len(written) /\ Len(written) \in Nat /\ ring[o].consumed \in Nat
  BY <1>1, <1>2, Numbers
<1>4. ring'[o].records = Append(records, n) /\ ring'[o].consumed = ring[o].consumed
  BY <1>1, <1>2, <1>n, <1>o, <1>r DEF Write, RingType
<1>5. ToRead(o)' \subseteq ToRead(o) \cup {n}
  <2>1. records \in Seq(Nat) /\ n \in Nat
    BY <1>3, <1>n
  <2>2. /\ DOMAIN Append(records, n) = 1 .. Len(records) + 1 /\ DOMAIN records = 1 .. Len(records)
        /\ Len(records) \in Nat
        /\ \A i \in DOMAIN records : Append(records, n)[i] = records[i]
        /\ Append(records, n)[Len(records) + 1] = n
    BY <2>1, AppendTo
  <2>3. \A i \in DOMAIN Append(records, n) : i \in DOMAIN records \/ i = Len(records) + 1
    BY <2>2
  <2> QED
    BY <1>4, <1>r, <2>2, <2>3 DEF ToRead
<1>6. Queued(c)' = Queued(c) /\ (IsReading(c)' <=> IsReading(c)) /\ Out(o)' = Out(o)
  BY <1>1, <1>2, NextOut DEF Queued, IsReading
<1>7. Before(Queued(c) \cup Out(o), {n})
  BY <1>1, <1>2, <1>3, <1>n, Numbers DEF Before
<1>8. ReadInOrder(c)'
  BY <1>1, <1>4, <1>5, <1>6, <1>7, <1>o DEF ReadInOrder, Before, Increasing
<1>9. ASSUME tracer'[c].handler # "none" PROVE EmittedInOrder(c)'
  BY <1>1, <1>5, <1>6, <1>7, <1>9, <1>o DEF EmittedInOrder, Before
<1> QED
  BY <1>8, <1>9

(* The other steps take away from what is on its way, if anything.         *)
LEMMA KeptInOrder ==
  ASSUME Inv, Latest, FromTheRing, Next, NEW c \in Calls, NEW o \in Calls,
         tracer[c].object = o, NotInitAgain(o)', ~Take(c), ~Handle(c),
         ~\E t \in Threads, record \in Events \cup {Undecodable} :
            Write(t, record) /\ caller[t].object = o,
         ReadInOrder(c), tracer[c].handler # "none" => EmittedInOrder(c)
  PROVE  ReadInOrder(c)' /\ (tracer'[c].handler # "none" => EmittedInOrder(c)')
<1>1. Types /\ Owned /\ Readers /\ tracer \in [Calls -> Tracer] /\ tracer[c] \in Tracer
  BY DEF Inv, Types
<1>o. o = tracer[c].object /\ o # 0
  BY DEF Calls
<1>2. /\ tracer'[c].object = o
      /\ tracer'[c].queue \in {tracer[c].queue, <<>>}
      /\ IsReading(c)' => IsReading(c)
  BY <1>o, Permanent, TracerKept
<1>3. c \in CallsFor(o)
  BY <1>o DEF CallsFor
<1>4. ASSUME IsReading(c)'
      PROVE  ring'[o].records = ring[o].records /\ ring'[o].consumed = ring[o].consumed
  <2>1. ASSUME NEW d \in CallsFor(o), Take(d) PROVE FALSE
    <3>1. IsReading(d) /\ IsReading(c) /\ d \in Calls
      BY <1>2, <1>4, <2>1 DEF Take, IsReading, Reading, CallsFor
    <3>2. NotInitAgain(o)
      BY StillNotAgain
    <3>3. d = c
      BY <1>3, <3>1, <3>2, OnItsOwn
    <3> QED
      BY <2>1, <3>3
  <2> QED
    BY <1>2, <1>4, <1>o, <2>1, RingKept
<1>5. IsReading(c)' => ToRead(o)' = ToRead(o)
  BY <1>4 DEF ToRead
<1>6. Queued(c)' \subseteq Queued(c)
  BY <1>2 DEF Queued
<1>7. Increasing(tracer'[c].queue)
  BY <1>2 DEF Increasing, ReadInOrder
<1>8. tracer'[c].reader = "polling" => tracer'[c].at = ring'[o].consumed
  <2> SUFFICES ASSUME tracer'[c].reader = "polling"
               PROVE  tracer'[c].at = ring'[o].consumed
    OBVIOUS
  <2>1. ring'[o].consumed = ring[o].consumed
    BY <1>4 DEF IsReading, Reading
  <2> QED
    BY <1>o, <2>1, TracerKept DEF ReadInOrder
<1>9. ReadInOrder(c)'
  BY <1>2, <1>5, <1>6, <1>7, <1>8, <1>o DEF ReadInOrder, Before, Increasing
<1>10. ASSUME tracer'[c].handler # "none", tracer[c].handler # "none"
       PROVE  EmittedInOrder(c)'
  <2>1. Out(o)' = Out(o)
    <3>1. CASE emitted' = emitted
      BY <3>1, NextOut
    <3>2. ASSUME NEW d \in Calls, Handle(d), emitted' # emitted PROVE Out(o)' = Out(o)
      <4>n. PICK n : n = Head(tracer[d].queue)
        OBVIOUS
      <4>1. /\ tracer[d].queue # <<>> /\ written[n].record \in Events
            /\ emitted' = Append(emitted, [record |-> n, metadata |-> written[n].record])
        BY <1>1, <3>2, <4>n, HandlerEmits
      <4>2. /\ [record |-> n, metadata |-> written[n].record] \in Emitted
            /\ ObjectOf(n) = tracer[d].object
        BY <3>2, <4>1, <4>n, HeadHandled
      <4>3. tracer[d].object # o
        <5> SUFFICES ASSUME tracer[d].object = o PROVE FALSE
          OBVIOUS
        <5>1. d \in CallsFor(o) /\ tracer[d].handler # "none"
          BY <3>2 DEF CallsFor, Handle
        <5>2. NotInitAgain(o)
          BY StillNotAgain
        <5>3. d = c
          BY <1>3, <1>10, <5>1, <5>2, OneHandler
        <5> QED
          BY <3>2, <5>3
      <4> QED
        BY <4>1, <4>2, <4>3, NextOut
    <3> QED
      BY <1>1, <3>1, <3>2, EmittedKept
  <2>2. Before(Out(o), Queued(c)) /\ (IsReading(c) => Before(Out(o), ToRead(o)))
    BY <1>10, <1>o DEF EmittedInOrder
  <2> QED
    BY <1>2, <1>5, <1>6, <2>1, <2>2 DEF EmittedInOrder, Before
<1>11. ASSUME tracer'[c].handler # "none", tracer[c].handler = "none"
       PROVE  EmittedInOrder(c)'
  <2>1. ~\E d \in Calls : Handle(d)
    <3> SUFFICES ASSUME NEW d \in Calls, Handle(d) PROVE FALSE
      OBVIOUS
    <3>1. d # c
      OBVIOUS
    <3>2. Same(c)
      BY <1>1, <3>1, HandlerKeeps
    <3> QED
      BY <1>11, <3>2 DEF Same
  <2>2. Out(o)' = Out(o)
    BY <1>1, <2>1, EmittedKept, NextOut
  <2>3. Out(o) = {}
    <3> SUFFICES ASSUME NEW n \in Out(o) PROVE FALSE
      OBVIOUS
    <3>1. PICK d \in CallsFor(o) : tracer[d].handler # "none"
      BY DEF Out, IsEmitted, FromTheRing, Handled
    <3>2. d \in Calls /\ tracer[d].object = o /\ o # 0
      BY DEF CallsFor, Calls
    <3>3. tracer'[d].object = o /\ tracer'[d].handler # "none"
      BY <3>1, <3>2, Permanent
    <3>4. d <= c /\ c <= d
      BY <1>2, <1>11, <1>o, <3>2, <3>3 DEF NotInitAgain, CallsFor
    <3>5. d = c
      BY <3>2, <3>4 DEF Calls
    <3> QED
      BY <1>11, <3>1, <3>5
  <2> QED
    BY <1>2, <2>2, <2>3 DEF EmittedInOrder, Before
<1> QED
  BY <1>9, <1>10, <1>11

LEMMA NextOneAfterTheOther ==
  Inv /\ Latest /\ FromTheRing /\ OneAfterTheOther /\ Next => OneAfterTheOther'
<1> SUFFICES ASSUME Inv, Latest, FromTheRing, OneAfterTheOther, Next,
                    NEW c \in Calls, NEW o, o = tracer'[c].object, o # 0, NotInitAgain(o)'
             PROVE  ReadInOrder(c)' /\ (tracer'[c].handler # "none" => EmittedInOrder(c)')
  BY DEF OneAfterTheOther, NotInitAgain, CallsFor
<1>1. Types /\ Owned /\ Readers /\ tracer \in [Calls -> Tracer] /\ tracer[c] \in Tracer
  BY DEF Inv, Types
<1>2. CASE tracer[c].object = 0
  <2>1. tracer[c].reader = "none" /\ tracer[c].handler = "none"
    BY <1>1, <1>2 DEF Readers
  <2>2. ~ReaderStep(c) /\ ~Handle(c) /\ ~Same(c)
    BY <1>1, <1>2, <2>1, ReaderKeeps, HandlerKeeps DEF Same, Reading
  <2>3. PICK t \in Threads : caller[t].call = c /\ (MakeRingBuf(t) \/ Spawn(t) \/ SpawnPanics(t))
    BY <1>1, <2>2, TracerSteps
  <2>4. MakeRingBuf(t)
    BY <1>1, <1>2, <2>3, SpawnKeeps
  <2>5. /\ tracer'[c].queue = <<>> /\ tracer'[c].reader = "starting"
        /\ tracer'[c].handler = "none"
    BY <1>1, <2>3, <2>4 DEF MakeRingBuf, Nothing
  <2> QED
    BY <2>5 DEF ReadInOrder, Increasing, Queued, Before
<1>3. CASE tracer[c].object # 0
  <2>1. tracer[c].object = o /\ o \in Calls
    BY <1>1, <1>3, Permanent DEF Tracer
  <2>2. NotInitAgain(o)
    BY <2>1, StillNotAgain
  <2>3. ReadInOrder(c) /\ (tracer[c].handler # "none" => EmittedInOrder(c))
    BY <1>3, <2>1, <2>2 DEF OneAfterTheOther
  <2>4. CASE Take(c)
    BY <2>3, <2>4, TakenInOrder
  <2>5. CASE Handle(c)
    <3>1. tracer[c].handler # "none"
      BY <2>5 DEF Handle
    <3> QED
      BY <1>3, <2>1, <2>2, <2>3, <2>5, <3>1, HandledInOrder
  <2>6. ASSUME NEW t \in Threads, NEW record \in Events \cup {Undecodable}, Write(t, record),
               caller[t].object = o
        PROVE  ReadInOrder(c)' /\ (tracer'[c].handler # "none" => EmittedInOrder(c)')
    BY <2>1, <2>3, <2>6, WrittenInOrder
  <2> QED
    BY <1>3, <2>1, <2>3, <2>4, <2>5, <2>6, KeptInOrder
<1> QED
  BY <1>2, <1>3

(* What was in order stays so.                                             *)
LEMMA StaysOrdered ==
  ASSUME Inv, Next, NEW m \in DOMAIN written, NEW n \in DOMAIN written, Ordered(m, n)
  PROVE  Ordered(m, n)'
<1>o. PICK o : o = ObjectOf(n)
  OBVIOUS
<1>1. ObjectOf(m)' = ObjectOf(m) /\ ObjectOf(n)' = o
  BY <1>o, WrittenGrows DEF Inv
<1>2. o \in Calls
  <2>1. written[n] \in Record
    BY DEF Inv, Types
  <2> QED
    BY <1>o, <2>1 DEF ObjectOf, Record
<1>3. NotInitAgain(o)' => NotInitAgain(o)
  BY <1>2, StillNotAgain
<1> QED
  BY <1>1, <1>3, <1>o DEF Ordered, NotInitAgain, CallsFor

LEMMA NextAllOrdered ==
  Inv /\ FromTheRing /\ OneAfterTheOther /\ AllOrdered /\ Next => AllOrdered'
<1> SUFFICES ASSUME Inv, FromTheRing, OneAfterTheOther, AllOrdered, Next
             PROVE  AllOrdered'
  OBVIOUS
<1>e. PICK old \in Seq(Emitted) : old = emitted
  BY DEF Inv, Types
<1>1. DOMAIN old = 1 .. Len(old) /\ Len(old) \in Nat
  BY LenProperties
<1>2. \A i \in DOMAIN old : old[i].record \in DOMAIN written
  <2>1. \A i \in DOMAIN old : old[i] \in Emitted
    OBVIOUS
  <2> QED
    BY <2>1 DEF Emitted
<1>3. \A j \in DOMAIN old : \A i \in 1 .. j - 1 : Ordered(old[i].record, old[j].record)'
  <2> SUFFICES ASSUME NEW j \in DOMAIN old, NEW i \in 1 .. j - 1
               PROVE  Ordered(old[i].record, old[j].record)'
    OBVIOUS
  <2>1. i \in DOMAIN old
    BY <1>1
  <2> QED
    BY <1>2, <1>e, <2>1, StaysOrdered DEF AllOrdered
<1>4. CASE emitted' = emitted
  BY <1>3, <1>4, <1>e DEF AllOrdered, Ordered, ObjectOf, NotInitAgain, CallsFor
<1>5. ASSUME NEW c \in Calls, Handle(c), emitted' # emitted PROVE AllOrdered'
  <2>n. PICK n : n = Head(tracer[c].queue)
    OBVIOUS
  <2>o. PICK o : o = tracer[c].object
    OBVIOUS
  <2>v. PICK event : event = [record |-> n, metadata |-> written[n].record]
    OBVIOUS
  <2>1. /\ tracer[c].queue # <<>> /\ written[n].record \in Events
        /\ emitted' = Append(emitted, event)
    BY <1>5, <2>n, <2>v, HandlerEmits DEF Inv
  <2>2. event \in Emitted /\ ObjectOf(n) = o /\ event.record = n
    BY <1>5, <2>1, <2>n, <2>o, <2>v, HeadHandled
  <2>3. n \in Queued(c) /\ n \in DOMAIN written
    <3>1. tracer[c].queue \in Seq(DOMAIN written)
      BY DEF Inv, Types, Tracer
    <3>2. 1 \in DOMAIN tracer[c].queue /\ n = tracer[c].queue[1]
      BY <2>1, <2>n, <3>1, TailOf
    <3> QED
      BY <3>1, <3>2 DEF Queued
  <2>4. o \in Calls /\ o # 0
    <3>1. written[n] \in Record
      BY <2>3 DEF Inv, Types
    <3> QED
      BY <2>2, <3>1 DEF ObjectOf, Record, Calls
  <2>5. ASSUME NEW m \in DOMAIN written, IsEmitted(m) PROVE Ordered(m, n)
    <3> SUFFICES ASSUME ObjectOf(m) = o, NotInitAgain(o) PROVE m < n
      BY <2>2 DEF Ordered
    <3>1. m \in Out(o)
      BY <2>5 DEF Out
    <3>2. Before(Out(o), Queued(c))
      BY <1>5, <2>4, <2>o DEF OneAfterTheOther, EmittedInOrder, Handle
    <3> QED
      BY <2>3, <3>1, <3>2 DEF Before
  <2>6. /\ DOMAIN emitted' = 1 .. Len(old) + 1
        /\ \A i \in DOMAIN old : emitted'[i] = old[i]
        /\ emitted'[Len(old) + 1] = event
    BY <1>e, <2>1, <2>2, AppendTo
  <2>7. \A i \in DOMAIN old : Ordered(old[i].record, n)'
    <3> SUFFICES ASSUME NEW i \in DOMAIN old PROVE Ordered(old[i].record, n)'
      OBVIOUS
    <3>1. old[i].record \in DOMAIN written /\ IsEmitted(old[i].record)
      BY <1>2, <1>e DEF IsEmitted
    <3> QED
      BY <2>3, <2>5, <3>1, StaysOrdered
  <2> SUFFICES ASSUME NEW j \in DOMAIN emitted', NEW i \in 1 .. j - 1
               PROVE  ObjectOf(emitted[i].record)' = ObjectOf(emitted[j].record)'
                        /\ NotInitAgain(ObjectOf(emitted[j].record))'
                      => emitted'[i].record < emitted'[j].record
    BY DEF AllOrdered, Ordered
  <2>8. i \in DOMAIN old /\ emitted'[i] = old[i]
    BY <1>1, <2>6
  <2>9. CASE j \in DOMAIN old
    <3>1. emitted'[j] = old[j] /\ Ordered(old[i].record, old[j].record)'
      BY <1>3, <2>6, <2>9
    <3> QED
      BY <2>8, <3>1 DEF Ordered, ObjectOf, NotInitAgain, CallsFor
  <2>10. CASE j = Len(old) + 1
    <3>1. emitted'[j].record = n /\ Ordered(old[i].record, n)'
      BY <2>2, <2>6, <2>7, <2>8, <2>10
    <3> QED
      BY <2>8, <3>1 DEF Ordered, ObjectOf, NotInitAgain, CallsFor
  <2> QED
    BY <1>1, <2>6, <2>9, <2>10
<1> QED
  BY <1>4, <1>5, EmittedKept DEF Inv

-----------------------------------------------------------------------------
(***************************************************************************)
(* The theorem.                                                            *)
(***************************************************************************)

LEMMA OrderInitInv == Init => OrderInv
<1> SUFFICES ASSUME Init PROVE OrderInv
  OBVIOUS
<1>1. Inv
  BY InitInv
<1>2. Latest
  BY DEF Init, Latest, Free
<1>3. FromTheRing
  BY DEF Init, FromTheRing, RingInOrder, QueueOfObject, NoRing, Nothing
<1>4. OneAfterTheOther /\ AllOrdered
  BY DEF Init, OneAfterTheOther, AllOrdered, Nothing
<1> QED
  BY <1>1, <1>2, <1>3, <1>4 DEF OrderInv

LEMMA OrderNextInv == OrderInv /\ [Next]_vars => OrderInv'
<1> SUFFICES ASSUME OrderInv, [Next]_vars PROVE OrderInv'
  OBVIOUS
<1>1. CASE Next
  <2>1. Inv'
    BY NextInv DEF OrderInv
  <2>2. Latest' /\ FromTheRing'
    BY <1>1, NextLatest, NextFromTheRing DEF OrderInv
  <2>3. OneAfterTheOther' /\ AllOrdered'
    BY <1>1, NextOneAfterTheOther, NextAllOrdered DEF OrderInv
  <2> QED
    BY <2>1, <2>2, <2>3 DEF OrderInv
<1>2. CASE UNCHANGED vars
  <2>1. Inv'
    BY NextInv DEF OrderInv
  <2>2. Latest' /\ FromTheRing'
    BY <1>2 DEF OrderInv, vars, Latest, FromTheRing, RingInOrder, QueueOfObject, Handled,
       ObjectOf, CallsFor
  <2>3. OneAfterTheOther'
    <3>1. \A c \in Calls :
            /\ Queued(c)' = Queued(c) /\ (IsReading(c)' <=> IsReading(c))
            /\ \A o : ToRead(o)' = ToRead(o) /\ Out(o)' = Out(o)
                      /\ (NotInitAgain(o)' <=> NotInitAgain(o))
      BY <1>2 DEF vars, Queued, IsReading, ToRead, Out, IsEmitted, ObjectOf, NotInitAgain, CallsFor
    <3>2. \A c \in Calls : /\ ReadInOrder(c)' <=> ReadInOrder(c)
                           /\ EmittedInOrder(c)' <=> EmittedInOrder(c)
      BY <1>2, <3>1 DEF vars, ReadInOrder, EmittedInOrder
    <3> QED
      BY <1>2, <3>1, <3>2 DEF OrderInv, vars, OneAfterTheOther, NotInitAgain, CallsFor
  <2>4. AllOrdered'
    BY <1>2 DEF OrderInv, vars, AllOrdered, Ordered, NotInitAgain, CallsFor, ObjectOf
  <2> QED
    BY <2>1, <2>2, <2>3, <2>4 DEF OrderInv
<1> QED
  BY <1>1, <1>2

LEMMA OrderInvariance == Spec => []OrderInv
BY OrderInitInv, OrderNextInv, PTL DEF Spec

(* Events of an object reach the subscriber in the order in which they were*)
(* written, each at most once and with the metadata of its own callsite,   *)
(* unless try_init is called again for an object it had succeeded for.     *)
THEOREM InOrderOnce == Spec => []EmittedOnce
<1>1. OrderInv => EmittedOnce
  BY DEF OrderInv, FromTheRing, Handled, AllOrdered, Ordered, EmittedOnce
<1> QED
  BY <1>1, OrderInvariance, PTL
=============================================================================
