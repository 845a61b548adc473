---------------------------- MODULE TryInitProofs ----------------------------
(***************************************************************************)
(* Proofs of the safety properties of TryInit, for every number of threads,*)
(* of calls of try_init and of records.                                    *)
(***************************************************************************)
EXTENDS TryInit, SequenceTheorems, FiniteSetTheorems, TLAPS

Caller == [stage : Stages, object : Calls \cup {0}, call : Calls \cup {0},
           building : BOOLEAN, late : BOOLEAN]

RingType == [refs : Nat, records : Seq(DOMAIN written), consumed : Nat]

Record == [object : Calls, record : Events \cup {Undecodable}]

Emitted == [record : DOMAIN written, metadata : Events]

Types ==
  /\ callback \in {"none", "ours", "user"}
  /\ caller \in [Threads -> Caller]
  /\ calls \in 0 .. MaxCalls
  /\ tracer \in [Calls -> Tracer]
  /\ ring \in [Calls -> RingType]
  /\ written \in Seq(Record)
  /\ emitted \in Seq(Emitted)

(* What a handler has leaked.                                              *)
Leaked ==
  \A c \in Calls : \A i, j \in DOMAIN tracer[c].callsites :
    /\ tracer[c].callsites[i] = tracer[c].callsites[j] => i = j
    /\ tracer[c].callsites[i].level \in Levels

LEMMA TypesAreTypeOK == TypeOK <=> Types /\ Leaked
BY DEF TypeOK, Types, Leaked, Caller, RingType, Record, Emitted

(* A thread goes from one object to another call by call: an object and a  *)
(* call belong to one thread, and the objects and calls to come to none.   *)
Owned ==
  /\ \A t \in Threads :
       IF caller[t].stage = "free" THEN caller[t].object = 0 /\ caller[t].call = 0
       ELSE caller[t].object \in 1 .. caller[t].call /\ caller[t].call \in 1 .. calls
  /\ \A t, u \in Threads :
       \/ caller[t].object = caller[u].object
       \/ caller[t].call = caller[u].call
       => t = u \/ caller[t].stage = "free"
  /\ \A c \in Calls : tracer[c].object \in 0 .. c /\ (tracer[c].object # 0 => c <= calls)

(* Has the call got a reader yet?                                          *)
Reading == {"starting", "away", "polling"}

Begun(t) == caller[t].stage \in {"look", "install", "find", "found"}
Spawning(t) == caller[t].stage \in {"spawn", "join"}

(* A call has a reader once it has a RingBuf, and while it has no handler, *)
(* a thread that is about to give it one or waits for the reader's end.    *)
Readers ==
  /\ \A c \in Calls :
       /\ tracer[c].object = 0 <=> tracer[c].reader = "none"
       /\ tracer[c].object = 0 => tracer[c].handler = "none"
       /\ tracer[c].handler = "none" /\ tracer[c].reader \in Reading =>
            \E t \in Threads : caller[t].call = c /\ Spawning(t)
  /\ \A t \in Threads :
       /\ Begun(t) => tracer[caller[t].call].object = 0
       /\ Spawning(t) => /\ tracer[caller[t].call].object = caller[t].object
                         /\ tracer[caller[t].call].handler = "none"

(* A thread that overwrites the callback was not called after the user had *)
(* installed one.                                                          *)
Lateness ==
  \A t \in Threads :
    /\ caller[t].late => callback # "none"
    /\ caller[t].stage = "install" => ~caller[t].late

(* The references to the map of o: 0 is the program's, MaxCalls + 1 the one*)
(* that try_init has opened, and c the one of the reader of call c.        *)
Opened == MaxCalls + 1

Handles(o) ==
  {c \in Calls : tracer[c].object = o /\ tracer[c].reader \in Reading}
    \cup {n \in {0} : \E t \in Threads : caller[t].object = o}
    \cup {n \in {Opened} : \E t \in Threads : caller[t].object = o /\ caller[t].stage = "found"}

Counted ==
  \A o \in Calls :
    /\ ring[o].refs = Cardinality(Handles(o))
    /\ ring[o].refs = 0 => ring[o] = NoRing

Inv ==
  /\ Types
  /\ Leaked
  /\ Owned
  /\ Readers
  /\ Lateness
  /\ Counted

-----------------------------------------------------------------------------
(***************************************************************************)
(* Types.                                                                  *)
(***************************************************************************)

(* The object and the call of a thread that has some are numbered.         *)
LEMMA OfThread ==
  ASSUME Types, Owned, NEW t \in Threads, caller[t].stage # "free"
  PROVE  caller[t].object \in Calls /\ caller[t].call \in Calls
BY TryInitAssumption DEF Types, Owned, Calls, Caller

(* So is the object of a reader.                                           *)
LEMMA OfReader ==
  ASSUME Types, Readers, NEW c \in Calls, tracer[c].reader # "none"
  PROVE  tracer[c].object \in Calls
BY DEF Types, Readers, Tracer

LEMMA SeqGrows ==
  ASSUME NEW S, NEW T, S \subseteq T
  PROVE  Seq(S) \subseteq Seq(T)
BY SeqDef

(* A map with a reference more or less has the type of a map.              *)
LEMMA RingTypes ==
  /\ NoRing \in RingType
  /\ \A r \in RingType, n \in Nat : [r EXCEPT !.refs = n] \in RingType
BY DEF NoRing, RingType

LEMMA NewRingType == NewRing \in RingType
BY RingTypes DEF NewRing

LEMMA OpenType ==
  ASSUME ring \in [Calls -> RingType], NEW o \in Calls
  PROVE  [ring EXCEPT ![o].refs = @ + 1] \in [Calls -> RingType]
<1>1. ring[o] \in RingType /\ ring[o].refs + 1 \in Nat
  BY DEF RingType
<1> QED
  BY <1>1, RingTypes

LEMMA LetGoType ==
  ASSUME ring \in [Calls -> RingType], NEW o \in Calls
  PROVE  LetGo(o) \in [Calls -> RingType]
<1>1. ASSUME ring[o].refs > 1
      PROVE  [ring[o] EXCEPT !.refs = @ - 1] \in RingType
  <2>1. ring[o] \in RingType /\ ring[o].refs - 1 \in Nat
    BY <1>1 DEF RingType
  <2> QED
    BY <2>1, RingTypes
<1> QED
  BY <1>1, RingTypes DEF LetGo

(* What a step does to a reader or handler leaves it one.                  *)
LEMMA NothingType == Nothing \in Tracer
BY DEF Nothing, Tracer

LEMMA TracerTypes ==
  ASSUME NEW me \in Tracer
  PROVE  /\ \A o \in Calls : [me EXCEPT !.object = o, !.reader = "starting"] \in Tracer
         /\ \A n \in Nat : [me EXCEPT !.reader = "polling", !.at = n] \in Tracer
         /\ \A how \in {"away", "stopped", "failed"} : [me EXCEPT !.reader = how] \in Tracer
         /\ \A how \in {"running", "ended"} : [me EXCEPT !.handler = how] \in Tracer
         /\ [me EXCEPT !.stop = TRUE] \in Tracer
BY DEF Tracer

LEMMA QueueTypes ==
  ASSUME NEW me \in Tracer, NEW q \in Seq(DOMAIN written)
  PROVE  /\ \A n \in Nat : [me EXCEPT !.at = n, !.queue = q] \in Tracer
         /\ [me EXCEPT !.queue = q] \in Tracer
         /\ \A known \in Seq(Events) : [me EXCEPT !.queue = q, !.callsites = known] \in Tracer
BY DEF Tracer

LEMMA InitTypes == Init => Types
<1> SUFFICES ASSUME Init PROVE Types
  OBVIOUS
<1>1. caller \in [Threads -> Caller]
  BY DEF Init, Free, Caller, Stages
<1>2. tracer \in [Calls -> Tracer]
  <2>1. Nothing \in Tracer
    BY DEF Nothing, Tracer
  <2> QED
    BY <2>1 DEF Init
<1>3. ring \in [Calls -> RingType]
  BY DEF Init, NoRing, RingType
<1>4. written \in Seq(Record) /\ emitted \in Seq(Emitted)
  BY DEF Init
<1>5. callback \in {"none", "ours", "user"} /\ calls \in 0 .. MaxCalls
  BY TryInitAssumption DEF Init
<1> QED
  BY <1>1, <1>2, <1>3, <1>4, <1>5 DEF Types

(* A step of a thread to another stage of its call.                        *)
LEMMA GotoType ==
  ASSUME caller \in [Threads -> Caller], NEW t \in Threads, NEW stage \in Stages,
         Goto(t, stage)
  PROVE  caller' \in [Threads -> Caller]
BY DEF Goto, Caller

(* The callsite of a key is found again, and is the only one of its key.   *)
LEMMA OneCallsite ==
  ASSUME NEW callsites \in Seq(Events), NEW key \in Events
  PROVE  LET known == WithCallsite(callsites, key) IN
         /\ known \in Seq(Events) /\ MetadataOf(known, key) = key
         /\ \/ known = callsites
            \/ known = Append(callsites, key) /\ \A i \in DOMAIN callsites : callsites[i] # key
<1> DEFINE known == WithCallsite(callsites, key)
<1>1. CASE \E i \in DOMAIN callsites : callsites[i] = key
  BY <1>1 DEF WithCallsite, MetadataOf, SameKey
<1>2. CASE ~\E i \in DOMAIN callsites : callsites[i] = key
  <2>1. known = Append(callsites, key)
    BY <1>2 DEF WithCallsite, SameKey
  <2>2. Len(known) \in DOMAIN known /\ known[Len(known)] = key /\ known \in Seq(Events)
    BY <2>1
  <2> QED
    BY <1>2, <2>1, <2>2 DEF MetadataOf, SameKey
<1> QED
  BY <1>1, <1>2

LEMMA NextTypes == Types /\ Owned /\ Readers /\ Next => Types'
<1> SUFFICES ASSUME Types, Owned, Readers, Next
             PROVE  Types'
  OBVIOUS
<1> USE DEF Types
<1>1. ASSUME NEW t \in Threads, NEW object \in Calls, NEW building \in BOOLEAN,
             StartCall(t, object, building)
      PROVE  /\ caller' \in [Threads -> Caller] /\ calls' \in 0 .. MaxCalls
             /\ callback' \in {"none", "ours", "user"}
             /\ written' = written /\ tracer' = tracer /\ emitted' = emitted
  <2>1. calls + 1 \in Calls
    BY <1>1, TryInitAssumption DEF StartCall, Calls
  <2>2. [stage |-> "look", object |-> object, call |-> calls + 1, building |-> building,
         late |-> callback = "user"] \in Caller
    BY <2>1 DEF Caller, Stages
  <2> QED
    BY <1>1, <2>1, <2>2 DEF StartCall, Calls
<1>2. ASSUME NEW t \in Threads, Load(t) PROVE Types'
  <2>1. calls + 1 \in Calls /\ (t \in Builders) \in BOOLEAN
    BY <1>2, TryInitAssumption DEF Load, StartCall, Calls
  <2>2. ring' \in [Calls -> RingType]
    BY <1>2, <2>1, NewRingType DEF Load
  <2>3. PICK building \in BOOLEAN : StartCall(t, calls + 1, building)
    BY <1>2, <2>1 DEF Load
  <2>4. /\ caller' \in [Threads -> Caller] /\ calls' \in 0 .. MaxCalls
        /\ callback' \in {"none", "ours", "user"}
        /\ written' = written /\ tracer' = tracer /\ emitted' = emitted
    BY <1>1, <2>1, <2>3
  <2> QED
    BY <2>2, <2>4 DEF Tracer, RingType, Emitted
<1>3. ASSUME NEW t \in Threads, InitAgain(t) PROVE Types'
  BY <1>1, <1>3, OfThread DEF InitAgain, Tracer, RingType, Emitted
<1>4. ASSUME NEW t \in Threads, NEW stage \in Stages, Goto(t, stage),
             callback' \in {"none", "ours", "user"},
             tracer' \in [Calls -> Tracer], ring' \in [Calls -> RingType],
             UNCHANGED <<calls, written, emitted>>
      PROVE  Types'
  BY <1>4, GotoType DEF Tracer, RingType, Emitted
<1>5. ASSUME NEW t \in Threads, Look(t) \/ Install(t) PROVE Types'
  BY <1>4, <1>5 DEF Look, Install, Stages
<1>6. ASSUME NEW t \in Threads, Find(t) PROVE Types'
  <2>1. ring' \in [Calls -> RingType]
    BY <1>6, OfThread, OpenType DEF Find
  <2> QED
    BY <1>4, <1>6, <2>1 DEF Find, Stages
<1>7. ASSUME NEW t \in Threads, Fails(t), tracer' = tracer, ring' \in [Calls -> RingType],
             UNCHANGED <<callback, calls, written, emitted>>
      PROVE  Types'
  BY <1>4, <1>7 DEF Fails, Stages
<1>8. ASSUME NEW t \in Threads, ReturnErr(t) PROVE Types'
  BY <1>7, <1>8, OfThread, LetGoType DEF ReturnErr
<1>9. ASSUME NEW t \in Threads, MakeRingBuf(t) PROVE Types'
  <2>1. [Nothing EXCEPT !.object = caller[t].object, !.reader = "starting"] \in Tracer
    BY <1>9, OfThread, NothingType, TracerTypes DEF MakeRingBuf
  <2> QED
    BY <1>4, <1>9, <2>1 DEF MakeRingBuf, Stages
<1>10. ASSUME NEW t \in Threads, Spawn(t) \/ SpawnPanics(t) PROVE Types'
  <2>1. tracer' \in [Calls -> Tracer]
    <3>1. tracer[caller[t].call] \in Tracer
      BY <1>10, OfThread DEF Spawn, SpawnPanics
    <3> QED
      BY <1>10, <3>1, TracerTypes DEF Spawn, SpawnPanics
  <2> QED
    BY <1>4, <1>10, <2>1 DEF Spawn, SpawnPanics, Stages
<1>11. ASSUME NEW t \in Threads, Join(t) PROVE Types'
  BY <1>7, <1>11 DEF Join
<1>12. ASSUME NEW t \in Threads, DropProgram(t) PROVE Types'
  <2>1. caller' \in [Threads -> Caller]
    BY <1>12 DEF DropProgram, Free, Caller, Stages
  <2>2. ring' \in [Calls -> RingType]
    BY <1>12, OfThread, LetGoType DEF DropProgram
  <2> QED
    BY <1>12, <2>1, <2>2 DEF DropProgram, Tracer, RingType, Emitted
<1>13. ASSUME NEW t \in Threads, NEW record \in Events \cup {Undecodable}, Write(t, record)
       PROVE  Types'
  <2> DEFINE n == Len(written) + 1
             o == caller[t].object
  <2>1. o \in Calls
    BY <1>13, OfThread DEF Write
  <2>2. written' \in Seq(Record) /\ DOMAIN written' = DOMAIN written \cup {n}
    BY <1>13, <2>1 DEF Write, Record
  <2>3. Seq(DOMAIN written) \subseteq Seq(DOMAIN written')
    BY <2>2, SeqGrows
  <2>4. Append(ring[o].records, n) \in Seq(DOMAIN written')
    BY <2>1, <2>2, <2>3 DEF RingType
  <2>5. [ring[o] EXCEPT !.records = Append(@, n)] \in RingType'
    BY <2>1, <2>4 DEF RingType
  <2>6. ring' \in [Calls -> RingType']
    BY <1>13, <2>3, <2>5 DEF Write, RingType
  <2>7. tracer' \in [Calls -> Tracer']
    BY <1>13, <2>3 DEF Write, Tracer
  <2>8. Emitted \subseteq Emitted'
    BY <2>2 DEF Emitted
  <2>9. emitted' \in Seq(Emitted')
    BY <1>13, <2>8, SeqGrows DEF Write
  <2> QED
    BY <1>13, <2>2, <2>6, <2>7, <2>9 DEF Write
<1>14. CASE UserInstalls
  BY <1>14 DEF UserInstalls, Tracer, RingType, Emitted
<1>15. ASSUME tracer' \in [Calls -> Tracer], ring' \in [Calls -> RingType],
              UNCHANGED <<callback, caller, calls, written, emitted>>
       PROVE  Types'
  BY <1>15 DEF Tracer, RingType, Emitted
<1>16. ASSUME NEW c \in Calls, NEW how \in {"stopped", "failed"},
              tracer[c].reader # "none", ReaderReturns(c, how)
       PROVE  tracer' \in [Calls -> Tracer] /\ ring' \in [Calls -> RingType]
  <2>1. tracer' \in [Calls -> Tracer]
    BY <1>16, TracerTypes DEF ReaderReturns
  <2> QED
    BY <1>16, <2>1, OfReader, LetGoType DEF ReaderReturns
<1>17. ASSUME NEW c \in Calls, StartReader(c) PROVE Types'
  <2>1. tracer' \in [Calls -> Tracer] /\ ring' \in [Calls -> RingType]
    <3>1. CASE ReaderReturns(c, "failed")
      BY <1>16, <1>17, <3>1 DEF StartReader
    <3>2. CASE tracer' = [tracer EXCEPT ![c].reader = "away"] /\ UNCHANGED ring
      BY <3>2, TracerTypes
    <3> QED
      BY <1>17, <3>1, <3>2 DEF StartReader
  <2> QED
    BY <1>15, <1>17, <2>1 DEF StartReader
<1>18. ASSUME NEW c \in Calls, Poll(c) PROVE Types'
  <2>1. CASE tracer[c].stop
    BY <1>15, <1>16, <1>18, <2>1 DEF Poll
  <2>2. CASE ~tracer[c].stop
    <3>1. ring[tracer[c].object].consumed \in Nat
      BY <1>18, OfReader DEF Poll, RingType
    <3>2. PICK n \in Nat : n = ring[tracer[c].object].consumed
      BY <3>1
    <3>3. tracer' = [tracer EXCEPT ![c].reader = "polling", ![c].at = n] /\ UNCHANGED ring
      BY <1>18, <2>2, <3>2 DEF Poll
    <3>4. tracer[c] \in Tracer
      OBVIOUS
    <3>5. tracer' \in [Calls -> Tracer]
      BY <3>3, <3>4, TracerTypes
    <3> QED
      BY <1>15, <1>18, <3>3, <3>5 DEF Poll
  <2> QED
    BY <2>1, <2>2
<1>19. ASSUME NEW c \in Calls, Take(c) PROVE Types'
  <2> DEFINE me == tracer[c]
             o == me.object
  <2>1. o \in Calls /\ ring[o].records \in Seq(DOMAIN written) /\ me \in Tracer
    BY <1>19, OfReader DEF Take, RingType
  <2>2. me.at + 1 \in Nat /\ ring[o].records[me.at + 1] \in DOMAIN written
    BY <1>19, <2>1 DEF Take, Tracer
  <2>3. ring' \in [Calls -> RingType]
    BY <1>19, <2>1, <2>2 DEF Take, RingType
  <2>4. PICK q \in Seq(DOMAIN written) :
          q = IF me.stop THEN me.queue ELSE Append(me.queue, ring[o].records[me.at + 1])
    <3>1. me.queue \in Seq(DOMAIN written)
      BY <2>1 DEF Tracer
    <3>2. Append(me.queue, ring[o].records[me.at + 1]) \in Seq(DOMAIN written)
      BY <2>2, <3>1
    <3> HIDE DEF me, o
    <3> QED
      BY <3>1, <3>2
  <2>5. tracer' = [tracer EXCEPT ![c] = [me EXCEPT !.at = @ + 1, !.queue = q]]
    BY <1>19, <2>4 DEF Take
  <2>6. tracer' \in [Calls -> Tracer]
    BY <2>1, <2>2, <2>5, QueueTypes DEF Tracer
  <2> QED
    BY <1>15, <1>19, <2>3, <2>6 DEF Take
<1>20. ASSUME NEW c \in Calls, PollDone(c) PROVE Types'
  <2>1. tracer' \in [Calls -> Tracer]
    BY <1>20, TracerTypes DEF PollDone
  <2> QED
    BY <1>15, <1>20, <2>1 DEF PollDone
<1>21. ASSUME NEW c \in Calls, Handle(c) PROVE Types'
  <2>1. CASE tracer' = [tracer EXCEPT ![c].handler = "ended"] /\ UNCHANGED emitted
    BY <1>15, <1>21, <2>1, TracerTypes DEF Handle
  <2>2. CASE tracer[c].queue # <<>> /\ Emit(c, Head(tracer[c].queue))
    <3> DEFINE n == Head(tracer[c].queue)
               key == written[n].record
               known == WithCallsite(tracer[c].callsites, key)
    <3>1. /\ tracer[c] \in Tracer /\ tracer[c].queue \in Seq(DOMAIN written)
          /\ tracer[c].callsites \in Seq(Events)
      BY DEF Tracer
    <3>2. n \in DOMAIN written /\ Tail(tracer[c].queue) \in Seq(DOMAIN written)
      <4>1. tracer[c].queue # <<>>
        BY <2>2
      <4> QED
        BY <3>1, <4>1, HeadTailProperties
    <3>3. CASE key # Undecodable /\ key.level \in Levels
      <4>1. key \in Events
        <5>1. written[n] \in Record
          BY <3>2
        <5> QED
          BY <3>3, <5>1 DEF Record
      <4>2. known \in Seq(Events) /\ MetadataOf(known, key) = key
        BY <3>1, <4>1, OneCallsite
      <4> HIDE DEF n, key, known
      <4>3. tracer' = [tracer EXCEPT ![c].queue = Tail(@), ![c].callsites = known]
        BY <2>2, <3>3 DEF Emit, n, key, known
      <4>5. tracer' \in [Calls -> Tracer]
        BY <3>1, <3>2, <4>2, <4>3, QueueTypes
      <4>4. emitted' = Append(emitted, [record |-> n, metadata |-> key])
        BY <2>2, <3>3, <4>2 DEF Emit, n, key, known
      <4>6. emitted' \in Seq(Emitted)
        BY <3>2, <4>1, <4>4 DEF Emitted
      <4> QED
        BY <1>21, <4>5, <4>6 DEF Handle, Tracer, RingType, Emitted
    <3>4. CASE ~(key # Undecodable /\ key.level \in Levels)
      <4>1. tracer' = [tracer EXCEPT ![c].queue = Tail(@)] /\ UNCHANGED emitted
        BY <2>2, <3>4 DEF Emit
      <4>2. tracer' \in [Calls -> Tracer]
        BY <3>1, <3>2, <4>1, QueueTypes
      <4> QED
        BY <1>15, <1>21, <4>1, <4>2 DEF Handle
    <3> QED
      BY <3>3, <3>4
  <2> QED
    BY <1>21, <2>1, <2>2 DEF Handle
<1> QED
  BY <1>2, <1>3, <1>5, <1>6, <1>8, <1>9, <1>10, <1>11, <1>12, <1>13, <1>14, <1>17, <1>18,
     <1>19, <1>20, <1>21 DEF Next, CallerStep, ReaderStep

-----------------------------------------------------------------------------
(***************************************************************************)
(* Callsites, callback and the numbers of objects and calls.               *)
(***************************************************************************)

(* A step of a thread to another stage of its call leaves all else.        *)
MovesTo(t, stage) ==
  \A u \in Threads :
    /\ caller'[u].stage = IF u = t THEN stage ELSE caller[u].stage
    /\ caller'[u].object = caller[u].object /\ caller'[u].call = caller[u].call
    /\ caller'[u].late = caller[u].late

LEMMA GotoMoves ==
  ASSUME Types, NEW t \in Threads, NEW stage, Goto(t, stage)
  PROVE  MovesTo(t, stage)
BY DEF Types, Caller, Goto, MovesTo

(* The reader and handler of call c are left alone.                        *)
Same(c) == tracer'[c] = tracer[c]

LEMMA NextLeaked == Types /\ Owned /\ Leaked /\ Next => Leaked'
<1> SUFFICES ASSUME Types, Owned, Leaked, Next
             PROVE  Leaked'
  OBVIOUS
<1>1. ASSUME NEW c \in Calls, \A d \in Calls \ {c} : Same(d),
             tracer'[c].callsites = tracer[c].callsites
      PROVE  Leaked'
  BY <1>1 DEF Leaked, Same
<1>2. CASE tracer' = tracer
  BY <1>2 DEF Leaked
<1>3. ASSUME NEW t \in Threads, MakeRingBuf(t) PROVE Leaked'
  <2>1. caller[t].call \in Calls
    BY <1>3, OfThread DEF MakeRingBuf
  <2>2. tracer'[caller[t].call].callsites = <<>>
    BY <1>3, <2>1 DEF MakeRingBuf, Nothing, Types
  <2>3. \A d \in Calls \ {caller[t].call} : Same(d)
    BY <1>3 DEF MakeRingBuf, Same, Types
  <2> QED
    BY <2>2, <2>3 DEF Leaked, Same
<1>4. ASSUME NEW t \in Threads, Spawn(t) \/ SpawnPanics(t) PROVE Leaked'
  <2> DEFINE c == caller[t].call
  <2>1. c \in Calls /\ tracer \in [Calls -> Tracer] /\ tracer[c] \in Tracer
    BY <1>4, OfThread DEF Spawn, SpawnPanics, Types
  <2>2. tracer'[c].callsites = tracer[c].callsites /\ \A d \in Calls \ {c} : Same(d)
    BY <1>4, <2>1 DEF Spawn, SpawnPanics, Same, Tracer
  <2> QED
    BY <1>1, <2>1, <2>2
<1>5. ASSUME NEW c \in Calls, ReaderStep(c) PROVE Leaked'
  <2>1. tracer \in [Calls -> Tracer] /\ tracer[c] \in Tracer
    BY DEF Types
  <2>2. tracer'[c].callsites = tracer[c].callsites /\ \A d \in Calls \ {c} : Same(d)
    <3>1. CASE StartReader(c)
      BY <2>1, <3>1 DEF StartReader, ReaderReturns, Same, Tracer
    <3>2. CASE Poll(c)
      BY <2>1, <3>2 DEF Poll, ReaderReturns, Same, Tracer
    <3>3. CASE Take(c)
      BY <2>1, <3>3 DEF Take, Same, Tracer
    <3>4. CASE PollDone(c)
      BY <2>1, <3>4 DEF PollDone, Same, Tracer
    <3> QED
      BY <1>5, <3>1, <3>2, <3>3, <3>4 DEF ReaderStep
  <2> QED
    BY <1>1, <2>2
<1>6. ASSUME NEW c \in Calls, Handle(c) PROVE Leaked'
  <2>1. tracer \in [Calls -> Tracer] /\ tracer[c] \in Tracer
    BY DEF Types
  <2> DEFINE n == Head(tracer[c].queue)
             key == written[n].record
             known == WithCallsite(tracer[c].callsites, key)
  <2>2. CASE tracer[c].queue # <<>> /\ Emit(c, n) /\ key # Undecodable /\ key.level \in Levels
    <3>1. tracer[c].queue \in Seq(DOMAIN written) /\ tracer[c].callsites \in Seq(Events)
      BY <2>1 DEF Tracer
    <3>2. n \in DOMAIN written
      <4>1. tracer[c].queue # <<>>
        BY <2>2
      <4> QED
        BY <3>1, <4>1, HeadTailProperties
    <3>3. key \in Events
      <4>1. written[n] \in Record
        BY <3>2 DEF Types
      <4> QED
        BY <2>2, <4>1 DEF Record
    <3>4. /\ known \in Seq(Events)
          /\ \/ known = tracer[c].callsites
             \/ /\ known = Append(tracer[c].callsites, key)
                /\ \A i \in DOMAIN tracer[c].callsites : tracer[c].callsites[i] # key
      BY <3>1, <3>3, OneCallsite
    <3> HIDE DEF known, key, n
    <3>5. tracer' = [tracer EXCEPT ![c].queue = Tail(@), ![c].callsites = known]
      BY <2>2 DEF Emit, known, key, n
    <3>6. tracer'[c].callsites = known /\ \A d \in Calls \ {c} : Same(d)
      BY <2>1, <3>5 DEF Same, Tracer
    <3>7. \A i, j \in DOMAIN known : (known[i] = known[j] => i = j) /\ known[i].level \in Levels
      <4>1. \A i, j \in DOMAIN tracer[c].callsites :
              /\ tracer[c].callsites[i] = tracer[c].callsites[j] => i = j
              /\ tracer[c].callsites[i].level \in Levels
        BY DEF Leaked
      <4>2. CASE known = tracer[c].callsites
        BY <4>1, <4>2
      <4>3. CASE /\ known = Append(tracer[c].callsites, key)
                 /\ \A i \in DOMAIN tracer[c].callsites : tracer[c].callsites[i] # key
        <5>1. PICK old \in Seq(Events) : old = tracer[c].callsites
          BY <3>1
        <5>2. key.level \in Levels
          BY <2>2
        <5>3. /\ DOMAIN known = DOMAIN old \cup {Len(old) + 1} /\ known[Len(old) + 1] = key
              /\ \A i \in DOMAIN old : known[i] = old[i]
          BY <3>3, <4>3, <5>1
        <5> QED
          BY <4>1, <4>3, <5>1, <5>2, <5>3
      <4> QED
        BY <3>4, <4>2, <4>3
    <3> QED
      BY <3>6, <3>7 DEF Leaked, Same
  <2>3. CASE tracer[c].queue # <<>> /\ Emit(c, n) /\ ~(key # Undecodable /\ key.level \in Levels)
    <3>1. tracer' = [tracer EXCEPT ![c].queue = Tail(@)]
      BY <2>3 DEF Emit
    <3> QED
      BY <1>1, <2>1, <3>1 DEF Same, Tracer
  <2>4. CASE tracer' = [tracer EXCEPT ![c].handler = "ended"]
    BY <1>1, <2>1, <2>4 DEF Same, Tracer
  <2> QED
    BY <1>6, <2>2, <2>3, <2>4 DEF Handle
<1> QED
  BY <1>2, <1>3, <1>4, <1>5, <1>6 DEF Next, CallerStep, Load, InitAgain, StartCall, Look,
     Install, Find, ReturnErr, Join, DropProgram, Write, UserInstalls

LEMMA NextLateness == Types /\ Lateness /\ Next => Lateness'
<1> SUFFICES ASSUME Types, Lateness, Next
             PROVE  Lateness'
  OBVIOUS
<1>1. ASSUME NEW t \in Threads, NEW stage, Goto(t, stage), stage # "install",
             callback' = callback \/ callback' # "none"
      PROVE  Lateness'
  BY <1>1, GotoMoves DEF MovesTo, Lateness
<1>2. ASSUME NEW t \in Threads, NEW object, NEW building, StartCall(t, object, building)
      PROVE  Lateness'
  BY <1>2 DEF StartCall, Lateness, Types
<1>3. ASSUME NEW t \in Threads, Look(t) PROVE Lateness'
  <2>1. CASE callback = "none"
    <3>1. Goto(t, "install") /\ callback' = callback
      BY <1>3, <2>1 DEF Look
    <3> QED
      BY <2>1, <3>1, GotoMoves DEF MovesTo, Lateness
  <2>2. CASE callback # "none"
    BY <1>1, <1>3, <2>2 DEF Look
  <2> QED
    BY <2>1, <2>2
<1>4. ASSUME NEW t \in Threads, Load(t) \/ InitAgain(t) PROVE Lateness'
  BY <1>2, <1>4 DEF Load, InitAgain
<1>5. ASSUME NEW t \in Threads,
             \/ Install(t) \/ Find(t) \/ ReturnErr(t) \/ MakeRingBuf(t) \/ Spawn(t)
             \/ SpawnPanics(t) \/ Join(t)
      PROVE  Lateness'
  BY <1>1, <1>5 DEF Install, Find, ReturnErr, MakeRingBuf, Spawn, SpawnPanics, Join, Fails
<1>6. ASSUME NEW t \in Threads, DropProgram(t) PROVE Lateness'
  BY <1>6 DEF DropProgram, Free, Lateness, Types
<1>7. CASE caller' = caller /\ (callback' = callback \/ callback' # "none")
  BY <1>7 DEF Lateness
<1> QED
  BY <1>3, <1>4, <1>5, <1>6, <1>7 DEF Next, CallerStep, ReaderStep, Write, UserInstalls,
     StartReader, Poll, Take, PollDone, Handle

(* What the other steps of the threads, the readers and the handlers are to*)
(* the numbers, and to who reads what.                                     *)
SameObjects ==
  /\ \A t \in Threads :
       /\ caller'[t].object = caller[t].object /\ caller'[t].call = caller[t].call
       /\ caller'[t].stage = "free" <=> caller[t].stage = "free"
  /\ \A c \in Calls : tracer'[c].object = tracer[c].object
  /\ calls' = calls

LEMMA ReaderKeeps ==
  ASSUME Types, NEW c \in Calls, ReaderStep(c)
  PROVE  /\ caller' = caller /\ calls' = calls /\ written' = written
         /\ \A d \in Calls \ {c} : Same(d)
         /\ tracer'[c].object = tracer[c].object /\ tracer'[c].handler = tracer[c].handler
         /\ tracer[c].reader \in Reading /\ tracer'[c].reader # "none"
<1>1. tracer \in [Calls -> Tracer] /\ tracer[c] \in Tracer
  BY DEF Types
<1>2. CASE StartReader(c)
  BY <1>1, <1>2 DEF StartReader, ReaderReturns, Same, Tracer, Reading
<1>3. CASE Poll(c)
  BY <1>1, <1>3 DEF Poll, ReaderReturns, Same, Tracer, Reading
<1>4. CASE Take(c)
  BY <1>1, <1>4 DEF Take, Same, Tracer, Reading
<1>5. CASE PollDone(c)
  BY <1>1, <1>5 DEF PollDone, Same, Tracer, Reading
<1> QED
  BY <1>2, <1>3, <1>4, <1>5 DEF ReaderStep

LEMMA HandlerKeeps ==
  ASSUME Types, NEW c \in Calls, Handle(c)
  PROVE  /\ caller' = caller /\ calls' = calls /\ ring' = ring
         /\ \A d \in Calls \ {c} : Same(d)
         /\ tracer'[c].object = tracer[c].object /\ tracer'[c].reader = tracer[c].reader
         /\ tracer[c].handler = "running" /\ tracer'[c].handler # "none"
<1>1. tracer \in [Calls -> Tracer] /\ tracer[c] \in Tracer
  BY DEF Types
<1> QED
  BY <1>1 DEF Handle, Emit, Same, Tracer

LEMMA SpawnKeeps ==
  ASSUME Types, Owned, NEW t \in Threads, Spawn(t) \/ SpawnPanics(t)
  PROVE  LET c == caller[t].call IN
         /\ c \in Calls /\ calls' = calls /\ ring' = ring
         /\ \A d \in Calls \ {c} : Same(d)
         /\ tracer'[c].object = tracer[c].object /\ tracer'[c].reader = tracer[c].reader
         /\ Spawn(t) => tracer'[c].handler = "running"
         /\ SpawnPanics(t) => tracer'[c].handler = tracer[c].handler
<1>1. /\ caller[t].call \in Calls /\ tracer \in [Calls -> Tracer]
      /\ tracer[caller[t].call] \in Tracer
  BY OfThread DEF Spawn, SpawnPanics, Types
<1>2. CASE Spawn(t)
  BY <1>1, <1>2 DEF Spawn, SpawnPanics, Same, Tracer
<1>3. CASE SpawnPanics(t)
  BY <1>1, <1>3 DEF Spawn, SpawnPanics, Same, Tracer
<1> QED
  BY <1>2, <1>3

(* All but these.                                                          *)
LEMMA ObjectSteps ==
  ASSUME Types, Owned, Next
  PROVE  SameObjects \/ \E t \in Threads :
                          Load(t) \/ InitAgain(t) \/ MakeRingBuf(t) \/ DropProgram(t)
<1>1. ASSUME NEW t \in Threads, Spawn(t) \/ SpawnPanics(t) PROVE SameObjects
  <2>1. \E stage : stage # "free" /\ MovesTo(t, stage)
    BY <1>1, GotoMoves DEF Spawn, SpawnPanics
  <2>2. /\ \A c \in Calls : tracer'[c].object = tracer[c].object
        /\ calls' = calls /\ caller[t].stage # "free"
    BY <1>1, SpawnKeeps DEF Same, Spawn, SpawnPanics
  <2> QED
    BY <2>1, <2>2 DEF SameObjects, MovesTo
<1>2. ASSUME NEW t \in Threads, Look(t) \/ Install(t) \/ Find(t) \/ ReturnErr(t) \/ Join(t)
      PROVE  SameObjects
  <2>1. PICK stage : stage # "free" /\ Goto(t, stage)
    BY <1>2 DEF Look, Install, Find, ReturnErr, Join, Fails
  <2>2. MovesTo(t, stage) /\ caller[t].stage # "free"
    BY <1>2, <2>1, GotoMoves DEF Look, Install, Find, ReturnErr, Join
  <2> QED
    BY <1>2, <2>1, <2>2 DEF Look, Install, Find, ReturnErr, Join, SameObjects, MovesTo
<1>3. ASSUME NEW c \in Calls, ReaderStep(c) PROVE SameObjects
  BY <1>3, ReaderKeeps DEF SameObjects, Same
<1>4. ASSUME NEW c \in Calls, Handle(c) PROVE SameObjects
  BY <1>4, HandlerKeeps DEF SameObjects, Same
<1>5. CASE UNCHANGED <<caller, calls, tracer>>
  BY <1>5 DEF SameObjects
<1> QED
  BY <1>1, <1>2, <1>3, <1>4, <1>5 DEF Next, CallerStep, Write, UserInstalls

LEMMA NextOwned == Types /\ Owned /\ Next => Owned'
<1> SUFFICES ASSUME Types, Owned, Next
             PROVE  Owned'
  OBVIOUS
<1>1. ASSUME SameObjects PROVE Owned'
  BY <1>1 DEF SameObjects, Owned
<1>2. ASSUME NEW t \in Threads, NEW object \in Calls, NEW building,
             StartCall(t, object, building), object <= calls + 1,
             \A u \in Threads \ {t} : caller[u].object # object
      PROVE  Owned'
  <2>1. /\ caller'[t].object = object /\ caller'[t].call = calls + 1
        /\ caller'[t].stage = "look" /\ calls' = calls + 1 /\ tracer' = tracer
        /\ \A u \in Threads \ {t} : caller'[u] = caller[u]
        /\ \A u \in Threads : caller[u].call # calls + 1
    BY <1>2, TryInitAssumption DEF StartCall, Types, Owned
  <2>2. calls \in Nat /\ object \in Nat /\ object >= 1
    BY TryInitAssumption DEF Types, Calls
  <2>3. \A u \in Threads \ {t} :
          caller'[u].stage # "free" => caller'[u].object \in Nat /\ caller'[u].object >= 1
    BY <2>1, <2>2, OfThread, TryInitAssumption DEF Calls
  <2> QED
    BY <1>2, <2>1, <2>2, <2>3 DEF Owned
<1>3. ASSUME NEW t \in Threads, Load(t) PROVE Owned'
  <2>1. calls \in Nat /\ calls + 1 \in Calls
    BY <1>3, TryInitAssumption DEF Load, StartCall, Types, Calls
  <2>2. \A u \in Threads : caller[u].object # calls + 1
    BY <2>1 DEF Owned
  <2>3. PICK building \in BOOLEAN : StartCall(t, calls + 1, building)
    <3>1. (t \in Builders) \in BOOLEAN
      OBVIOUS
    <3> QED
      BY <1>3, <3>1 DEF Load
  <2> QED
    BY <1>2, <2>1, <2>2, <2>3
<1>4. ASSUME NEW t \in Threads, InitAgain(t) PROVE Owned'
  <2>1. caller[t].stage # "free" /\ StartCall(t, caller[t].object, FALSE)
    BY <1>4 DEF InitAgain
  <2>2. caller[t].object \in Calls /\ caller[t].object <= calls + 1
    <3>1. calls \in Nat
      BY DEF Types
    <3>2. caller[t].object \in 1 .. caller[t].call /\ caller[t].call \in 1 .. calls
      BY <2>1 DEF Owned
    <3> QED
      BY <2>1, <3>1, <3>2, OfThread
  <2>3. \A u \in Threads \ {t} : caller[u].object # caller[t].object
    BY <2>1 DEF Owned
  <2> QED
    BY <1>2, <2>1, <2>2, <2>3
<1>5. ASSUME NEW t \in Threads, MakeRingBuf(t) PROVE Owned'
  <2>1. MovesTo(t, "spawn") /\ caller[t].stage = "found" /\ calls' = calls
    BY <1>5, GotoMoves DEF MakeRingBuf
  <2>2. /\ tracer'[caller[t].call].object = caller[t].object
        /\ \A d \in Calls \ {caller[t].call} : Same(d)
    BY <1>5, <2>1, OfThread DEF MakeRingBuf, Nothing, Same, Types
  <2>3. caller[t].object \in 1 .. caller[t].call /\ caller[t].call \in 1 .. calls
    BY <2>1 DEF Owned
  <2> QED
    BY <2>1, <2>2, <2>3 DEF Owned, MovesTo, Same
<1>6. ASSUME NEW t \in Threads, DropProgram(t) PROVE Owned'
  <2>1. /\ caller'[t] = Free /\ \A u \in Threads \ {t} : caller'[u] = caller[u]
        /\ tracer' = tracer /\ calls' = calls
    BY <1>6 DEF DropProgram, Types
  <2>2. \A u \in Threads : caller[u].stage # "free" => caller[u].object >= 1
    BY OfThread, TryInitAssumption DEF Calls
  <2> QED
    BY <2>1, <2>2 DEF Owned, Free
<1> QED
  BY <1>1, <1>3, <1>4, <1>5, <1>6, ObjectSteps

-----------------------------------------------------------------------------
(***************************************************************************)
(* Readers and handlers.                                                   *)
(***************************************************************************)

LEMMA NextReaders == Types /\ Owned /\ Readers /\ Next => Readers'
<1> SUFFICES ASSUME Types, Owned, Readers, Next
             PROVE  Readers'
  OBVIOUS
<1> USE DEF Begun, Spawning
<1>1. CASE UNCHANGED <<caller, tracer>>
  BY <1>1 DEF Readers
<1>2. ASSUME NEW t \in Threads, NEW stage, MovesTo(t, stage), tracer' = tracer,
             Begun(t) \/ (Spawning(t) /\ HasReturned(caller[t].call)),
             stage \in {"ready", "failed"} \/ (Begun(t) /\ stage \in {"install", "find", "found"})
      PROVE  Readers'
  BY <1>2 DEF Readers, MovesTo, HasReturned, Reading
<1>3. ASSUME NEW t \in Threads, NEW object, NEW building, StartCall(t, object, building),
             caller[t].stage \in {"free", "ready"}
      PROVE  Readers'
  <2>1. /\ caller'[t].call = calls + 1 /\ caller'[t].stage = "look" /\ tracer' = tracer
        /\ \A u \in Threads \ {t} : caller'[u] = caller[u]
    BY <1>3 DEF StartCall, Types
  <2>2. tracer[calls + 1].object = 0
    <3>1. calls \in Nat /\ calls + 1 \in Calls
      BY <1>3, TryInitAssumption DEF StartCall, Calls, Types
    <3> QED
      BY <3>1 DEF Owned
  <2> QED
    BY <1>3, <2>1, <2>2 DEF Readers
<1>4. ASSUME NEW t \in Threads, Load(t) \/ InitAgain(t) PROVE Readers'
  BY <1>3, <1>4 DEF Load, InitAgain
<1>5. ASSUME NEW t \in Threads, Look(t) \/ Install(t) \/ Find(t) PROVE Readers'
  <2>1. PICK stage \in {"install", "find", "found"} : Goto(t, stage)
    BY <1>5 DEF Look, Install, Find
  <2>2. Begun(t) /\ tracer' = tracer /\ MovesTo(t, stage)
    BY <1>5, <2>1, GotoMoves DEF Look, Install, Find
  <2> QED
    BY <1>2, <2>2
<1>6. ASSUME NEW t \in Threads, ReturnErr(t) \/ Join(t) PROVE Readers'
  <2>1. PICK stage \in {"ready", "failed"} : Goto(t, stage)
    BY <1>6 DEF ReturnErr, Join, Fails
  <2>2. /\ tracer' = tracer /\ MovesTo(t, stage)
        /\ Begun(t) \/ (Spawning(t) /\ HasReturned(caller[t].call))
    BY <1>6, <2>1, GotoMoves DEF ReturnErr, Join
  <2> QED
    BY <1>2, <2>2
<1>7. ASSUME NEW t \in Threads, MakeRingBuf(t) PROVE Readers'
  <2> DEFINE c == caller[t].call
  <2>1. /\ MovesTo(t, "spawn") /\ caller[t].stage = "found"
        /\ c \in Calls /\ caller[t].object \in Calls
    BY <1>7, OfThread, GotoMoves DEF MakeRingBuf
  <2>2. /\ tracer'[c].object = caller[t].object /\ tracer'[c].reader = "starting"
        /\ tracer'[c].handler = "none"
        /\ \A d \in Calls \ {c} : Same(d)
    BY <1>7, <2>1 DEF MakeRingBuf, Nothing, Same, Types
  <2>3. \A u \in Threads \ {t} : caller[u].call # c
    BY <2>1 DEF Owned
  <2>4. caller[t].object # 0
    BY <2>1 DEF Calls
  <2>5. \A u \in Threads \ {t} : Begun(u) \/ Spawning(u) => caller[u].call \in Calls
    BY OfThread
  <2> HIDE DEF c
  <2>6. caller'[t].call = c /\ caller'[t].object = caller[t].object
    BY <2>1 DEF MovesTo, c
  <2>7. ASSUME NEW d \in Calls
        PROVE  /\ tracer'[d].object = 0 <=> tracer'[d].reader = "none"
               /\ tracer'[d].object = 0 => tracer'[d].handler = "none"
               /\ tracer'[d].handler = "none" /\ tracer'[d].reader \in Reading =>
                    \E u \in Threads : caller'[u].call = d /\ Spawning(u)'
    <3>1. CASE d = c
      BY <2>1, <2>2, <2>4, <2>6, <3>1 DEF MovesTo
    <3>2. CASE d # c
      BY <2>1, <2>2, <3>2 DEF Readers, MovesTo, Same
    <3> QED
      BY <3>1, <3>2
  <2>8. ASSUME NEW u \in Threads
        PROVE  /\ Begun(u)' => tracer'[caller'[u].call].object = 0
               /\ Spawning(u)' => /\ tracer'[caller'[u].call].object = caller'[u].object
                                  /\ tracer'[caller'[u].call].handler = "none"
    BY <2>1, <2>2, <2>3, <2>5, <2>6 DEF Readers, MovesTo, Same
  <2> QED
    BY <2>7, <2>8 DEF Readers
<1>8. ASSUME NEW t \in Threads, Spawn(t) \/ SpawnPanics(t) PROVE Readers'
  <2> DEFINE c == caller[t].call
  <2>1. /\ c \in Calls /\ \A d \in Calls \ {c} : Same(d)
        /\ tracer'[c].object = tracer[c].object /\ tracer'[c].reader = tracer[c].reader
        /\ Spawn(t) => tracer'[c].handler = "running"
        /\ SpawnPanics(t) => tracer'[c].handler = tracer[c].handler
    BY <1>8, SpawnKeeps
  <2>2. /\ Spawning(t)
        /\ Spawn(t) => MovesTo(t, "ready")
        /\ SpawnPanics(t) => MovesTo(t, "join")
    BY <1>8, GotoMoves DEF Spawn, SpawnPanics
  <2>3. \A u \in Threads \ {t} : caller[u].call # c
    BY <2>2 DEF Owned
  <2>4. \A u \in Threads : Begun(u) \/ Spawning(u) => caller[u].call \in Calls
    BY OfThread
  <2>5. tracer[c].object # 0
    <3>1. caller[t].object \in Calls
      BY <2>2, OfThread
    <3> QED
      BY <2>2, <3>1 DEF Readers, Calls
  <2> HIDE DEF c
  <2>6. caller[t].call = c
    BY DEF c
  <2>7. CASE Spawn(t)
    BY <2>1, <2>2, <2>3, <2>4, <2>5, <2>6, <2>7 DEF Readers, MovesTo, Same
  <2>8. CASE SpawnPanics(t)
    BY <2>1, <2>2, <2>3, <2>4, <2>5, <2>6, <2>8 DEF Readers, MovesTo, Same
  <2> QED
    BY <1>8, <2>7, <2>8
<1>9. ASSUME NEW t \in Threads, DropProgram(t) PROVE Readers'
  <2>1. /\ caller'[t] = Free /\ \A u \in Threads \ {t} : caller'[u] = caller[u]
        /\ tracer' = tracer /\ ~Spawning(t)
    BY <1>9 DEF DropProgram, Types
  <2> QED
    BY <2>1 DEF Readers, Free
<1>10. ASSUME NEW c \in Calls, ReaderStep(c) PROVE Readers'
  <2>1. /\ caller' = caller /\ \A d \in Calls \ {c} : Same(d)
        /\ tracer'[c].object = tracer[c].object /\ tracer'[c].handler = tracer[c].handler
        /\ tracer[c].reader \in Reading /\ tracer'[c].reader # "none"
    BY <1>10, ReaderKeeps
  <2>2. /\ tracer[c].reader # "none"
        /\ \A d \in Calls : /\ tracer'[d].object = tracer[d].object
                            /\ tracer'[d].handler = tracer[d].handler
    BY <2>1 DEF Same, Reading
  <2>3. \A t \in Threads : Begun(t) \/ Spawning(t) => caller[t].call \in Calls
    BY OfThread
  <2> QED
    BY <2>1, <2>2, <2>3 DEF Readers, Same
<1>11. ASSUME NEW c \in Calls, Handle(c) PROVE Readers'
  <2>1. /\ caller' = caller /\ \A d \in Calls \ {c} : Same(d)
        /\ tracer'[c].object = tracer[c].object /\ tracer'[c].reader = tracer[c].reader
        /\ tracer[c].handler # "none" /\ tracer'[c].handler # "none"
    BY <1>11, HandlerKeeps
  <2>2. \A d \in Calls : /\ tracer'[d].object = tracer[d].object
                         /\ tracer'[d].reader = tracer[d].reader
                         /\ tracer'[d].handler = "none" <=> tracer[d].handler = "none"
    BY <2>1 DEF Same
  <2>3. \A t \in Threads : Begun(t) \/ Spawning(t) => caller[t].call \in Calls
    BY OfThread
  <2> QED
    BY <2>1, <2>2, <2>3 DEF Readers
<1> QED
  BY <1>1, <1>4, <1>5, <1>6, <1>7, <1>8, <1>9, <1>10, <1>11
  DEF Next, CallerStep, Write, UserInstalls

-----------------------------------------------------------------------------
(***************************************************************************)
(* References to the maps.                                                 *)
(***************************************************************************)

LEMMA HandlesFinite ==
  \A o : IsFiniteSet(Handles(o)) /\ Handles(o) \subseteq 0 .. Opened
<1>1. IsFiniteSet(0 .. Opened)
  BY FS_Interval, TryInitAssumption DEF Opened
<1>2. \A o : Handles(o) \subseteq 0 .. Opened
  BY TryInitAssumption DEF Handles, Opened, Calls
<1> QED
  BY <1>1, <1>2, FS_Subset

(* A step that opens, lets go of or leaves alone the map of one object.    *)
LEMMA GainsHandle ==
  ASSUME NEW o \in Calls, NEW h, h \notin Handles(o), Counted,
         Handles(o)' = Handles(o) \cup {h}, ring'[o].refs = ring[o].refs + 1
  PROVE  ring'[o].refs = Cardinality(Handles(o))' /\ ring'[o].refs # 0
<1>1. Cardinality(Handles(o) \cup {h}) = Cardinality(Handles(o)) + 1 /\ Cardinality(Handles(o)) \in Nat
  BY HandlesFinite, FS_AddElement, FS_CardinalityType
<1> QED
  BY <1>1 DEF Counted

LEMMA LosesHandle ==
  ASSUME ring \in [Calls -> RingType], NEW o \in Calls, NEW h \in Handles(o), Counted,
         Handles(o)' = Handles(o) \ {h}, ring' = LetGo(o)
  PROVE  /\ ring'[o].refs = Cardinality(Handles(o))'
         /\ ring'[o].refs = 0 => ring'[o] = NoRing
<1>1. Cardinality(Handles(o) \ {h}) = Cardinality(Handles(o)) - 1
      /\ Cardinality(Handles(o)) \in Nat /\ Cardinality(Handles(o)) # 0
  BY HandlesFinite, FS_RemoveElement, FS_CardinalityType, FS_EmptySet
<1>2. ring[o].refs = Cardinality(Handles(o)) /\ ring[o] \in RingType
  BY DEF Counted
<1>3. CASE ring[o].refs > 1
  <2>1. ring'[o].refs = ring[o].refs - 1
    BY <1>2, <1>3 DEF LetGo, RingType
  <2> QED
    BY <1>1, <1>2, <1>3, <2>1
<1>4. CASE ~(ring[o].refs > 1)
  <2>1. ring'[o] = NoRing
    BY <1>4 DEF LetGo
  <2>2. ring[o].refs = 1
    BY <1>1, <1>2, <1>4
  <2> QED
    BY <1>1, <1>2, <2>1, <2>2 DEF NoRing
<1> QED
  BY <1>3, <1>4

LEMMA KeepsHandles ==
  ASSUME NEW o \in Calls, Counted, Handles(o)' = Handles(o),
         \/ ring'[o] = ring[o]
         \/ ring'[o].refs = ring[o].refs /\ Handles(o) # {}
  PROVE  /\ ring'[o].refs = Cardinality(Handles(o))'
         /\ ring'[o].refs = 0 => ring'[o] = NoRing
<1>1. CASE ring'[o] = ring[o]
  BY <1>1 DEF Counted
<1>2. CASE ring'[o].refs = ring[o].refs /\ Handles(o) # {}
  BY <1>2, HandlesFinite, FS_EmptySet DEF Counted
<1> QED
  BY <1>1, <1>2

(* The handle of try_init becomes the one of its reader.                   *)
LEMMA MovesHandle ==
  ASSUME NEW o \in Calls, Counted, NEW h \in Handles(o), NEW i, i \notin Handles(o),
         Handles(o)' = (Handles(o) \ {h}) \cup {i}, ring' = ring
  PROVE  /\ ring'[o].refs = Cardinality(Handles(o))'
         /\ ring'[o].refs = 0 => ring'[o] = NoRing
<1> DEFINE H == Handles(o) \ {h}
<1>1. /\ IsFiniteSet(H) /\ Cardinality(H) = Cardinality(Handles(o)) - 1
      /\ Cardinality(Handles(o)) \in Nat
  BY HandlesFinite, FS_RemoveElement, FS_CardinalityType
<1>2. Cardinality(H \cup {i}) = Cardinality(H) + 1 /\ Cardinality(H) \in Nat
  BY <1>1, FS_AddElement, FS_CardinalityType
<1>3. Cardinality(Handles(o)') = Cardinality(Handles(o))
  BY <1>1, <1>2
<1> QED
  BY <1>3 DEF Counted

(* Which steps leave all handles alone, and what the others do to them.    *)
HasHandle(t) == caller[t].stage = "found"
IsReading(c) == tracer[c].reader \in Reading

LEMMA SameHandles ==
  ASSUME \A t \in Threads : /\ caller'[t].object = caller[t].object
                            /\ HasHandle(t)' <=> HasHandle(t),
         \A c \in Calls : /\ tracer'[c].object = tracer[c].object
                          /\ IsReading(c)' <=> IsReading(c)
  PROVE  \A o : Handles(o)' = Handles(o)
BY DEF Handles, HasHandle, IsReading

LEMMA AllKept ==
  ASSUME Counted, ring' = ring, \A o \in Calls : Handles(o)' = Handles(o)
  PROVE  Counted'
BY KeepsHandles DEF Counted

(* A step that is about one object leaves the maps of the others alone.    *)
LEMMA OthersKept ==
  ASSUME Counted, NEW o \in Calls,
         \A p \in Calls \ {o} : ring'[p] = ring[p] /\ Handles(p)' = Handles(p),
         /\ ring'[o].refs = Cardinality(Handles(o))'
         /\ ring'[o].refs = 0 => ring'[o] = NoRing
  PROVE  Counted'
BY KeepsHandles DEF Counted

LEMMA LetGoKeeps ==
  ASSUME ring \in [Calls -> RingType], NEW o \in Calls
  PROVE  \A p \in Calls \ {o} : LetGo(o)[p] = ring[p]
BY DEF LetGo

LEMMA CallerCounted ==
  ASSUME Types, Owned, Readers, Counted, NEW t \in Threads, CallerStep(t)
  PROVE  Counted'
<1>o. PICK o : o = caller[t].object
  OBVIOUS
<1>0. 0 \notin Calls /\ Opened \notin Calls /\ Opened # 0 /\ ring \in [Calls -> RingType]
  BY TryInitAssumption DEF Calls, Opened, Types
<1>1. CASE Load(t)
  <2>p. PICK p : p = calls + 1
    OBVIOUS
  <2>1. /\ p \in Calls /\ calls \in Nat /\ caller'[t].object = p /\ ~HasHandle(t)'
        /\ caller[t].object = 0 /\ ~HasHandle(t)
        /\ tracer' = tracer /\ ring' = [ring EXCEPT ![p] = NewRing]
        /\ \A u \in Threads \ {t} : caller'[u] = caller[u]
    BY <1>o, <2>p, <1>1, TryInitAssumption DEF Load, StartCall, Types, Calls, HasHandle, Owned
  <2>2. /\ \A u \in Threads : caller[u].object # p
        /\ \A c \in Calls : tracer[c].object # p
    BY <1>o, <2>p, <2>1 DEF Owned, Calls
  <2>3. Handles(p)' = {0}
    BY <1>o, <2>p, <2>1, <2>2 DEF Handles, HasHandle
  <2>4. \A q \in Calls \ {p} : Handles(q)' = Handles(q)
    BY <1>o, <2>p, <1>0, <2>1 DEF Handles, HasHandle
  <2>5. Cardinality({0}) = 1
    BY FS_Singleton
  <2>6. ring'[p].refs = 1 /\ \A q \in Calls \ {p} : ring'[q] = ring[q]
    BY <1>o, <2>p, <1>0, <2>1 DEF NewRing, NoRing
  <2>7. ring'[p].refs = Cardinality(Handles(p))' /\ ring'[p].refs # 0
    BY <2>3, <2>5, <2>6
  <2> QED
    BY <2>1, <2>4, <2>6, <2>7, OthersKept
<1>2. CASE InitAgain(t)
  <2>1. /\ caller'[t].object = o /\ ~HasHandle(t)' /\ ~HasHandle(t)
        /\ \A u \in Threads \ {t} : caller'[u] = caller[u]
        /\ tracer' = tracer /\ ring' = ring
    BY <1>o, <1>2 DEF InitAgain, StartCall, HasHandle, Types
  <2>2. \A p : Handles(p)' = Handles(p)
    BY <1>o, <2>1, SameHandles DEF HasHandle, IsReading
  <2> QED
    BY <1>o, <2>1, <2>2, AllKept
<1>3. CASE Look(t) \/ Install(t) \/ Join(t)
  <2>1. PICK stage : Goto(t, stage) /\ stage # "found"
    BY <1>o, <1>3 DEF Look, Install, Join, Fails
  <2>2. MovesTo(t, stage) /\ ~HasHandle(t) /\ tracer' = tracer /\ ring' = ring
    BY <1>o, <1>3, <2>1, GotoMoves DEF Look, Install, Join, HasHandle
  <2>3. \A p : Handles(p)' = Handles(p)
    BY <1>o, <2>1, <2>2, SameHandles DEF HasHandle, IsReading, MovesTo
  <2> QED
    BY <1>o, <2>2, <2>3, AllKept
<1>4. CASE Spawn(t) \/ SpawnPanics(t)
  <2>1. PICK stage : MovesTo(t, stage) /\ stage # "found" /\ ~HasHandle(t)
    BY <1>o, <1>4, GotoMoves DEF Spawn, SpawnPanics, HasHandle
  <2>2. ring' = ring
    BY <1>o, <1>4 DEF Spawn, SpawnPanics
  <2>3. \A c \in Calls : /\ tracer'[c].object = tracer[c].object
                         /\ tracer'[c].reader = tracer[c].reader
    BY <1>o, <1>4, SpawnKeeps DEF Same
  <2>4. \A p : Handles(p)' = Handles(p)
    BY <1>o, <2>1, <2>3, SameHandles DEF HasHandle, IsReading, MovesTo
  <2> QED
    BY <1>o, <2>2, <2>4, AllKept
<1>5. CASE Find(t)
  <2>1. /\ MovesTo(t, "found") /\ ~HasHandle(t) /\ tracer' = tracer /\ o \in Calls
        /\ ring' = [ring EXCEPT ![o].refs = @ + 1]
    BY <1>o, <1>5, GotoMoves, OfThread DEF Find, HasHandle
  <2>2. \A u \in Threads \ {t} : caller[u].object # o
    BY <1>o, <1>0, <2>1 DEF Owned
  <2>3. Opened \notin Handles(o) /\ Handles(o)' = Handles(o) \cup {Opened}
    BY <1>o, <1>0, <2>1, <2>2 DEF Handles, HasHandle, MovesTo
  <2>4. \A p \in Calls \ {o} : Handles(p)' = Handles(p)
    BY <1>o, <1>0, <2>1 DEF Handles, HasHandle, MovesTo
  <2>5. ring'[o].refs = ring[o].refs + 1 /\ \A p \in Calls \ {o} : ring'[p] = ring[p]
    BY <1>o, <1>0, <2>1 DEF RingType
  <2>6. ring'[o].refs = Cardinality(Handles(o))' /\ ring'[o].refs # 0
    BY <1>o, <2>1, <2>3, <2>5, GainsHandle
  <2> QED
    BY <1>o, <2>1, <2>4, <2>5, <2>6, OthersKept
<1>6. CASE ReturnErr(t)
  <2>1. PICK stage : MovesTo(t, stage) /\ stage # "found" /\ tracer' = tracer /\ o \in Calls
    BY <1>o, <1>6, GotoMoves, OfThread DEF ReturnErr, Fails
  <2>2. CASE caller[t].stage = "find" /\ UNCHANGED ring
    <3>1. \A p : Handles(p)' = Handles(p)
      BY <1>o, <2>1, <2>2, SameHandles DEF HasHandle, IsReading, MovesTo
    <3> QED
      BY <1>o, <2>2, <3>1, AllKept
  <2>3. CASE caller[t].stage = "found" /\ ring' = LetGo(o)
    <3>1. \A u \in Threads \ {t} : caller[u].object # o
      BY <1>o, <1>0, <2>1, <2>3 DEF Owned
    <3>2. Opened \in Handles(o) /\ Handles(o)' = Handles(o) \ {Opened}
      BY <1>o, <1>0, <2>1, <2>3, <3>1 DEF Handles, MovesTo
    <3>3. \A p \in Calls \ {o} : Handles(p)' = Handles(p)
      BY <1>o, <1>0, <2>1 DEF Handles, MovesTo
    <3> QED
      BY <1>o, <1>0, <2>1, <2>3, <3>2, <3>3, LosesHandle, LetGoKeeps, OthersKept
  <2> QED
    BY <1>o, <1>6, <2>2, <2>3 DEF ReturnErr
<1>7. CASE MakeRingBuf(t)
  <2>c. PICK c : c = caller[t].call
    OBVIOUS
  <2>1. /\ MovesTo(t, "spawn") /\ caller[t].stage = "found"
        /\ c \in Calls /\ o \in Calls /\ ring' = ring
    BY <1>o, <2>c, <1>7, OfThread, GotoMoves DEF MakeRingBuf
  <2>2. /\ tracer'[c].object = o /\ tracer'[c].reader \in Reading
        /\ tracer[c].object = 0
        /\ \A d \in Calls \ {c} : Same(d)
    BY <1>o, <2>c, <1>7, <2>1 DEF MakeRingBuf, Nothing, Same, Types, Readers, Begun, Reading
  <2>3. \A u \in Threads \ {t} : caller[u].object # o
    BY <1>o, <2>c, <1>0, <2>1 DEF Owned
  <2>4. /\ Opened \in Handles(o) /\ c \notin Handles(o)
        /\ Handles(o)' = (Handles(o) \ {Opened}) \cup {c}
    BY <1>o, <2>c, <1>0, <2>1, <2>2, <2>3 DEF Handles, MovesTo, Same
  <2>5. \A p \in Calls \ {o} : Handles(p)' = Handles(p)
    BY <1>o, <2>c, <1>0, <2>1, <2>2 DEF Handles, MovesTo, Same
  <2> QED
    BY <1>o, <2>c, <2>1, <2>4, <2>5, MovesHandle, OthersKept
<1>8. CASE DropProgram(t)
  <2>1. /\ caller'[t] = Free /\ \A u \in Threads \ {t} : caller'[u] = caller[u]
        /\ tracer' = tracer /\ ring' = LetGo(o) /\ o \in Calls
        /\ caller[t].stage \notin {"free", "found"}
    BY <1>o, <1>8, OfThread DEF DropProgram, Types
  <2>2. \A u \in Threads \ {t} : caller[u].object # o
    BY <1>o, <2>1 DEF Owned
  <2>3. 0 \in Handles(o) /\ Handles(o)' = Handles(o) \ {0}
    BY <1>o, <1>0, <2>1, <2>2 DEF Handles, Free
  <2>4. \A p \in Calls \ {o} : Handles(p)' = Handles(p)
    BY <1>o, <1>0, <2>1 DEF Handles, Free
  <2> QED
    BY <1>o, <1>0, <2>1, <2>3, <2>4, LosesHandle, LetGoKeeps, OthersKept
<1> QED
  BY <1>1, <1>2, <1>3, <1>4, <1>5, <1>6, <1>7, <1>8 DEF CallerStep

LEMMA ReaderCounted ==
  ASSUME Types, Owned, Readers, Counted, NEW c \in Calls, ReaderStep(c)
  PROVE  Counted'
<1>o. PICK o : o = tracer[c].object
  OBVIOUS
<1>1. /\ caller' = caller /\ \A d \in Calls \ {c} : Same(d)
      /\ tracer'[c].object = o /\ IsReading(c) /\ o \in Calls
      /\ ring \in [Calls -> RingType] /\ tracer \in [Calls -> Tracer] /\ tracer[c] \in Tracer
  BY <1>o, ReaderKeeps, OfReader DEF Types, IsReading, Reading
<1>2. c \in Handles(o)
  BY <1>o, <1>1 DEF Handles, IsReading
<1>3. CASE tracer'[c].reader \in Reading
  <2>1. \A p : Handles(p)' = Handles(p)
    BY <1>o, <1>1, <1>3, SameHandles DEF HasHandle, IsReading, Same
  <2>2. CASE ring' = ring
    BY <2>1, <2>2, AllKept
  <2>3. CASE Take(c)
    <3>1. ring'[o].refs = ring[o].refs /\ \A p \in Calls \ {o} : ring'[p] = ring[p]
      BY <1>o, <1>1, <2>3 DEF Take, RingType
    <3> QED
      BY <1>1, <1>2, <2>1, <3>1, KeepsHandles DEF Counted
  <2>4. CASE ReaderReturns(c, "failed") \/ ReaderReturns(c, "stopped")
    BY <1>1, <1>3, <2>4 DEF ReaderReturns, Reading, Tracer
  <2> QED
    BY <2>2, <2>3, <2>4 DEF ReaderStep, StartReader, Poll, PollDone
<1>4. CASE tracer'[c].reader \notin Reading
  <2>1. ring' = LetGo(o)
    <3>1. CASE StartReader(c)
      BY <1>o, <1>1, <1>4, <3>1 DEF StartReader, ReaderReturns, Reading, Tracer
    <3>2. CASE Poll(c)
      BY <1>o, <1>1, <1>4, <3>2 DEF Poll, ReaderReturns, Reading, Tracer
    <3>3. CASE Take(c) \/ PollDone(c)
      BY <1>1, <1>4, <3>3 DEF Take, PollDone, Reading, Tracer
    <3> QED
      BY <3>1, <3>2, <3>3 DEF ReaderStep
  <2>2. 0 \notin Calls /\ Opened \notin Calls
    BY TryInitAssumption DEF Calls, Opened
  <2>3. Handles(o)' = Handles(o) \ {c}
    BY <1>o, <1>1, <1>4, <2>2 DEF Handles, Same
  <2>4. \A p \in Calls \ {o} : Handles(p)' = Handles(p)
    BY <1>o, <1>1, <1>4 DEF Handles, Same
  <2> QED
    BY <1>1, <1>2, <2>1, <2>3, <2>4, LosesHandle, LetGoKeeps, OthersKept
<1> QED
  BY <1>3, <1>4

LEMMA NextCounted == Types /\ Owned /\ Readers /\ Counted /\ Next => Counted'
<1> SUFFICES ASSUME Types, Owned, Readers, Counted, Next
             PROVE  Counted'
  OBVIOUS
<1>1. ASSUME NEW t \in Threads, NEW record, Write(t, record) PROVE Counted'
  <2>o. PICK o : o = caller[t].object
    OBVIOUS
  <2>1. o \in Calls /\ ring \in [Calls -> RingType] /\ caller' = caller /\ tracer' = tracer
    BY <1>1, <2>o, OfThread DEF Write, Types
  <2>2. ring'[o].refs = ring[o].refs /\ \A p \in Calls \ {o} : ring'[p] = ring[p]
    BY <1>1, <2>o, <2>1 DEF Write, RingType
  <2>3. \A p : Handles(p)' = Handles(p)
    BY <2>1, SameHandles DEF HasHandle, IsReading
  <2>4. 0 \in Handles(o)
    BY <2>o DEF Handles
  <2> QED
    BY <2>1, <2>2, <2>3, <2>4, KeepsHandles DEF Counted
<1>2. CASE UserInstalls
  <2>1. \A p : Handles(p)' = Handles(p)
    BY <1>2, SameHandles DEF UserInstalls, HasHandle, IsReading
  <2> QED
    BY <1>2, <2>1, AllKept DEF UserInstalls
<1>3. ASSUME NEW c \in Calls, Handle(c) PROVE Counted'
  <2>1. /\ caller' = caller /\ ring' = ring
        /\ \A d \in Calls : /\ tracer'[d].object = tracer[d].object
                            /\ tracer'[d].reader = tracer[d].reader
    BY <1>3, HandlerKeeps DEF Same
  <2>2. \A p : Handles(p)' = Handles(p)
    BY <2>1, SameHandles DEF HasHandle, IsReading
  <2> QED
    BY <2>1, <2>2, AllKept
<1> QED
  BY <1>1, <1>2, <1>3, CallerCounted, ReaderCounted DEF Next

-----------------------------------------------------------------------------
(***************************************************************************)
(* The theorems.                                                           *)
(***************************************************************************)

LEMMA InitInv == Init => Inv
<1> SUFFICES ASSUME Init PROVE Inv
  OBVIOUS
<1>1. Types
  BY InitTypes
<1>2. Leaked /\ Readers /\ Lateness
  BY DEF Init, Leaked, Readers, Lateness, Nothing, Free, Reading, Begun, Spawning
<1>3. Owned
  BY DEF Init, Owned, Nothing, Free, Calls
<1>4. Counted
  <2>1. \A o \in Calls : Handles(o) = {}
    BY DEF Init, Handles, Nothing, Free, Reading, Calls
  <2>2. Cardinality({}) = 0
    BY FS_EmptySet
  <2> QED
    BY <2>1, <2>2 DEF Init, Counted, NoRing
<1> QED
  BY <1>1, <1>2, <1>3, <1>4 DEF Inv

LEMMA NextInv == Inv /\ [Next]_vars => Inv'
<1> SUFFICES ASSUME Inv, [Next]_vars PROVE Inv'
  OBVIOUS
<1>1. CASE Next
  BY <1>1, NextTypes, NextLeaked, NextOwned, NextReaders, NextLateness, NextCounted DEF Inv
<1>2. CASE UNCHANGED vars
  <2>1. Types'
    BY <1>2 DEF vars, Inv, Types, Tracer, RingType, Emitted
  <2>2. Leaked' /\ Owned' /\ Readers' /\ Lateness'
    BY <1>2 DEF vars, Inv, Leaked, Owned, Readers, Begun, Spawning, Lateness
  <2>3. Counted'
    BY <1>2 DEF vars, Inv, Counted, Handles
  <2> QED
    BY <2>1, <2>2, <2>3 DEF Inv
<1> QED
  BY <1>1, <1>2

(* The invariant holds in every state of every execution.                  *)
THEOREM Invariance == Spec => []Inv
BY InitInv, NextInv, PTL DEF Spec

(* Every variable of the calls of try_init has its type, and a handler     *)
(* leaks one callsite for a level, kind and place that is let through.     *)
THEOREM TypeCorrect == Spec => []TypeOK
<1>1. Inv => TypeOK
  BY TypesAreTypeOK DEF Inv
<1> QED
  BY <1>1, Invariance, PTL

(* try_init leaves a print callback alone that the user had installed when *)
(* it was called.                                                          *)
THEOREM UsersCallbackStays == Spec => CallbackKept
<1> DEFINE Kept ==
      callback = "user" /\ callback' = "ours" =>
        \E t \in Threads : caller[t].stage = "install" /\ caller'[t].stage # "install"
                           /\ ~caller[t].late
<1>1. Inv /\ [Next]_vars => [Kept]_vars
  <2> SUFFICES ASSUME Inv, [Next]_vars, callback = "user", callback' = "ours"
               PROVE  Kept
    OBVIOUS
  <2>1. callback' # callback
    OBVIOUS
  <2>2. PICK t \in Threads : Install(t)
    BY <2>1 DEF vars, Next, CallerStep, Load, InitAgain, StartCall, Look, Find, ReturnErr,
       MakeRingBuf, Spawn, SpawnPanics, Join, DropProgram, Write, UserInstalls, ReaderStep,
       StartReader, Poll, Take, PollDone, Handle
  <2>3. caller[t].stage = "install" /\ caller'[t].stage = "find"
    BY <2>2, GotoMoves DEF Install, MovesTo, Inv
  <2> QED
    BY <2>2, <2>3 DEF Inv, Lateness
<1>2. Spec => [][Kept]_vars
  BY <1>1, Invariance, PTL DEF Spec
<1> QED
  BY <1>2 DEF CallbackKept

(* An object that could not be built, or whose calls of try_init all       *)
(* failed, is gone with its program, wherever try_init failed.             *)
THEOREM NothingIsLeftBehind == Spec => []FailedInitLeavesNothing
<1>1. Inv => FailedInitLeavesNothing
  <2> SUFFICES ASSUME Inv, NEW o \in Calls,
                      \A t \in Threads : caller[t].object # o,
                      \A c \in CallsFor(o) : tracer[c].handler = "none"
               PROVE  ring[o] = NoRing /\ \A c \in CallsFor(o) : HasReturned(c)
    BY DEF FailedInitLeavesNothing
  <2>1. \A c \in CallsFor(o) : c \in Calls /\ tracer[c].object = o /\ o # 0
    BY DEF CallsFor, Calls
  <2>2. \A c \in CallsFor(o) : tracer[c].reader \notin Reading
    <3> SUFFICES ASSUME NEW c \in CallsFor(o), tracer[c].reader \in Reading
                 PROVE  FALSE
      OBVIOUS
    <3>1. PICK t \in Threads : caller[t].call = c /\ Spawning(t)
      BY <2>1 DEF Inv, Readers
    <3>2. caller[t].object = o
      BY <2>1, <3>1 DEF Inv, Readers
    <3> QED
      BY <3>2
  <2>3. \A c \in CallsFor(o) : HasReturned(c)
    BY <2>1, <2>2 DEF Inv, Types, Tracer, Readers, HasReturned, Reading
  <2>4. Handles(o) = {}
    BY <2>2 DEF Handles, CallsFor
  <2>5. ring[o].refs = 0
    BY <2>4, FS_EmptySet DEF Inv, Counted
  <2> QED
    BY <2>3, <2>5 DEF Inv, Counted
<1> QED
  BY <1>1, Invariance, PTL
=============================================================================
