------------------------------- MODULE TryInit -------------------------------
(***************************************************************************)
(* xbpf/src/prog.rs and xbpf/src/tracing/mod.rs: Program::build, try_init, *)
(* the thread that handles the events, and its callsites.                  *)
(*                                                                         *)
(* Several threads load objects of their own and call try_init, again for  *)
(* the same object if they like; every call that succeeds leaves a reader  *)
(* and a handler behind, which go on when the program is dropped.  Records *)
(* are followed from the ring to the subscriber; the bounded channel in    *)
(* between is module RingBuf's, the stacks of spans are module Spans'.     *)
(***************************************************************************)
EXTENDS Integers, Sequences

CONSTANTS
  Threads,
  Builders,     \* the threads that use Program::build
  MaxCalls,     \* bound on the calls of try_init
  Events,       \* what a program may write: records as in CallsiteKey
  Undecodable,  \* a record that Event::try_from rejects
  Levels,       \* the levels LevelFilter::current() lets through
  MaxRecords    \* bound on the records written

CallsiteKeys == [level : STRING, isSpan : BOOLEAN, place : STRING]

ASSUME TryInitAssumption ==
  /\ Events \subseteq CallsiteKeys
  /\ Undecodable \notin Events
  /\ Builders \subseteq Threads
  /\ MaxCalls \in Nat /\ MaxRecords \in Nat

VARIABLES
  callback,  \* libbpf's print callback
  caller,    \* where each thread is
  calls,     \* the calls of try_init so far
  tracer,    \* what each of them has set up
  ring,      \* the ring buffer map of each object
  written,   \* what the programs of all objects wrote, in that order
  emitted    \* what reached the subscriber: a record and its metadata

vars == <<callback, caller, calls, tracer, ring, written, emitted>>

Calls == 1 .. MaxCalls

(* A thread without an object.  An object goes by the first call made for  *)
(* it; late tells whether the user's callback was already installed then.  *)
Free == [stage |-> "free", object |-> 0, call |-> 0, building |-> FALSE, late |-> FALSE]

(* A call makes a reader, which remembers its position while it polls, and *)
(* a handler with the callsites it has leaked.                             *)
Nothing == [object |-> 0, reader |-> "none", at |-> 0, stop |-> FALSE, queue |-> <<>>,
            handler |-> "none", callsites |-> <<>>]

(* A map the kernel does not have, and one that only the program refers to.*)
NoRing == [refs |-> 0, records |-> <<>>, consumed |-> 0]
NewRing == [NoRing EXCEPT !.refs = 1]

Init ==
  /\ callback = "none"
  /\ caller = [t \in Threads |-> Free]
  /\ calls = 0
  /\ tracer = [c \in Calls |-> Nothing]
  /\ ring = [o \in Calls |-> NoRing]
  /\ written = <<>>
  /\ emitted = <<>>

-----------------------------------------------------------------------------
(***************************************************************************)
(* The calling threads.                                                    *)
(***************************************************************************)

Goto(t, stage) == caller' = [caller EXCEPT ![t].stage = stage]

(* The kernel frees a map with its last reference.                         *)
LetGo(o) == [ring EXCEPT ![o] = IF @.refs > 1 THEN [ring[o] EXCEPT !.refs = @ - 1] ELSE NoRing]

StartCall(t, object, building) ==
  /\ calls < MaxCalls
  /\ calls' = calls + 1
  /\ caller' = [caller EXCEPT ![t] = [stage |-> "look", object |-> object, call |-> calls + 1,
                                      building |-> building, late |-> callback = "user"]]
  /\ UNCHANGED <<callback, tracer, written, emitted>>

(* Program::build opens and loads an object, which may fail without a      *)
(* trace; or it is loaded some other way and given to try_init.            *)
Load(t) ==
  /\ caller[t].stage = "free"
  /\ StartCall(t, calls + 1, t \in Builders)
  /\ ring' = [ring EXCEPT ![calls + 1] = NewRing]

InitAgain(t) ==
  /\ caller[t].stage = "ready"
  /\ StartCall(t, caller[t].object, FALSE)
  /\ UNCHANGED ring

(* A faulty try_init that installs its callback in any case.               *)
LookAnyway(t) ==
  /\ caller[t].stage = "look"
  /\ Goto(t, "install")
  /\ UNCHANGED <<callback, calls, tracer, ring, written, emitted>>

(* get_print, and then set_print.                                          *)
Look(t) ==
  /\ caller[t].stage = "look"
  /\ Goto(t, IF callback = "none" THEN "install" ELSE "find")
  /\ UNCHANGED <<callback, calls, tracer, ring, written, emitted>>

Install(t) ==
  /\ caller[t].stage = "install"
  /\ callback' = "ours"
  /\ Goto(t, "find")
  /\ UNCHANGED <<calls, tracer, ring, written, emitted>>

UserInstalls ==
  /\ callback' = "user"
  /\ UNCHANGED <<caller, calls, tracer, ring, written, emitted>>

(* A faulty lookup that borrows the program's reference to the map.        *)
FindBorrowed(t) ==
  /\ caller[t].stage = "find"
  /\ Goto(t, "found")
  /\ UNCHANGED <<callback, calls, tracer, ring, written, emitted>>

(* The map is looked up by its name, and opened by its id.                 *)
Find(t) ==
  /\ caller[t].stage = "find"
  /\ ring' = [ring EXCEPT ![caller[t].object].refs = @ + 1]
  /\ Goto(t, "found")
  /\ UNCHANGED <<callback, calls, tracer, written, emitted>>

HasReturned(c) == tracer[c].reader \in {"stopped", "failed"}

Fails(t) == Goto(t, IF caller[t].building THEN "failed" ELSE "ready")

(* There is no such map, it cannot be queried or opened, it is not a ring  *)
(* buffer, or the thread of the reader cannot be started.                  *)
ReturnErr(t) ==
  /\ \/ caller[t].stage = "find" /\ UNCHANGED ring
     \/ caller[t].stage = "found" /\ ring' = LetGo(caller[t].object)
  /\ Fails(t)
  /\ UNCHANGED <<callback, calls, tracer, written, emitted>>

(* RingBuf::new moves the handle into the reader.                          *)
MakeRingBuf(t) ==
  /\ caller[t].stage = "found"
  /\ tracer' = [tracer EXCEPT ![caller[t].call] =
                  [Nothing EXCEPT !.object = caller[t].object, !.reader = "starting"]]
  /\ Goto(t, "spawn")
  /\ UNCHANGED <<callback, calls, ring, written, emitted>>

Spawn(t) ==
  /\ caller[t].stage = "spawn"
  /\ tracer' = [tracer EXCEPT ![caller[t].call].handler = "running"]
  /\ Goto(t, "ready")
  /\ UNCHANGED <<callback, calls, ring, written, emitted>>

(* A faulty RingBuf whose drop does not wait for the reader.               *)
SpawnPanicsAndDetaches(t) ==
  /\ caller[t].stage = "spawn"
  /\ tracer' = [tracer EXCEPT ![caller[t].call].stop = TRUE]
  /\ Fails(t)
  /\ UNCHANGED <<callback, calls, ring, written, emitted>>

(* thread::spawn panics if there is no thread to be had: the closure is    *)
(* dropped, and the RingBuf in it, which stops and joins its reader.       *)
SpawnPanics(t) ==
  /\ caller[t].stage = "spawn"
  /\ tracer' = [tracer EXCEPT ![caller[t].call].stop = TRUE]
  /\ Goto(t, "join")
  /\ UNCHANGED <<callback, calls, ring, written, emitted>>

Join(t) ==
  /\ caller[t].stage = "join"
  /\ HasReturned(caller[t].call)
  /\ Fails(t)
  /\ UNCHANGED <<callback, calls, tracer, ring, written, emitted>>

(* The owner drops the program, or build does since try_init failed.       *)
DropProgram(t) ==
  /\ caller[t].stage \in {"ready", "failed"}
  /\ ring' = LetGo(caller[t].object)
  /\ caller' = [caller EXCEPT ![t] = Free]
  /\ UNCHANGED <<callback, calls, tracer, written, emitted>>

(* A program writes a record; build returns it before it can be attached.  *)
Write(t, record) ==
  /\ caller[t].stage # "free"
  /\ caller[t].building => caller[t].stage = "ready"
  /\ Len(written) < MaxRecords
  /\ written' = Append(written, [object |-> caller[t].object, record |-> record])
  /\ ring' = [ring EXCEPT ![caller[t].object].records = Append(@, Len(written) + 1)]
  /\ UNCHANGED <<callback, caller, calls, tracer, emitted>>

-----------------------------------------------------------------------------
(***************************************************************************)
(* The reader of call c, libbpf's poll included: it loads the position it  *)
(* starts from once, and stores the one it has reached after each record.  *)
(***************************************************************************)

ReaderReturns(c, how) ==
  /\ tracer' = [tracer EXCEPT ![c].reader = how]
  /\ ring' = LetGo(tracer[c].object)

(* The ring buffer is opened by the thread, and an error is not reported.  *)
StartReader(c) ==
  /\ tracer[c].reader = "starting"
  /\ \/ tracer' = [tracer EXCEPT ![c].reader = "away"] /\ UNCHANGED ring
     \/ ReaderReturns(c, "failed")
  /\ UNCHANGED <<callback, caller, calls, written, emitted>>

Poll(c) ==
  /\ tracer[c].reader = "away"
  /\ IF tracer[c].stop THEN ReaderReturns(c, "stopped")
     ELSE /\ tracer' = [tracer EXCEPT ![c].reader = "polling",
                                      ![c].at = ring[tracer[c].object].consumed]
          /\ UNCHANGED ring
  /\ UNCHANGED <<callback, caller, calls, written, emitted>>

(* What is read once the RingBuf is dropped is not buffered any more.      *)
Take(c) ==
  LET me == tracer[c]
      records == ring[me.object].records
  IN
  /\ me.reader = "polling" /\ me.at < Len(records)
  /\ tracer' = [tracer EXCEPT ![c].at = @ + 1,
                              ![c].queue = IF me.stop THEN @ ELSE Append(@, records[me.at + 1])]
  /\ ring' = [ring EXCEPT ![me.object].consumed = me.at + 1]
  /\ UNCHANGED <<callback, caller, calls, written, emitted>>

PollDone(c) ==
  /\ tracer[c].reader = "polling"
  /\ tracer[c].at >= Len(ring[tracer[c].object].records)
  /\ tracer' = [tracer EXCEPT ![c].reader = "away"]
  /\ UNCHANGED <<callback, caller, calls, ring, written, emitted>>

-----------------------------------------------------------------------------
(* The handler of call c.                                                  *)

(* A faulty cache that does not distinguish levels and kinds.              *)
SamePlace(key, other) == key.place = other.place

SameKey(key, other) == key = other

(* A faulty cache that does not remember what it has leaked.               *)
LeakAlways(callsites, key) == Append(callsites, key)

(* The metadata of a callsite holds what its key does, and is leaked.      *)
WithCallsite(callsites, key) ==
  IF \E i \in DOMAIN callsites : SameKey(callsites[i], key) THEN callsites
  ELSE Append(callsites, key)

MetadataOf(callsites, key) ==
  LET i == CHOOSE i \in DOMAIN callsites : SameKey(callsites[i], key) IN callsites[i]

(* A record that cannot be decoded is only warned of, and one above the    *)
(* level that is let through is dropped before it needs a callsite.        *)
Emit(c, n) ==
  LET key == written[n].record
      known == WithCallsite(tracer[c].callsites, key)
  IN
  IF key # Undecodable /\ key.level \in Levels
  THEN /\ tracer' = [tracer EXCEPT ![c].queue = Tail(@), ![c].callsites = known]
       /\ emitted' = Append(emitted, [record |-> n, metadata |-> MetadataOf(known, key)])
  ELSE tracer' = [tracer EXCEPT ![c].queue = Tail(@)] /\ UNCHANGED emitted

(* blocking_recv returns None once the reader has stopped and nothing is   *)
(* buffered.                                                               *)
Handle(c) ==
  /\ tracer[c].handler = "running"
  /\ \/ tracer[c].queue # <<>> /\ Emit(c, Head(tracer[c].queue))
     \/ /\ tracer[c].queue = <<>> /\ HasReturned(c)
        /\ tracer' = [tracer EXCEPT ![c].handler = "ended"]
        /\ UNCHANGED emitted
  /\ UNCHANGED <<callback, caller, calls, ring, written>>

-----------------------------------------------------------------------------
CallerStep(t) ==
  \/ Load(t) \/ InitAgain(t)
  \/ Look(t) \/ Install(t) \/ Find(t) \/ ReturnErr(t) \/ MakeRingBuf(t)
  \/ Spawn(t) \/ SpawnPanics(t) \/ Join(t) \/ DropProgram(t)

ReaderStep(c) == StartReader(c) \/ Poll(c) \/ Take(c) \/ PollDone(c)

Next ==
  \/ \E t \in Threads : CallerStep(t)
  \/ \E t \in Threads, record \in Events \cup {Undecodable} : Write(t, record)
  \/ UserInstalls
  \/ \E c \in Calls : ReaderStep(c) \/ Handle(c)

Spec == Init /\ [][Next]_vars

(* The threads that were spawned run.                                      *)
FairSpec == Spec /\ \A c \in Calls : WF_vars(ReaderStep(c)) /\ WF_vars(Handle(c))

-----------------------------------------------------------------------------
(***************************************************************************)
(* Properties.                                                             *)
(***************************************************************************)

Stages == {"free", "look", "install", "find", "found", "spawn", "join", "ready", "failed"}

Tracer ==
  [object : Calls \cup {0}, reader : {"none", "starting", "away", "polling", "stopped", "failed"},
   at : Nat, stop : BOOLEAN, queue : Seq(DOMAIN written),
   handler : {"none", "running", "ended"}, callsites : Seq(Events)]

(* Every variable has its type, and a handler leaks one callsite for a key *)
(* (leaks_one_callsite_per_level_and_kind), and none for an event that is  *)
(* not let through.                                                        *)
TypeOK ==
  /\ callback \in {"none", "ours", "user"}
  /\ caller \in [Threads -> [stage : Stages, object : Calls \cup {0}, call : Calls \cup {0},
                             building : BOOLEAN, late : BOOLEAN]]
  /\ calls \in 0 .. MaxCalls
  /\ tracer \in [Calls -> Tracer]
  /\ ring \in [Calls -> [refs : Nat, records : Seq(DOMAIN written), consumed : Nat]]
  /\ written \in Seq([object : Calls, record : Events \cup {Undecodable}])
  /\ emitted \in Seq([record : DOMAIN written, metadata : Events])
  /\ \A c \in Calls : \A i, j \in DOMAIN tracer[c].callsites :
       /\ tracer[c].callsites[i] = tracer[c].callsites[j] => i = j
       /\ tracer[c].callsites[i].level \in Levels

(* try_init installs its print callback "unless one is already set": a     *)
(* callback the user had installed when try_init was called stays.  One    *)
(* that is installed while try_init runs may be overwritten.               *)
CallbackKept ==
  [][callback = "user" /\ callback' = "ours" =>
       \E t \in Threads : caller[t].stage = "install" /\ caller'[t].stage # "install"
                          /\ ~caller[t].late]_vars

CallsFor(o) == {c \in Calls : tracer[c].object = o}

(* An object that could not be built, or whose calls of try_init all       *)
(* failed, is gone with its program: no reader, no handler and no handle   *)
(* keeps its ring buffer in the kernel, wherever try_init failed.          *)
FailedInitLeavesNothing ==
  \A o \in Calls :
    /\ \A t \in Threads : caller[t].object # o
    /\ \A c \in CallsFor(o) : tracer[c].handler = "none"
    => ring[o] = NoRing /\ \A c \in CallsFor(o) : HasReturned(c)

ObjectOf(n) == written[n].object

(* No call was made for o after one that succeeded.                        *)
NotInitAgain(o) == \A c, d \in CallsFor(o) : tracer[c].handler # "none" => d <= c

(* Events of an object are emitted in the order in which they were written,*)
(* each at most once and with metadata of its own level, kind and place:   *)
(* also if calls of try_init had failed before one succeeded.  (A call     *)
(* after that makes another reader of the ring, and the two may read a     *)
(* record twice.)                                                          *)
EmittedOnce ==
  \A j \in DOMAIN emitted :
    LET n == emitted[j].record IN
      /\ emitted[j].metadata = written[n].record
      /\ \A i \in 1 .. j - 1 :
           LET m == emitted[i].record IN
             ObjectOf(m) = ObjectOf(n) /\ NotInitAgain(ObjectOf(n)) => m < n

(* The one call made for o has succeeded, and its reader opens the ring.   *)
IsTraced(o) ==
  \E c \in Calls :
    CallsFor(o) = {c} /\ tracer[c].handler # "none" /\ tracer[c].reader # "failed"

IsEmitted(n) == \E i \in DOMAIN emitted : emitted[i].record = n

(* Record n is to be emitted and is not yet.                               *)
IsDue(n) ==
  /\ n \in DOMAIN written /\ ~IsEmitted(n)
  /\ written[n].record # Undecodable /\ written[n].record.level \in Levels
  /\ IsTraced(ObjectOf(n))

(* What a program wrote is emitted, although records before it could not   *)
(* be decoded, and although the program has been dropped in the meantime:  *)
(* the handler goes on "for as long as the process lives".                 *)
EventsOutliveTheProgram == \A n \in 1 .. MaxRecords : IsDue(n) ~> ~IsDue(n)
=============================================================================
