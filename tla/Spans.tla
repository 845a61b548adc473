-------------------------------- MODULE Spans --------------------------------
(***************************************************************************)
(* xbpf/src/tracing/mod.rs: how emit() rebuilds the spans of eBPF programs *)
(* from the events they wrote with the macros of xbpf/include/xbpf.h.      *)
(*                                                                         *)
(* A program opens spans on the CPU it runs on and closes them by name,    *)
(* the ones inside along with the one it names.  Its events travel through *)
(* the ring buffer, which keeps their order but may lose any of them       *)
(* (module LossyStream), to the one thread of try_init that handles them.  *)
(* The thread only sees names: the identities of spans are there to state  *)
(* the properties.                                                         *)
(***************************************************************************)
EXTENDS Integers, Sequences, FiniteSets

CONSTANTS
  Cpus,          \* ids bpf_get_smp_processor_id may return
  Parallelism,   \* available_parallelism, which may be less than the CPUs
  Names,         \* names of spans
  MaxLevel,      \* levels run from 1, ERROR, to MaxLevel
  BuildLevel,    \* BPF_TRACING_LEVEL the programs were compiled with
  Sites,         \* name and level of the bpf_start_*_span calls in the programs
  Filters,       \* values LevelFilter::current() takes
  MaxDepth,      \* bound on the spans a program opens inside each other
  MaxInFlight,   \* bound on the events between the programs and the thread
  MaxLosses,     \* bound on the events lost in a behaviour
  Ids            \* bound on the spans that exist at a time

Levels == 1 .. MaxLevel
NoSpan == 0
NoName == "text of a message"

ASSUME SpansAssumption ==
  /\ Cpus \subseteq Nat
  /\ Parallelism \in Nat \ {0}
  /\ MaxLevel \in Nat
  /\ BuildLevel \in 0 .. MaxLevel
  /\ Sites \subseteq Names \X Levels
  /\ Filters \subseteq 0 .. MaxLevel
  /\ {MaxDepth, MaxInFlight, MaxLosses} \subseteq Nat
  /\ Ids \subseteq Nat \ {NoSpan}

VARIABLES
  prog,           \* the spans open in the program on each CPU, outermost first
  events,         \* events written and not handled yet, oldest first
  spans,          \* SPANS: a stack of entered spans per CPU, that of CPU 0 first
  filter,         \* LevelFilter::current()
  losses,         \* events lost so far
  missingStarts,  \* CPUs on which the start of a span did not take effect
  missingEnds     \* CPUs on which the end of a span was lost

programVars == <<prog>>
threadVars  == <<spans>>
lossVars    == <<losses, missingEnds>>
vars == <<prog, events, spans, filter, losses, missingStarts, missingEnds>>

Kinds == {"Message", "StartSpan", "EndSpan"}

ProgramSpan == [name : Names, level : Levels, id : Ids]

(* An event carries the id of the span it starts or names the end of, or   *)
(* of the span a message was written in; no code looks at it.              *)
Event == [kind : Kinds, level : 0 .. MaxLevel, cpu : Cpus, content : Names \cup {NoName},
          id : Ids \cup {NoSpan}]

OpenSpan == [name : Names, id : Ids, parent : Ids \cup {NoSpan}]

Init ==
  /\ prog = [c \in Cpus |-> <<>>]
  /\ events = <<>>
  /\ spans = [i \in 1 .. Parallelism |-> <<>>]
  /\ filter \in Filters
  /\ losses = 0
  /\ missingStarts = {}
  /\ missingEnds = {}

-----------------------------------------------------------------------------
(***************************************************************************)
(* eBPF programs: the macros of xbpf.h.                                    *)
(***************************************************************************)

IdsOf(stack) == {stack[i].id : i \in DOMAIN stack}

IdsInUse ==
  UNION {IdsOf(prog[c]) : c \in Cpus}
    \cup UNION {IdsOf(spans[c]) : c \in DOMAIN spans}
    \cup IdsOf(events)

FreshId == CHOOSE id \in Ids \ IdsInUse : \A other \in Ids \ IdsInUse : id <= other

Write(kind, level, cpu, content, id) ==
  /\ Len(events) < MaxInFlight
  /\ events' = Append(events, [kind |-> kind, level |-> level, cpu |-> cpu,
                               content |-> content, id |-> id])

(* The macros of a level that is not compiled in expand to (0).            *)
CompiledIn(level) == level <= BuildLevel

(* bpf_start_*_span                                                        *)
StartSpan(cpu, name, level) ==
  /\ Len(prog[cpu]) < MaxDepth
  /\ ~(Ids \subseteq IdsInUse)
  /\ prog' = [prog EXCEPT ![cpu] =
                Append(@, [name |-> name, level |-> level, id |-> FreshId])]
  /\ IF CompiledIn(level)
     THEN Write("StartSpan", level, cpu, name, FreshId) /\ UNCHANGED missingStarts
     ELSE missingStarts' = missingStarts \cup {cpu} /\ UNCHANGED events
  /\ UNCHANGED <<threadVars, lossVars, filter>>

(* bpf_end_span of the i-th open span, the innermost one of its name; the  *)
(* program leaves the spans opened inside it, too.  It is compiled in      *)
(* whenever tracing is on at all.                                          *)
EndSpan(cpu, i) ==
  LET ended == prog[cpu][i] IN
  /\ \A j \in DOMAIN prog[cpu] : prog[cpu][j].name = ended.name => j <= i
  /\ prog' = [prog EXCEPT ![cpu] = SubSeq(@, 1, i - 1)]
  /\ IF BuildLevel # 0
     THEN Write("EndSpan", 0, cpu, ended.name, ended.id)
     ELSE UNCHANGED events
  /\ UNCHANGED <<threadVars, lossVars, missingStarts, filter>>

(* The innermost of the spans the build knows about.                       *)
InnermostCompiledIn(cpu) ==
  LET known == {i \in DOMAIN prog[cpu] : CompiledIn(prog[cpu][i].level)} IN
  IF known = {} THEN NoSpan
  ELSE prog[cpu][CHOOSE i \in known : \A j \in known : j <= i].id

(* bpf_error, bpf_warn, bpf_info, bpf_debug and bpf_trace.                 *)
Message(cpu, level) ==
  /\ CompiledIn(level)
  /\ Write("Message", level, cpu, NoName, InnermostCompiledIn(cpu))
  /\ UNCHANGED <<programVars, threadVars, lossVars, missingStarts, filter>>

-----------------------------------------------------------------------------
(***************************************************************************)
(* The transport: a full ring buffer or a full channel loses an event, and *)
(* an event that cannot be decoded is skipped.                             *)
(***************************************************************************)
Lose(i) ==
  /\ losses < MaxLosses
  /\ losses' = losses + 1
  /\ events' = SubSeq(events, 1, i - 1) \o SubSeq(events, i + 1, Len(events))
  /\ missingStarts' = IF events[i].kind = "StartSpan"
                      THEN missingStarts \cup {events[i].cpu} ELSE missingStarts
  /\ missingEnds' = IF events[i].kind = "EndSpan"
                    THEN missingEnds \cup {events[i].cpu} ELSE missingEnds
  /\ UNCHANGED <<programVars, threadVars, filter>>

(* A subscriber may change its maximum level at run time.                  *)
SetFilter(level) ==
  /\ filter' = level
  /\ UNCHANGED <<programVars, threadVars, lossVars, events, missingStarts>>

-----------------------------------------------------------------------------
(***************************************************************************)
(* The thread of try_init: emit().                                         *)
(***************************************************************************)

(* A faulty resize that forgets the stacks that are already there.         *)
StacksReset(cpu) ==
  IF cpu >= Len(spans) THEN [i \in 1 .. cpu + 1 |-> <<>>] ELSE spans

(* spans.resize_with(cpu + 1, VecDeque::new) for a CPU that is not known.  *)
StacksFor(cpu) ==
  IF cpu >= Len(spans)
  THEN [i \in 1 .. cpu + 1 |-> IF i <= Len(spans) THEN spans[i] ELSE <<>>]
  ELSE spans

(* A faulty parent: the outermost open span.                               *)
Front(stack) == IF stack = <<>> THEN NoSpan ELSE stack[1].id

(* spans[cpu].back().and_then(|(_, p)| p.id())                             *)
Back(stack) == IF stack = <<>> THEN NoSpan ELSE stack[Len(stack)].id

(* A faulty end that takes the innermost span for the one that ends.       *)
PopOne(stack, name) ==
  IF stack = <<>> THEN stack ELSE SubSeq(stack, 1, Len(stack) - 1)

(* A faulty end that searches the stack from the outermost span.           *)
PopThroughOutermost(stack, name) ==
  LET matches == {i \in DOMAIN stack : stack[i].name = name} IN
  IF matches = {} THEN <<>>
  ELSE SubSeq(stack, 1, (CHOOSE i \in matches : \A j \in matches : i <= j) - 1)

(* A faulty end that looks at the match without popping it.                *)
PopDownTo(stack, name) ==
  LET matches == {i \in DOMAIN stack : stack[i].name = name} IN
  IF matches = {} THEN <<>>
  ELSE SubSeq(stack, 1, CHOOSE i \in matches : \A j \in matches : j <= i)

(* Pop until a popped span has the name, or until nothing is left.         *)
PopThrough(stack, name) ==
  LET matches == {i \in DOMAIN stack : stack[i].name = name} IN
  IF matches = {} THEN <<>>
  ELSE SubSeq(stack, 1, (CHOOSE i \in matches : \A j \in matches : j <= i) - 1)

Enabled(event) == event.level <= filter

(* A message goes to the subscriber with the innermost open span of its    *)
(* CPU as its parent, and changes no stack.                                *)
ParentOf(event) == Back(StacksFor(event.cpu)[event.cpu + 1])

(* A faulty message that stays on the stack, as a span does.               *)
PushMessage(event, stacks) ==
  /\ event.kind = "Message"
  /\ spans' = [stacks EXCEPT ![event.cpu + 1] =
                 Append(@, [name |-> event.content, id |-> event.id,
                            parent |-> ParentOf(event)])]
  /\ UNCHANGED missingStarts

EmitMessage(event, stacks) ==
  /\ event.kind = "Message"
  /\ spans' = stacks
  /\ UNCHANGED missingStarts

EmitStart(event, stacks) ==
  /\ event.kind = "StartSpan"
  /\ IF Enabled(event)
     THEN /\ spans' = [stacks EXCEPT ![event.cpu + 1] =
                         Append(@, [name |-> event.content, id |-> event.id,
                                    parent |-> ParentOf(event)])]
          /\ UNCHANGED missingStarts
     ELSE /\ spans' = stacks
          /\ missingStarts' = missingStarts \cup {event.cpu}

EmitEnd(event, stacks) ==
  /\ event.kind = "EndSpan"
  /\ spans' = [stacks EXCEPT ![event.cpu + 1] = PopThrough(@, event.content)]
  /\ UNCHANGED missingStarts

Emit ==
  /\ events # <<>>
  /\ events' = Tail(events)
  /\ LET event == Head(events)
         stacks == StacksFor(event.cpu)
     IN EmitMessage(event, stacks) \/ EmitStart(event, stacks) \/ EmitEnd(event, stacks)
  /\ UNCHANGED <<programVars, lossVars, filter>>

-----------------------------------------------------------------------------
Next ==
  \/ \E c \in Cpus, site \in Sites : StartSpan(c, site[1], site[2])
  \/ \E c \in Cpus : \E i \in DOMAIN prog[c] : EndSpan(c, i)
  \/ \E c \in Cpus, l \in Levels : Message(c, l)
  \/ \E i \in DOMAIN events : Lose(i)
  \/ \E l \in Filters : SetFilter(l)
  \/ Emit

Spec == Init /\ [][Next]_vars

(* The thread keeps handling events.                                       *)
FairSpec == Spec /\ WF_vars(Emit)

(* Moreover every CPU keeps running the program, which ends the spans it   *)
(* starts.                                                                 *)
BusySpec ==
  /\ FairSpec
  /\ \A c \in Cpus :
       /\ SF_vars(\E i \in DOMAIN prog[c] : EndSpan(c, i))
       /\ SF_vars(\E site \in Sites : StartSpan(c, site[1], site[2]))

-----------------------------------------------------------------------------
(***************************************************************************)
(* Properties.                                                             *)
(***************************************************************************)

StackOf(c) == IF c < Len(spans) THEN spans[c + 1] ELSE <<>>

(* Nothing that could disturb the spans of a CPU has happened on it.       *)
Undisturbed(c) == c \notin missingStarts \cup missingEnds

InFlight(c) == \E i \in DOMAIN events : events[i].cpu = c

EndsInFlight(c) == {i \in DOMAIN events : events[i].cpu = c /\ events[i].kind = "EndSpan"}

(* Every variable has its type.                                            *)
TypeOK ==
  /\ prog \in [Cpus -> Seq(ProgramSpan)]
  /\ events \in Seq(Event)
  /\ spans \in Seq(Seq(OpenSpan))
  /\ filter \in Filters
  /\ losses \in 0 .. MaxLosses
  /\ missingStarts \subseteq Cpus
  /\ missingEnds \subseteq Cpus

(* "Everything emitted on the same CPU until the matching EndSpan is       *)
(* nested inside it": as long as no start and no end of a CPU is missing,  *)
(* the parent of a message is the span the program wrote it in, whatever   *)
(* the other CPUs interleave with it or lose.                              *)
MessageInItsSpan ==
  events # <<>> /\ Head(events).kind = "Message" /\ Undisturbed(Head(events).cpu) =>
    ParentOf(Head(events)) = Head(events).id

(* As long as nothing is missing, the stack of a CPU is the stack of its   *)
(* program once its events have been handled, with the same nesting.       *)
StackIsTheProgramsStack ==
  \A c \in Cpus :
    Undisturbed(c) /\ ~InFlight(c) =>
      /\ Len(StackOf(c)) = Len(prog[c])
      /\ \A i \in DOMAIN prog[c] :
           /\ StackOf(c)[i].id = prog[c][i].id
           /\ StackOf(c)[i].parent = IF i = 1 THEN NoSpan ELSE prog[c][i - 1].id

(* A lost end never closes a span too early: unless the start of another   *)
(* span is missing, a span that has been started stays open as long as the *)
(* program has it open.                                                    *)
OpenUntilItsEnd ==
  \A c \in Cpus : c \notin missingStarts =>
    IdsOf(prog[c]) \subseteq IdsOf(StackOf(c)) \cup IdsOf(events)

(* A span the program has ended, by its own end or by that of a span       *)
(* around it, stays open beyond the ends in flight only if an end was lost *)
(* on its CPU: a missing start, an end that matches nothing or the wrong   *)
(* span, or a change of the level filter never leave a span open.          *)
LeftOpenOnlyByLostEnd ==
  \A c \in Cpus \ missingEnds :
    EndsInFlight(c) = {} => IdsOf(StackOf(c)) \subseteq IdsOf(prog[c])

(* If the program on a CPU keeps ending all of its spans and loses no end, *)
(* then user space keeps leaving all of them too.                          *)
SpansAreLeft ==
  \A c \in Cpus :
    []<>(prog[c] = <<>>) => []<>(StackOf(c) = <<>> \/ c \in missingEnds)

(* The comment on emit: an end closes every span opened inside, "so that a *)
(* span whose end was dropped by a full ring buffer doesn't stay open      *)
(* forever" (mod.rs:252), if the program keeps ending all of its spans.    *)
NothingStaysOpenForever ==
  \A c \in Cpus : []<>(prog[c] = <<>>) => []<>(StackOf(c) = <<>>)

(* The comment on tracing_event_type: "Everything emitted between a start  *)
(* and an end on the same CPU is nested inside that span" (xbpf.h:38), for *)
(* the spans whose start is compiled in.                                   *)
NestedUntilItsEnd ==
  events # <<>> /\ Head(events).kind = "Message" =>
    ParentOf(Head(events)) = Head(events).id
=============================================================================
