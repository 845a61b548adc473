# xBPF in TLA+

Specifications of the [xBPF](https://github.com/lbrndnr/xbpf) library: what its
ring buffer reader, its tracing layer, its typed hash map and its build script
support do.  TLC checks them on small instances; every safety property those
runs check, and the refinement of the ring buffer, is also proved with TLAPS
for all values of the constants.  Liveness is model-checked only.

Paths are relative to the repository. Every definition that stands for code is
listed with its lines in `PROJECT.json`, under `map`.

## Contents

| file | what it is |
|------|------------|
| `RingBuf.tla` | eBPF programs, the kernel ring, the reader thread, the channel and the handle |
| `RingBufLog.tla` | `RingBuf` with numbered records and a history; refines `LossyStream` |
| `LossyStream.tla` | what a ring buffer promises, without any of its parts |
| `RingBufProofs.tla` | the inductive invariant of `RingBuf` and six theorems |
| `RingBufLogProofs.tla` | order, counting and conservation of records, and the refinement, proved |
| `Spans.tla`, `MCSpans.tla` | `xbpf.h`'s span macros, a lossy transport and `emit()` |
| `SpansProofs.tla` | what user space knows of the program's spans, proved |
| `EventCodec.tla`, `MCEventCodec.tla` | the record `xbpf.h` writes and `Event::try_from` that reads it |
| `EventCodecProofs.tla` | that the decoder reads what the macro wrote, proved |
| `HashMap.tla`, `MCHashMap.tla` | the typed hash map, shared by threads and programs |
| `HashMapProofs.tla` | what operations of several calls guarantee under interference, proved |
| `TryInit.tla`, `MCTryInit.tla` | `Program::build` and `try_init` by several threads: callback, reader, handler, callsites |
| `TryInitProofs.tla` | references, readers and the print callback, proved |
| `EmittedOnceProofs.tla` | on top of it: events are emitted in order and once, proved |
| `Headers.tla` | `vmlinux.h` and the exported headers, written by the build scripts of a workspace |
| `SkelBuild.tla`, `MCSkelBuild.tla` | `Headers` and `Builder::build` or `build_objects`, again and again into one `OUT_DIR` |
| `SkelBuildProofs.tla` | that headers stay whole, and that a build leaves behind what it should, proved |
| `*.cfg` | the runs, see below |

## Inventory of the system

**`xbpf.h`** (`xbpf/include/xbpf.h`). State: one ring buffer map,
`bpf_tracing_events`. Operations: a macro per level that emits a message or
opens a span, and `bpf_end_span`. Each reserves a slot, fills it and submits it,
and gives up if the ring is full. Which macros exist is decided by
`BPF_TRACING_LEVEL` at build time; `bpf_end_span` exists whenever any does.
Hard: programs on several CPUs race between reserve and submit.

**`RingBuf`** (`xbpf/src/collections/ring_buf.rs`). State: a bounded tokio
channel, an atomic drop counter, an atomic stop flag, a reader thread.
Operations: `new`, `recv`/`blocking_recv`/`try_recv`, `dropped`, `len`, `drop`;
the thread polls the kernel ring and `try_send`s a copy of each record. Correct
if it delivers submitted records only, in order, at most once, counts what the
channel could not take, never holds the programs up, and lets `drop` return.
Hard: three concurrent parties, two bounded queues, a shutdown that races with
the callback, relaxed atomics.

**Tracing** (`xbpf/src/tracing/mod.rs`). State, local to one thread: a stack of
open spans per CPU and a cache of callsites; libbpf's print callback, which is
global. `try_init` installs the callback if there is none, finds the map by its
name, opens it by its id, makes a `RingBuf` and spawns the thread; `emit` turns
each event into a `tracing` event, or opens or closes spans. Correct if a
message ends up in the span it was written in, spans are neither closed too
early nor left open, each event is emitted once with metadata of its own, and a
`try_init` that fails leaves nothing behind. Hard: the events of all CPUs are
one stream, any of them may be missing, the level filter may change at any
time, several threads initialise at once, and initialising may fail after a
reader has been started.

**Event codec** (`xbpf/src/tracing/event.rs`). No state. Decodes a record by
offsets that must agree with `xbpf.h`. Correct if it returns what was written,
or an error. Hard: lengths at their limits, strings cut inside a character.

**`HashMap`** (`xbpf/src/collections/hash_map.rs`). State: the kernel's map.
Single-call operations (`get`, `update`, `insert_new`, `replace`, `delete`,
`freeze`), two-call ones (`insert`, `remove`), walks (`keys`, `len`, `clear`,
`iter`), batches (`insert_batch`, `remove_batch`, `extend`). Correct if what
an operation returns is true of the map, as far as its documentation goes.
Hard: other threads and the programs change the map between any two calls, and
a batch may fail half way.

**`Builder`** (`xbpf/src/build.rs`). State: `OUT_DIR`, which survives from one
build to the next. `build` lists the sources, compiles one after another and
links skeletons with an unambiguous name; `build_objects` only compiles.
Correct if `include_bpf!` finds the skeleton of the current source. Hard:
leftovers of earlier builds, panics half way, names that become ambiguous,
sources that share a place.

**Headers** (`dump_kernel_btf`, `export_headers`, `copy_dir` in `build.rs`).
State: `vmlinux.h` and copies of xBPF's headers, in `OUT_DIR` and in
`target/include`, which the build scripts of a workspace share. Correct if no
source is compiled against a header that is missing or cut short. Hard:
check-then-write, files that are emptied and then written, scripts that are
killed.

**Clang arguments** (`level_from_env` and others in `build.rs`). No state.

**`Program`** (`xbpf/src/prog.rs`): opens, loads, calls `try_init`, and drops
the program if that fails. **`OpenObject`** (`obj.rs`), `lib.rs`, the example and the tests: no behaviour
of their own to model.

How they interact: `build` dumps the headers and compiles programs against them; `Program::build`
loads one and calls `try_init`; the programs write to the ring; the reader
thread of `RingBuf` moves records into the channel; the thread of `try_init`
takes them out, decodes them and emits them. `HashMap` shares nothing with the
rest but the kernel.

What is hard to test in this code is listed line by line in `PROJECT.json`
under `hazards`, with the properties that are about it.

## Modules

### RingBuf

| model | code |
|-------|------|
| `ring`: slots with an owner, or `Submitted` | the kernel ring between consumer and producer position |
| `handle`, `capacity`, `ended` | the `RingBuf` value and its owner's control flow |
| `chan` | the mpsc channel |
| `dropped`, `stop` | the two atomics |
| `reader` | the program counter of `read()` |

`Reserve` and `Submit` are the halves of `BPF_TRACING_EMIT_EVENT`. The owner's
actions are `NewOpen`, `NewRejected`, `Recv`, `RecvNone`, and the three parts of
`drop`: `DropStop`, `DropClose`, `DropJoin`. The reader's actions follow
`read()` and libbpf: `StartReader`, `CheckStop`, `Poll`, then for each submitted
record `SendOk`, or `SendFull` and `CountDropped`, or `SendClosed` and `Halt`,
then `Release`; and `DrainDone` when the ring is empty or its head is not
submitted. The callback's effects are separate steps, because the owner may
look between them.

Abstractions: the ring counts records, not bytes, so that a record is either
accepted or not; the contents of a record are one of `Records`; an atomic that
is accessed relaxed is a variable, since each is read and written in one place
only and the channel orders what must be ordered. Of the external code the
model uses this: libbpf's poll does not return before the ring is empty or its
head is busy, and moves the consumer position after the callback has returned;
`try_send` reports a closed channel before a full one; `recv` returns `None`
only if nothing is buffered and the sender is gone.

`RingBufLog` numbers the records in the order of their reservation and adds
`reserved`, `received` and `lost`. It restricts nothing but the number of
records (`MaxRecords`). `Stream == INSTANCE LossyStream WITH ...` maps what is
in the ring and not handled, and what is in the channel, to the pending records
of the stream.

### Spans

`prog` holds the spans each program really has open; `events` is the transport;
`spans` is the thread local `SPANS`. `StartSpan`, `EndSpan` and `Message` are
the macros, with `CompiledIn` for `BPF_TRACING_LEVEL`. `Lose` takes any event
out of the transport: that is what a full ring, a full channel and a failed
decoding amount to. `SetFilter` changes `LevelFilter::current()`. `Emit` is one
call of `emit()`, of which `StacksFor` is the resizing, `ParentOf` the parent
given to a message or a span and `PopThrough` the loop of `EndSpan`.
Every span has an identity that no code looks at; it lets the properties say
which span is meant. `missingStarts` and `missingEnds` are the CPUs on which a
start or an end is missing. A program may end any span it has open, by its name,
and then also leaves the spans inside it, as `xbpf.h:127-129` says; of two spans
of one name it ends the inner one. `Sites` are the names and levels of the calls
in the programs' sources.

### EventCodec

`record` is a sequence of bytes, laid out by `RecordOf` from the event
`written`: header, message, and for a program with `BPF_TRACING_SOURCE_LOC` a
file name, padding and the line. `TryFrom` reads it at the offsets `event.rs`
computes from its own string length, with the checks in the order of the code.
`build` is how the two sides were compiled. Formatting is external: it cuts,
terminates, and leaves the rest of a field as an earlier record left it; it may
fail, for the message, the file name or both (`formatted`, `fileFormatted`),
which the macro does not notice. A byte has eight values; in a valid
string (`IsUtf8`) a lead byte is followed by a trail byte and a trail byte
follows a lead byte. That is what a cut string needs, and no more of UTF-8 is
modelled. Numbers take two or four bytes, the least significant first (`U16`,
`U32`), and `U16At` and `U32At` read them back. `STR_LEN` is even, as 128 is, so
that the compiler puts no padding in front of the line. `EmitEvent`, `Decode`
and `Handle` are the macro, the conversion in `blocking_recv` and the rest of the
loop in `try_init`.

### HashMap

The map is a sequence of entries in the order the kernel walks them, because
that order decides what `keys()` yields while the map changes: one bucket after
another (`BucketOf`), a new or updated entry goes to the front of its bucket
(`With`), and `get_next_key` starts over if its key is gone. A
system call on one key is one step; an operation of several calls, and every
element of a batch, is a step of its own. `alone` collects, per running
operation, the keys nobody else has touched since it began, which is what the
properties need to say "unless somebody else changed it". `created`, `claimed`
and `consumed` count, for the claims of `insert_new` and `remove`. A map made
with `create_lru` has room for every new entry, and any update of it may evict
any other entries (the kernel promises no order); what is evicted has been
changed by somebody else, also for the thread that made the update.

### TryInit

| model | code |
|-------|------|
| `callback` | libbpf's print callback: none, the one of `try_init`, or the user's |
| `caller` | where a thread is in `Program::build` and `try_init` |
| `tracer` | what each call has made: reader, channel, handling thread, its `CALLSITES` |
| `ring` | the map of each object in the kernel, with the references to it |
| `emitted` | the `tracing` events, with their metadata |

`Load` is the part of `Program::build` before `try_init`, or an object that is
loaded some other way; `InitAgain` calls `try_init` for an object that already
had a call. `Look` and `Install` are `get_print` and `set_print`, two steps, with
`UserInstalls` at any time. `Find` opens the map by its id, a reference of its
own; `ReturnErr` is every `?` up to and including `RingBuf::new`, which
`MakeRingBuf` is otherwise. `Spawn` starts the handler; `SpawnPanics` is the panic of
`thread::spawn`, whose closure is dropped with the `RingBuf` in it, and `Join`
its end. A call made by `Program::build` that fails is followed by `DropProgram`.
The reader is that of `RingBuf`, reduced to what two readers of one ring can do
to each other: libbpf loads the consumer position when it starts to poll and
stores the one it has reached after every record. `Handle` is a round of the
loop, `Emit` what `emit()` does with a message or the start of a span up to its
callsite, and `WithCallsite` is `get_callsite`; the path that is stripped from
a file name is part of a `place`.

An object is used by one thread at a time. A `Program` is not attached before
`build` returns it, so its programs write nothing until then; an object that was
loaded some other way may be attached already.

### Headers and SkelBuild

`header` says for each header in each directory which of its `Parts` are on the
disk: a header is `Absent`, or empty, or has some parts or all. `script` is the
list of headers a script has still to write (`Dump` for `dump_kernel_btf`,
`Export` for `export_headers`), and how far it is with the first. `DumpSkip` is
the test for an existing file, `DumpRun` running bpftool, `OpenFile` and
`WritePart` are `fs::write` or `fs::copy`, which empty a file and then fill it
at a position of their own. `Interrupt` is any panic, or a kill, between two
steps.

`SkelBuild` extends `Headers` with one script that is followed, `Me`. A `Mode`
is what that script calls: the headers it writes before it lists its sources
(`all_clang_args`, after `export_headers` if that is called), `build` or
`build_objects`, and which other scripts run. `files` are the skeletons or
objects in `OUT_DIR`, `links` the symbolic links in its root. `List` is
`named_sources`: the sources that match the pattern, in the order of the
directories, and those that were named explicitly (`NamedSources`). `Compile` is
one round of the loop up to the link, `Link` the block that replaces the link,
`Panic` any of the panics or a kill. `Edit` may happen at any time, also while a
build runs. `Written` says that writing an output file follows a link that is
there, which is what opening a file does; libbpf-cargo is external. The path of
the crate has no component called `src`. `OUT_DIR` is an absolute path, as the
one is that cargo passes and `include_bpf!` reads (`build.rs:78-82`): the target
of a link is the path of the artifact as it was computed (`build.rs:409`), so
with a relative `Builder::out_dir` it is resolved from the directory of the link
and dangles.

## Runs

| run | config | question | result |
|-----|--------|----------|--------|
| RingBuf | `RingBuf.cfg` | Is a record ever torn, a reader stopped early, a `None` premature, a program held up, a `drop` stuck? | holds |
| RingBufLoad | `RingBufLoad.cfg` | Does the reader notice the flag under load? | **no** |
| RingBufLog | `RingBufLog.cfg` | Order, counting, conservation, and the refinement of `LossyStream` | holds |
| Spans | `Spans.cfg` | Do two CPUs keep their nesting apart, and are all spans left? | holds |
| SpansLossy | `SpansLossy.cfg` | What can lost events and a changing filter do at worst? | holds |
| SpansFiltered | `SpansFiltered.cfg` | Is a message nested in its span if the build leaves levels out? | **no** |
| SpansLeftOpen | `SpansLeftOpen.cfg` | Is a span whose end was lost closed eventually? | **no** |
| EventCodec | `MCEventCodec.cfg` | Is what is decoded what was written, and what is rejected, and why? | holds |
| TryInit | `MCTryInit.cfg` | What does a failed `try_init` leave behind, and what is emitted, how often? | holds |
| HashMap | `MCHashMap.cfg` | What do the operations guarantee under interference, and do they return once it stops? | holds |
| SkelBuild | `MCSkelBuild.cfg` | Does `include_bpf!` find the right skeleton after any history, and is anything compiled against half a header? | holds |
| SkelBuildMirror | `MCSkelBuildMirror.cfg` | Does each source keep an artifact of its own? | **no** |

The four runs that answer "no" each check one sentence of the repository's own
documentation against the code; `PROJECT.json` quotes it under `findings`.

1. `drop` waits for the load to end: poll returns only once it finds no
   submitted record, and only then is the flag looked at
   (`ring_buf.rs:152`). A libbpf that bounds the records of one poll does so at
   `INT_MAX`, which the model leaves out. `DropReturnsWhenQuiet` is what remains true.
2. The end of a span whose start was compiled out closes the spans around it
   (`xbpf.h:38`, `xbpf.h:131-137`): no open span has its name, and `emit` pops
   the whole stack before it notices. A start that was lost or disabled by the
   subscriber has the same effect, and if a span around it has the same name,
   the end closes that one.
3. After a lost end, a program that opens the span again leaves the first one
   open for ever (`mod.rs:252-254`). `LeftOpenOnlyByLostEnd` and
   `OpenUntilItsEnd` are what remains true.
4. A link left behind when a name becomes ambiguous makes two skeletons share a
   file (`build.rs:374`, `build.rs:402`). `IncludeFindsTheSource` is what
   remains true, for unambiguous names.

`RejectsOnlyCutCharacters` of `EventCodec` is the precise form of another
remark: `xbpf.h:53` says that longer messages are truncated, but a string cut
inside a UTF-8 character is not shortened, its event is rejected as a whole.

The models follow the code where its documentation says something else. No run
is spent on these, which a reader of the two places can see:

- `ring_buf.rs:61-62` promises an error of `new` if the ring buffer cannot be
  opened. The reader thread opens it, and returns silently if that fails
  (`ring_buf.rs:178-184`, `StartReader`): the owner holds a handle, a full ring is
  never drained, and only a `None` tells. `FullRingIsDrained` and
  `EveryRecordSettles` name this exception.
- `mod.rs:104-105` installs the print callback "unless one is already set". One
  that is set between `get_print` and `set_print` (`mod.rs:124-125`) is replaced;
  `CallbackKept` is what remains true, for a callback that was there before the
  call.
- `mod.rs:119` says that `try_init` panics if the ring buffer cannot be set up,
  for instance because the map has the wrong type. That is an error
  (`mod.rs:144`), and a ring buffer that the reader thread cannot open is
  neither: `try_init` returns `Ok` and nothing is ever emitted
  (`StartReader`).
- `mod.rs:193` counts one callsite per key. There is one per key and handling
  thread, that is per successful call of `try_init`. The callsite a span's
  metadata refers to is made with the kind of an event, and the other way
  round (`mod.rs:204-208`); the metadata itself has the right kind.
- `build.rs:169` says that the include path of the xBPF headers is always passed
  to clang. Without the `tracing` feature it is not (`all_clang_args`).

### Bounds, and why they are enough

- `RingBuf.cfg`: two programs, because overtaking needs two; a ring of two
  slots, so that one may be unsubmitted behind or before another; channels of
  one and two records and the rejected zero; a counter that wraps at 3.
- `RingBufLog.cfg`: three programs and a ring of three, so that a slot may be
  unsubmitted before, between and behind others; five records, so that the ring
  and the channel can both be full and the counter can wrap (modulus 3). The
  run ends when the records are used up and the handle is dropped.
- `Spans.cfg`: two CPUs with ids 0 and 2 and a parallelism of 1, so that the
  table must grow over a gap; stacks two deep, two events in flight, one loss.
  One name, which makes every span ambiguous for the search. `SpansLossy.cfg`
  has one CPU, since stacks of different CPUs share nothing, two names, so that
  a program can end an outer span by its name, and two losses: a start and an
  end, or two of either. `EverySite` lets a program start every name at every
  level; `NamesOfTheirOwn` of `SpansFiltered.cfg` has one name per level, so that
  an end whose start was not compiled in finds no span of its name.
- `MCEventCodec.cfg`: strings of 4 bytes for user space, and of 1, 2, 4, 5 and
  12 for programs: shorter, equal, with padding in both variants, and so long
  that a record without a location has the size of one with a location.
  Messages of up to seven bytes fill a field, overrun it, and are cut
  between or inside characters.
- `MCHashMap.cfg`: two clients, two calls and two writes by clients and
  programs together (a batch writes one value to all its keys), three keys in
  a map of two, which is an ordinary or an LRU map. That is enough for a key to
  be replaced, deleted and re-created between two calls of one operation, for a
  full map, an eviction within a batch, and for a walk that starts over. Two
  keys share a bucket and the third is in a later one, so that an entry may
  appear in front of a walk as well as behind it.
- `MCTryInit.cfg`: two threads, of which one uses `Program::build`, two calls of
  `try_init` and two records. Two calls are a race for the callback, a retry
  after a failure, two readers of one ring or two handlers with caches of their
  own; a record that is read twice needs a second one that moves the consumer
  position on. Events of one place differ in kind and level, one of them is
  filtered out, and a record may be undecodable.
- `MCSkelBuild.cfg`: a name in the root, in two directories and outside of
  `src`, another name to tell apart, and four edits: enough to add, move and
  remove the source of a name between builds. Two scripts and headers of two
  parts, so that one may be half written; with one edit, since headers and
  sources do not depend on each other.

### Fairness, and why the code justifies it

- `RingBuf`: weak fairness of the reader's steps and of the steps inside
  `drop`: both are running threads, and neither waits for anything but what its
  guard says. Weak fairness of `Submit`: the verifier only admits programs that
  reach their submit. None for `Reserve`, `Recv` or `DropStop`.
  `DropReturnsWhenQuiet` has the end of the load as its premise instead.
- `RingBufLog`: also weak fairness of `LogRecv`, as the loop of `try_init`
  provides.
- `Spans`: weak fairness of `Emit`, the same loop. `BusySpec` adds strong
  fairness of starting and ending spans; it is only used for the
  counterexample, which must not be a program that simply stops.
- `HashMap`: weak fairness of a client that is inside an operation.
- `TryInit`: weak fairness of every reader and of every handler, which are
  threads that have been spawned; none for those who call.

## Proofs

`RingBufProofs.tla` proves, for every set of programs, every capacity of ring
and channel and every width of the counter, and from `RingBufAssumption` alone
(the markers differ from real values, the ring has room, the modulus exceeds 1):

| theorem | property |
|---------|----------|
| `Invariance` | `Inv`, the inductive invariant |
| `TypeCorrect` | `TypeOK` |
| `OnlySubmittedRecords` | `NoTornRecord` |
| `OpenMeansReading` | `OpenReaderKeepsRunning` |
| `NoneMeansEnd` | `NoneIsFinal` |
| `DropIsQuiet` | `NothingConsumedAfterDrop` |

None of the properties is inductive. `NoTornRecord` needs that a submitted slot
has been written (`SubmittedIsWritten`), since the callback copies whatever the
head holds. `OpenReaderKeepsRunning` needs that the reader can only be about to
raise the flag if the channel has been closed, and `NothingConsumedAfterDrop`
that a dropped handle has a stopped reader. The type invariant needs
that the reader is past the head of a non-empty ring whenever it is about to
count, to halt or to release (`HeadIsHeld`). The conjunction `Inv` is
preserved by each action; the lemmas `SubmitSlots`, `ReserveSlots` and
`ReleaseSlots` say what the three operations on the ring do to its slots, and
`ProgramStepInv`, `OwnerStepInv` and `ReaderStepInv` collect the actions of the
three parties.

`RingBufLogProofs.tla` continues this for `RingBufLog`, with `LogAssumption`
(records are numbered from 1 to `MaxRecords`, which may be any number):

| theorem | property |
|---------|----------|
| `LogInvariance` | `LogInv`, the inductive invariant |
| `OrderIsKept` | `ReceivedInOrder` |
| `LossIsKnown` | `GapsAreCounted` |
| `CountIsExact` | `DroppedIsExact` |
| `EveryRecordIsSomewhere` | `NothingVanishes` |
| `Refinement` | `ImplementsLossyStream` |

`LogInv` adds to `Inv` that a submitted slot holds the number of its record
(`Numbered`), that what was received and what is buffered is one increasing
sequence that ends where the callback is (`InOrder`), and that below each of its
records nothing is unaccounted for (`NoGap`). The refinement is proved step by
step: a step of any party is a step of the stream (`StreamStep`) or leaves it as
it is. The fairness of the stream is not part of it; TLC checks it as
`EveryRecordSettles`.

`TryInitProofs.tla` and `EmittedOnceProofs.tla` use `TryInitAssumption`, for any
number of threads, calls and records:

| theorem | property |
|---------|----------|
| `Invariance` | `Inv`, the inductive invariant |
| `TypeCorrect` | `TypeOK` |
| `UsersCallbackStays` | `CallbackKept` |
| `NothingIsLeftBehind` | `FailedInitLeavesNothing` |
| `InOrderOnce` | `EmittedOnce` |

A call of `try_init` that failed leaves nothing behind because the references to
the map are known one by one: the program's, the one `try_init` has opened, and
one per reader that is still at work (`Handles`). `Counted` says that the
kernel's count is their number and that a map without references is gone,
`Owned` that no two threads work on one object, `Readers` that a reader without a
handler is one whose thread is about to give it a handler or waits for its end.
`InOrderOnce` is about an object for which nobody calls `try_init` again after a
success. `OneAfterTheOther` of `OrderInv` says that such an object has one
reader and one handler at a time, and that its records are in order across the
stages they pass through: those that are out, those in the queue, those the
reader has still to read. `Latest` is needed to know that no earlier call can
still be reading.

`SpansProofs.tla` uses `SpansAssumption`, for any number of CPUs, names, losses
and any depth:

| theorem | property |
|---------|----------|
| `Invariance` | `Inv`, the inductive invariant |
| `TypeCorrect` | `TypeOK` |
| `NestingIsKept` | `StackIsTheProgramsStack` |
| `MessagesKeepTheirSpan` | `MessageInItsSpan` |
| `NeverClosedEarly` | `OpenUntilItsEnd` |
| `OnlyLostEndsLeaveSpansOpen` | `LeftOpenOnlyByLostEnd` |

The properties compare the stack of user space with the program's once nothing
is in flight. In between the events in flight have to be accounted for, and
so the invariant says that a history exists (`HasHistory`): the spans that
were open when each event in flight was written. The first of these stacks is
mirrored by user space (`Mirrors`), each is turned into the next by its event
and what was lost behind it (`Becomes`), and the last is what the program has
open now. How faithful a mirror is depends on what is missing: unless an
end is missing every entry stands for an open span (`IsOpen`), every open span has an entry
unless a start is missing (`HasEntry`), and the two are equal on an undisturbed
CPU (`SameNesting`). The end of a span cuts the program's stack at it, which is
what the mirror's loop does as well when it finds the name. Losing an event
joins two steps of the history; handling one removes the first.

`HashMapProofs.tla` uses `HashMapAssumption` (a batch is a sequence of keys, every
key has a bucket, and the marker for "no key" is neither a key nor a client), for
any number of threads, keys, entries and buckets:

| theorem | property |
|---------|----------|
| `Invariance` | `Inv`, the inductive invariant |
| `TypeCorrect` | `TypeOK` |
| `ReturnedIsReplaced` | `ReturnsWhatItReplaced` |
| `OneOwner` | `EntriesHaveOneOwner` |
| `ClearedIsExact` | `ClearIsExact` |
| `LengthIsExact` | `LenIsExact` |
| `PrefixIsWritten` | `BatchWritesAPrefix` |

What an operation returns was read earlier. `Sound` says what the locals of a
client still have to do with the map, for the keys in `alone`: what `insert` and
`remove` looked up is still there (`OldIsCurrent`), a walk has seen such a key or
will come to it (`WalkMissesNone`), `clear` has it on its list
(`ClearMissesNone`), a batch has written exactly the keys it has come past
(`BatchIsPrefix`). All steps of all clients and programs change the map in one
way (`Changes`): entries of other keys may go but none is added or changed,
those that stay keep their order, and the entry that is written comes before
all others of its own and of later buckets. That is why a walk misses nothing
(`IsAhead`): if the key it is at goes, the walk starts over, and if that key
comes back before the walk goes on, it is in front of everything the walk had
still to see. `InsertedBehind` and `Pushed` say what putting an entry into the
middle of the chain does to it.

`SkelBuildProofs.tla` has two parts. `WholeHeaders`, that is
`Spec => []HeadersAreWhole`, holds for any number of build scripts, any headers a
script is asked for and any number of pieces in which a file reaches the disk. It
uses `HeadersAssumption` (the shared directory is no script's `OUT_DIR`, a file
has at least one piece), `SkelBuildAssumption` (the pattern and the explicit
sources name sources, the script that is followed is one) and `ModesAssumption`
(it is not among the others, and dumps a `vmlinux.h` for itself, as
`all_clang_args` always does). `HeadersAreWhole` says nothing of a header that is
being written, so it cannot survive the last write by itself. `HeaderInv` adds
that one of the writers, the last to have opened the file, has missed none of
what it has written so far (`HasLastWriter`), and that a header with a writer
exists. Opening a file makes the opener that writer; the others only add parts; a
writer that finishes has written them all; and a writer that leaves early marks
the header as interrupted (`LeavesFiles`). `Inv` adds that the followed script has
no header left to write when it begins a build.

The second part is about what a build leaves behind, for any sources and any
history of builds, edits, panics and kills; it also uses `NoLinkAssumption` (no
directory is called like the absence of a link):

| theorem | property |
|---------|----------|
| `BuildInvariance` | `BuildInv`, the inductive invariant |
| `TypeCorrect` | `TypeOK` |
| `NoDanglingLink` | `LinksNeverDangle` |
| `IncludeIsRight` | `IncludeFindsTheSource` |
| `ObjectsAreRight` | `ObjectsAreTheirSources` |
| `HeadersAreComplete` | `CompilesAgainstWholeHeaders` |

The properties speak of the end of a build; `IncludedSoFar` and `ObjectsSoFar`
are what each round of the loop adds to them, and `CompiledBeforeLinked` is what
holds between the two halves of a round. They need that no later round writes
through a link into a place that is done. For the headers, `OthersShare`,
`NothingIsTaken` and `JobsAreDone` say that in its `OUT_DIR` the script is alone
and that the headers it has come past are there.

`EventCodecProofs.tla` uses `EventCodecAssumption`, for strings of any length in
user space and in the program, any stale content of the ring and any message:

| theorem | property |
|---------|----------|
| `CodecInvariance` | `CodecInv`, the inductive invariant |
| `DecodesRight` | `DecodesWhatWasWritten` |
| `RejectsForAReason` | `RejectsOnlyCutCharacters` |
| `NoOtherEvent` | `NeverAnotherEvent` |

The invariant is simple, a record or a result belongs to the event on its way;
the work is in the lemmas about the layout. `ShortRecordIs` and `LongRecordIs`
say what is at which offset of the two variants. `FieldRead` is the one that
matters: through a window of any length over a field of any length the decoder
sees a prefix of the string, because the NUL that `BPF_SNPRINTF` always leaves in
the field is inside the window, or the window is inside the string. `U16Value`
and `U32Value` say that numbers are read as they are written, `CutIsUtf8` that a
text which is not cut inside a character stays one.

Only model-checked: liveness (`FullRingIsDrained`, `DropReturnsWhenQuiet`,
`EveryRecordSettles`, `SpansAreLeft`, `OperationsReturn`,
`EventsOutliveTheProgram`), since the prover reasons neither about fairness nor
about ENABLED, and the four runs that answer "no". Nothing that is
proved rests on a recursive definition. Facts that need induction are proved by a smallest
counterexample (`SmallestOf`, from the well-foundedness of the numbers).

## Not modelled

- `iter` and `values` of `HashMap`, which read in batches: what they may skip
  or repeat depends on how the kernel copies whole buckets. Pinning only names a
  map.
- A relative `Builder::out_dir`, see SkelBuild.
- A `try_init` that is called again after it has succeeded emits records twice;
  nothing in the repository excludes that, so no property does.
- A crate whose own path has a component called `src`: `path_relative_to_src`
  takes the first one, and puts everything into subdirectories.
- Several threads that call `try_init` for one object at the same time.
- How the level is read from `RUST_LOG`: `EnvFilter` decides what a directive
  means, and the result is the constant `BuildLevel` of `Spans`.
- Entering and exiting of spans on the handling thread, and what a subscriber
  does with them.
- The size of a record in bytes: the ring holds a number of records.
- cargo's decision to run a build script; the text of messages; parsing of
  `RUST_LOG`.

## Plan

The safety properties that are checked are proved. What could be added:

1. The kernel's ring in bytes, with `len` and records of several sizes.
2. `iter` and `values`, on a model of the buckets a batched read walks.
3. Several threads that call `try_init` for one object at the same time.
4. A composition of `EventCodec` with `Spans`, so that an event that cannot be
   decoded is one of the losses `Spans` counts by what it contains.
