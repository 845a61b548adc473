----------------------------- MODULE EventCodec -----------------------------
(***************************************************************************)
(* The wire format of a trace event: BPF_TRACING_EMIT_EVENT of             *)
(* xbpf/include/xbpf.h writes a record, Event::try_from of                 *)
(* xbpf/src/tracing/event.rs reads it back by offsets of its own.  The two *)
(* sides are compiled separately: a program chooses the length of its      *)
(* strings and whether it records source locations, and user space has its *)
(* own length and its own feature flag.                                    *)
(*                                                                         *)
(* A byte is a number below Base.  A character is one byte or a lead byte  *)
(* and a trail byte, which are only valid together, so that a string can   *)
(* be cut inside a character.                                              *)
(***************************************************************************)
EXTENDS Integers, Sequences, SequencesExt

CONSTANTS
  STR_LEN,        \* BPF_TRACING_STR_LEN of user space (128 in event.rs)
  ProgramLengths, \* values of BPF_TRACING_STR_LEN a program is built with
  MaxBytes,       \* bound: the longest message
  Files,          \* the values of __FILE__
  Levels,         \* the levels of the events
  Cpus,           \* the ids of the CPUs
  Lines           \* the values of __LINE__

Base == 8
NUL == 0
Letter == 1
LeadByte == 6
TrailByte == 7
TextByte == {Letter, LeadByte, TrailByte}

\* std::str::from_utf8: lead and trail bytes come in pairs only.
IsUtf8(bytes) ==
  \A i \in DOMAIN bytes :
    /\ bytes[i] = LeadByte => i < Len(bytes) /\ bytes[i + 1] = TrailByte
    /\ bytes[i] = TrailByte => i > 1 /\ bytes[i - 1] = LeadByte

\* The strings a program may print.
Messages == {s \in BoundedSeq(TextByte, MaxBytes) : IsUtf8(s)}

\* The length of the strings in user space is even, as 128 is: the compiler
\* puts no padding in front of the line.
ASSUME EventCodecAssumption ==
  /\ STR_LEN \in Nat \ {0} /\ STR_LEN % 2 = 0
  /\ ProgramLengths \subseteq Nat \ {0}
  /\ MaxBytes \in Nat
  /\ \A f \in Files : f \in Seq(TextByte) /\ IsUtf8(f)
  /\ Levels \subseteq 1 .. 5
  /\ Cpus \subseteq 0 .. Base * Base - 1
  /\ Lines \subseteq 0 .. Base * Base * Base * Base - 1

VARIABLES
  build,    \* how the program and user space were compiled
  written,  \* the event the program emits, before it is formatted
  record,   \* the bytes of the record in the ring, <<>> if there is none
  result    \* what try_from returned for the record

vars == <<build, written, record, result>>

-----------------------------------------------------------------------------
(* xbpf.h *)

Builds == [strLen : ProgramLengths, sourceLoc : BOOLEAN, feature : BOOLEAN]

\* The macros: a span is started at a level, and ended at OFF.
Macros ==
  [kind : {"Message", "StartSpan"}, level : Levels]
    \cup [kind : {"EndSpan"}, level : {0}]

KindByte == [Message |-> 0, StartSpan |-> 1, EndSpan |-> 2]

Pending == [status |-> "Pending"]
None == [kind |-> "None"]

\* A number in two or in four bytes, the least significant first.
U16(n) == <<n % Base, (n \div Base) % Base>>
U32(n) == U16(n) \o U16(n \div (Base * Base))

\* What if the whole field were filled, as strncpy does?
FieldWithoutNul(string, n, stale) ==
  [i \in 1 .. n |-> IF i <= Len(string) THEN string[i] ELSE NUL]

\* A field of n bytes whose earlier content was `stale`: BPF_SNPRINTF cuts the
\* string so that a NUL fits behind it and leaves the rest of the field alone.
Field(string, n, stale) ==
  LET len == IF Len(string) < n THEN Len(string) ELSE n - 1 IN
  [i \in 1 .. n |-> IF i <= len THEN string[i] ELSE IF i = len + 1 THEN NUL ELSE stale]

\* A field is left alone if the helper fails because its buffers are in use;
\* the macro does not look at its result.
Printed(string, formatted, n, stale) ==
  IF formatted THEN Field(string, n, stale) ELSE [i \in 1 .. n |-> stale]

\* Bytes up to a multiple of `align`, as the compiler lays out the struct.
Padding(len, align, stale) == [i \in 1 .. (-len) % align |-> stale]

BaseRecord(w, n, stale) ==
  <<w.level, KindByte[w.kind]>> \o U16(w.cpu) \o Printed(w.content, w.formatted, n, stale)

\* struct bpf_tracing_event in its two variants.
RecordOf(w, b, stale) ==
  LET base == BaseRecord(w, b.strLen, stale)
      withFile == base \o Printed(w.file, w.fileFormatted, b.strLen, stale)
  IN IF b.sourceLoc
     THEN withFile \o Padding(Len(withFile), 4, stale) \o U32(w.line)
     ELSE base \o Padding(Len(base), 2, stale)

\* What an earlier record may have left in a field.
Stale == {NUL, Letter, LeadByte}

\* The macro, from the reservation to the submit.  Each of its two calls of the
\* helper may fail without the other.
EmitEvent ==
  /\ written = None
  /\ \E m \in Macros, content \in Messages, cpu \in Cpus, file \in Files,
        line \in Lines, formatted \in BOOLEAN, fileFormatted \in BOOLEAN,
        stale \in Stale :
       /\ written' = [kind |-> m.kind, level |-> m.level, content |-> content,
                      cpu |-> cpu, file |-> file, line |-> line,
                      formatted |-> formatted, fileFormatted |-> fileFormatted]
       /\ record' = RecordOf(written', build, stale)
  /\ result' = Pending
  /\ UNCHANGED build

-----------------------------------------------------------------------------
(* event.rs *)

EVENT_BASE_SIZE == 4 + STR_LEN
EVENT_WITH_FILE_SIZE == EVENT_BASE_SIZE + STR_LEN + 4

Err(reason) == [status |-> reason]

\* The bytes before the first NUL, or all of them.
CStr(bytes) ==
  LET nuls == {i \in DOMAIN bytes : bytes[i] = NUL} IN
  IF nuls = {} THEN bytes ELSE SubSeq(bytes, 1, Min(nuls) - 1)

MsgOf(buf) == CStr(SubSeq(buf, 5, EVENT_BASE_SIZE))
FileOf(buf) == CStr(SubSeq(buf, EVENT_BASE_SIZE + 1, EVENT_BASE_SIZE + STR_LEN))

\* u16::from_ne_bytes of the two bytes at i, and u32::from_ne_bytes of four.
U16At(buf, i) == buf[i] + Base * buf[i + 1]
U32At(buf, i) == U16At(buf, i) + Base * Base * U16At(buf, i + 2)

LineOf(buf) == U32At(buf, EVENT_BASE_SIZE + STR_LEN + 1)

\* What if the size were compared with `>`?
HasFileStrictly(buf) == Len(buf) > EVENT_WITH_FILE_SIZE

HasFile(buf) == Len(buf) >= EVENT_WITH_FILE_SIZE

LevelIsValid(buf) == buf[1] \in 1 .. 5

\* What if the level were parsed before the kind is looked at?
LevelIsAlwaysParsed(buf) == ~ LevelIsValid(buf)

\* The level is only parsed for the kinds that have one.
LevelIsRejected(buf) ==
  buf[2] \in {KindByte["Message"], KindByte["StartSpan"]} /\ ~ LevelIsValid(buf)

EventOf(buf) ==
  [status |-> "Ok",
   kind |-> CHOOSE k \in DOMAIN KindByte : KindByte[k] = buf[2],
   level |-> IF buf[2] = KindByte["EndSpan"] THEN 0 ELSE buf[1],
   content |-> MsgOf(buf),
   cpu |-> U16At(buf, 3),
   \* an empty file name stands for None
   loc |-> IF HasFile(buf) THEN <<FileOf(buf), LineOf(buf)>> ELSE <<>>]

\* Event::try_from, with its checks in the order of the code.
TryFrom(buf, feature) ==
  IF Len(buf) < EVENT_BASE_SIZE THEN Err("BufferTooShort")
  ELSE IF ~ IsUtf8(MsgOf(buf)) THEN Err("InvalidUtf8")
  ELSE IF feature /\ ~ HasFile(buf) THEN Err("BufferTooShort")
  ELSE IF HasFile(buf) /\ ~ IsUtf8(FileOf(buf)) THEN Err("InvalidUtf8")
  ELSE IF buf[2] \notin {KindByte[k] : k \in DOMAIN KindByte} THEN Err("InvalidKind")
  ELSE IF LevelIsRejected(buf) THEN Err("InvalidLevel")
  ELSE EventOf(buf)

\* The handling thread takes the record out of the channel and decodes it.
Decode ==
  /\ record # <<>>
  /\ result' = TryFrom(record, build.feature)
  /\ record' = <<>>
  /\ UNCHANGED <<build, written>>

\* The event is emitted or the error logged, and the thread goes on.
Handle ==
  /\ result # Pending
  /\ written' = None
  /\ result' = Pending
  /\ UNCHANGED <<build, record>>

-----------------------------------------------------------------------------
Init ==
  /\ build \in Builds
  /\ written = None
  /\ record = <<>>
  /\ result = Pending

Next == EmitEvent \/ Decode \/ Handle

Spec == Init /\ [][Next]_vars

-----------------------------------------------------------------------------
(* Properties *)

Decoded == result.status = "Ok"
SameLength == build.strLen = STR_LEN

\* What is left of a string in a field of STR_LEN bytes.
Cut(string) ==
  IF Len(string) < STR_LEN THEN string ELSE SubSeq(string, 1, STR_LEN - 1)

\* The cut goes through a character.
CutInside(string) ==
  Len(string) >= STR_LEN /\ STR_LEN > 1 /\ string[STR_LEN - 1] = LeadByte

(* If both sides agree on the length of strings, a record that is decoded  *)
(* is the event the program wrote, with its strings cut to the length of   *)
(* the field, and with its source location exactly if the program records  *)
(* one, whatever user space was compiled for (event.rs:19-23).  A string   *)
(* that could not be formatted leaves everything else as it was written.   *)
DecodesWhatWasWritten ==
  Decoded /\ SameLength =>
    /\ <<result.kind, result.level, result.cpu>>
         = <<written.kind, written.level, written.cpu>>
    /\ written.formatted => result.content = Cut(written.content)
    /\ (result.loc # <<>>) = build.sourceLoc
    /\ build.sourceLoc =>
         /\ result.loc[2] = written.line
         /\ written.fileFormatted => result.loc[1] = Cut(written.file)

(* If both sides agree on the length of strings, an event is lost to the   *)
(* decoder for one of two reasons only: user space insists on a source     *)
(* location that the program does not record, or one of the strings was    *)
(* not formatted or was cut inside a character, which from_utf8 does not   *)
(* forgive (event.rs:229-234).                                             *)
RejectsOnlyCutCharacters ==
  result.status \notin {"Pending", "Ok"} /\ SameLength =>
    \/ result.status = "BufferTooShort" /\ build.feature /\ ~ build.sourceLoc
    \/ /\ result.status = "InvalidUtf8"
       /\ written.formatted => CutInside(written.content)
    \/ /\ result.status = "InvalidUtf8" /\ build.sourceLoc
       /\ written.fileFormatted => CutInside(written.file)

(* A program built with strings of another length, which the decoder       *)
(* cannot tell from the record, and a message that could not be formatted  *)
(* still never turn into an event of another kind, level or CPU, and the   *)
(* content is never more than the program wrote: the NUL that BPF_SNPRINTF *)
(* leaves in the field stops the decoder before it reaches another one.    *)
NeverAnotherEvent ==
  /\ result.status \notin {"InvalidKind", "InvalidLevel"}
  /\ Decoded =>
       /\ <<result.kind, result.level, result.cpu>>
            = <<written.kind, written.level, written.cpu>>
       /\ written.formatted => IsPrefix(result.content, written.content)
=============================================================================
