---------------------------- MODULE RingBufProofs ----------------------------
(***************************************************************************)
(* Proofs of the safety properties of RingBuf, for every number of         *)
(* programs, every capacity of the ring and of the channel and every width *)
(* of the counter.                                                         *)
(***************************************************************************)
EXTENDS RingBuf, SequenceTheorems, TLAPS

(* The parts of the inductive invariant, besides TypeOK.                   *)

(* The bit that libbpf tests before it calls back is set once the fields   *)
(* are written.                                                            *)
SubmittedIsWritten ==
  \A i \in DOMAIN ring : ring[i].owner = Submitted => ring[i].rec \in Records

(* The slot the callback works on stays at the head of the ring until its  *)
(* consumer position is advanced.                                          *)
HeadIsHeld == reader \in {"count", "halt", "release"} => HeadReady

(* Without a handle there is no reader and nothing to receive.             *)
NoHandleNoReader ==
  handle \in {"unbuilt", "rejected"} =>
    reader = "none" /\ chan = <<>> /\ ~stop /\ ~ended

(* What the owner may rely on while the handle is open.                    *)
OpenHandle == handle = "open" => ~stop /\ reader \notin {"exited", "halt"}

DroppedHandle == handle = "dropped" => ReaderStopped

Inv ==
  /\ TypeOK
  /\ SubmittedIsWritten
  /\ NoTornRecord
  /\ HeadIsHeld
  /\ NoHandleNoReader
  /\ OpenHandle
  /\ DroppedHandle
  /\ NoneIsFinal

-----------------------------------------------------------------------------
(* Replacing the elements of a sequence one by one gives a sequence.       *)
LEMMA PointwiseSeq ==
  ASSUME NEW S, NEW s \in Seq(S), NEW T, NEW t \in [DOMAIN s -> T]
  PROVE  /\ t \in Seq(T)
         /\ Len(t) = Len(s)
         /\ DOMAIN t = DOMAIN s
<1>1. Len(s) \in Nat /\ DOMAIN s = 1 .. Len(s)
  BY LenProperties
<1>2. t \in [1 .. Len(s) -> T]
  BY <1>1
<1>3. t \in Seq(T)
  BY <1>1, <1>2, SeqDef
<1>4. DOMAIN t = 1 .. Len(s) /\ DOMAIN t = 1 .. Len(t) /\ Len(t) \in Nat
  BY <1>2, <1>3, LenProperties
<1>5. Len(t) = Len(s)
  BY <1>1, <1>4
<1> QED
  BY <1>1, <1>3, <1>4, <1>5

(* What bpf_ringbuf_submit does to the ring.                               *)
LEMMA SubmitSlots ==
  ASSUME NEW p \in Producers, NEW r \in Records, ring \in Seq(Slot), Submit(p, r)
  PROVE  /\ ring' \in Seq(Slot)
         /\ Len(ring') = Len(ring)
         /\ DOMAIN ring' = DOMAIN ring
         /\ \A i \in DOMAIN ring :
              ring'[i] = IF ring[i].owner = p
                         THEN [rec |-> r, owner |-> Submitted] ELSE ring[i]
<1>1. \A i \in DOMAIN ring : ring[i] \in Slot
  BY LenProperties
<1>2. [rec |-> r, owner |-> Submitted] \in Slot
  BY DEF Slot
<1>3. ring' \in [DOMAIN ring -> Slot]
  BY <1>1, <1>2 DEF Submit
<1>4. ring' \in Seq(Slot) /\ Len(ring') = Len(ring) /\ DOMAIN ring' = DOMAIN ring
  BY <1>3, PointwiseSeq
<1> QED
  BY <1>4 DEF Submit

(* What bpf_ringbuf_reserve does to the ring.                              *)
LEMMA ReserveSlots ==
  ASSUME NEW p \in Producers, ring \in Seq(Slot), Reserve(p)
  PROVE  /\ ring' \in Seq(Slot)
         /\ Len(ring') \in {Len(ring), Len(ring) + 1}
         /\ Len(ring') > Len(ring) => RingHasSpace
         /\ \A i \in 1 .. Len(ring) : ring'[i] = ring[i]
         /\ \A i \in DOMAIN ring' :
              i \in DOMAIN ring \/ ring'[i].owner = p
<1> DEFINE slot == [rec |-> Stale, owner |-> p]
<1>1. slot \in Slot
  BY DEF Slot
<1>2. CASE RingHasSpace
  <2>1. ring' = Append(ring, slot)
    BY <1>2 DEF Reserve
  <2> HIDE DEF slot
  <2>2. /\ ring' \in Seq(Slot)
        /\ Len(ring') = Len(ring) + 1
        /\ \A i \in 1 .. Len(ring) : ring'[i] = ring[i]
        /\ ring'[Len(ring) + 1] = slot
    BY <1>1, <2>1, AppendProperties
  <2>3. slot.owner = p
    BY DEF slot
  <2>4. DOMAIN ring' = 1 .. Len(ring) + 1 /\ DOMAIN ring = 1 .. Len(ring) /\ Len(ring) \in Nat
    BY <2>2, LenProperties
  <2> QED
    BY <1>2, <2>2, <2>3, <2>4
<1>3. CASE ~RingHasSpace
  <2>1. ring' = ring
    BY <1>3 DEF Reserve
  <2> QED
    BY <2>1, LenProperties
<1> QED
  BY <1>2, <1>3

(* What advancing the consumer position does to the ring.                  *)
LEMMA ReleaseSlots ==
  ASSUME ring \in Seq(Slot), ring # <<>>, Release
  PROVE  /\ ring' \in Seq(Slot)
         /\ Len(ring') = Len(ring) - 1
         /\ DOMAIN ring' = 1 .. Len(ring')
         /\ \A i \in DOMAIN ring' : i + 1 \in DOMAIN ring /\ ring'[i] = ring[i + 1]
<1>1. ring' = Tail(ring)
  BY DEF Release
<1>2. /\ ring' \in Seq(Slot)
      /\ Len(ring') = Len(ring) - 1
      /\ \A i \in 1 .. Len(ring') : ring'[i] = ring[i + 1]
  BY <1>1, HeadTailProperties
<1>3. Len(ring) \in Nat /\ DOMAIN ring = 1 .. Len(ring) /\ DOMAIN ring' = 1 .. Len(ring')
  BY <1>2, LenProperties
<1> QED
  BY <1>2, <1>3

-----------------------------------------------------------------------------
LEMMA InitInv == Init => Inv
<1> SUFFICES ASSUME Init PROVE Inv
  OBVIOUS
<1>1. TypeOK
  <2>1. <<>> \in Seq(Slot) /\ <<>> \in Seq(Records \cup {Stale}) /\ Len(<<>>) = 0
    BY EmptySeq
  <2>2. 0 <= RingCapacity /\ 0 \in 0 .. DroppedModulus - 1
    BY RingBufAssumption
  <2> QED
    <3>1. ring \in Seq(Slot) /\ Len(ring) <= RingCapacity
      BY <2>1, <2>2 DEF Init
    <3>2. capacity \in Capacities \cup {0} /\ chan \in Seq(Records \cup {Stale}) /\ Len(chan) <= capacity
      BY <2>1, <2>2 DEF Init
    <3>3. handle \in HandleStates /\ reader \in ReaderStates
      BY DEF Init, HandleStates, ReaderStates
    <3> QED
      BY <2>2, <3>1, <3>2, <3>3 DEF Init, TypeOK
<1>2. SubmittedIsWritten /\ NoTornRecord /\ HeadIsHeld
  BY DEF Init, SubmittedIsWritten, NoTornRecord, HeadIsHeld
<1>3. NoHandleNoReader /\ OpenHandle /\ DroppedHandle /\ NoneIsFinal
  BY DEF Init, NoHandleNoReader, OpenHandle, DroppedHandle, NoneIsFinal
<1> QED
  BY <1>1, <1>2, <1>3 DEF Inv

(* The steps of the eBPF programs only touch the ring, and leave the slot  *)
(* at its head alone once it is submitted.                                 *)
LEMMA ProgramStepInv ==
  ASSUME Inv,
         \/ \E p \in Producers : Reserve(p)
         \/ \E p \in Producers, r \in Records : Submit(p, r)
  PROVE  Inv'
<1> USE DEF Inv
<1>1. ring \in Seq(Slot) /\ Len(ring) \in Nat /\ DOMAIN ring = 1 .. Len(ring)
  BY LenProperties DEF TypeOK
<1>2. UNCHANGED <<ownerVars, sharedVars, reader>>
  BY DEF Reserve, Submit
<1> DEFINE RingKept == /\ ring' \in Seq(Slot) /\ Len(ring') <= RingCapacity
                       /\ SubmittedIsWritten'
                       /\ HeadReady => HeadReady'
<1>3. RingKept
  <2>1. ASSUME NEW p \in Producers, Reserve(p)
        PROVE  RingKept
    <3>1. /\ ring' \in Seq(Slot)
          /\ Len(ring') \in {Len(ring), Len(ring) + 1}
          /\ Len(ring') > Len(ring) => RingHasSpace
          /\ \A i \in 1 .. Len(ring) : ring'[i] = ring[i]
          /\ \A i \in DOMAIN ring' : i \in DOMAIN ring \/ ring'[i].owner = p
      BY <1>1, <2>1, ReserveSlots
    <3>2. Len(ring') <= RingCapacity
      BY <1>1, <3>1, RingBufAssumption DEF RingHasSpace, TypeOK
    <3>3. SubmittedIsWritten'
      BY <1>1, <3>1, RingBufAssumption DEF SubmittedIsWritten
    <3>4. HeadReady => HeadReady'
      <4> SUFFICES ASSUME HeadReady PROVE HeadReady'
        OBVIOUS
      <4>1. Len(ring) >= 1 /\ ring[1].owner = Submitted
        BY <1>1, EmptySeq DEF HeadReady
      <4>2. Len(ring') >= 1 /\ ring'[1] = ring[1]
        BY <1>1, <3>1, <4>1
      <4> QED
        BY <4>1, <4>2, <3>1, EmptySeq DEF HeadReady
    <3> QED
      BY <3>1, <3>2, <3>3, <3>4
  <2>2. ASSUME NEW p \in Producers, NEW r \in Records, Submit(p, r)
        PROVE  RingKept
    <3>1. /\ ring' \in Seq(Slot)
          /\ Len(ring') = Len(ring)
          /\ DOMAIN ring' = DOMAIN ring
          /\ \A i \in DOMAIN ring :
               ring'[i] = IF ring[i].owner = p
                          THEN [rec |-> r, owner |-> Submitted] ELSE ring[i]
      BY <1>1, <2>2, SubmitSlots
    <3>2. SubmittedIsWritten'
      BY <3>1 DEF SubmittedIsWritten
    <3>3. HeadReady => HeadReady'
      BY <1>1, <3>1, EmptySeq DEF HeadReady
    <3> QED
      BY <3>1, <3>2, <3>3 DEF TypeOK
  <2> QED
    BY <2>1, <2>2
<1>4. TypeOK'
  BY <1>2, <1>3 DEF TypeOK, ownerVars, sharedVars
<1>5. HeadIsHeld'
  BY <1>2, <1>3 DEF HeadIsHeld
<1>6. /\ NoTornRecord' /\ NoHandleNoReader' /\ OpenHandle'
      /\ DroppedHandle' /\ NoneIsFinal'
  BY <1>2 DEF NoTornRecord, NoHandleNoReader, OpenHandle, DroppedHandle,
              NoneIsFinal, ReaderStopped, ownerVars, sharedVars
<1> QED
  BY <1>3, <1>4, <1>5, <1>6

(* The steps of the owner leave the ring alone.                            *)
LEMMA OwnerStepInv ==
  ASSUME Inv,
         \/ NewRejected
         \/ \E isRingBuf \in BOOLEAN, cap \in Capacities : NewOpen(isRingBuf, cap)
         \/ Recv \/ RecvNone \/ DropStop \/ FinishDrop
  PROVE  Inv'
<1> USE DEF Inv
<1>1. ring' = ring /\ SubmittedIsWritten' /\ dropped' = dropped
  BY DEF NewRejected, NewOpen, Recv, RecvNone, DropStop, FinishDrop, DropClose,
         DropJoin, SubmittedIsWritten, kernelVars, ownerVars, sharedVars
<1>2. CASE NewRejected
  BY <1>1, <1>2 DEF NewRejected, TypeOK, HandleStates, NoTornRecord, HeadIsHeld, HeadReady,
     NoHandleNoReader, OpenHandle, DroppedHandle, NoneIsFinal, ReaderStopped,
     kernelVars, sharedVars
<1>3. ASSUME NEW isRingBuf \in BOOLEAN, NEW cap \in Capacities,
             NewOpen(isRingBuf, cap)
      PROVE  Inv'
  <2>1. chan = <<>> /\ ~ended /\ chan' = chan /\ Len(chan) = 0
    BY <1>3, EmptySeq DEF NewOpen, NoHandleNoReader, sharedVars
  <2>2. TypeOK'
    BY <1>1, <1>3, <2>1, RingBufAssumption
       DEF NewOpen, TypeOK, HandleStates, ReaderStates, sharedVars
  <2>3. OpenHandle'
    BY <1>3 DEF NewOpen, OpenHandle, NoHandleNoReader, sharedVars
  <2> QED
    BY <1>1, <1>3, <2>1, <2>2, <2>3 DEF NewOpen, NoTornRecord, HeadIsHeld,
       NoHandleNoReader, DroppedHandle, NoneIsFinal, sharedVars
<1>4. CASE Recv
  <2>1. /\ chan' \in Seq(Records \cup {Stale})
        /\ Len(chan') <= capacity
        /\ NoTornRecord'
    <3>1. chan \in Seq(Records \cup {Stale}) /\ chan # <<>> /\ chan' = Tail(chan)
      BY <1>4 DEF Recv, TypeOK
    <3>2. /\ chan' \in Seq(Records \cup {Stale})
          /\ Len(chan') = Len(chan) - 1
          /\ \A i \in 1 .. Len(chan') : chan'[i] = chan[i + 1]
      BY <3>1, HeadTailProperties
    <3>3. Len(chan) \in Nat /\ DOMAIN chan = 1 .. Len(chan) /\ DOMAIN chan' = 1 .. Len(chan')
      BY <3>1, <3>2, LenProperties
    <3>4. Len(chan) <= capacity /\ capacity \in Nat
      BY RingBufAssumption DEF TypeOK
    <3> QED
      BY <3>2, <3>3, <3>4 DEF NoTornRecord
  <2>2. ~ended
    BY <1>4 DEF Recv, NoneIsFinal
  <2> QED
    BY <1>1, <1>4, <2>1, <2>2 DEF Recv, TypeOK, HeadIsHeld, HeadReady,
       NoHandleNoReader, OpenHandle, DroppedHandle, NoneIsFinal, ReaderStopped,
       kernelVars, ownerVars
<1>5. CASE RecvNone
  BY <1>1, <1>5 DEF RecvNone, TypeOK, NoTornRecord, HeadIsHeld, HeadReady,
     NoHandleNoReader, OpenHandle, DroppedHandle, NoneIsFinal, ReaderStopped,
     kernelVars, sharedVars
<1>6. CASE DropStop
  BY <1>1, <1>6 DEF DropStop, TypeOK, HandleStates, NoTornRecord, HeadIsHeld,
     HeadReady, NoHandleNoReader, OpenHandle, DroppedHandle, NoneIsFinal,
     ReaderStopped, kernelVars
<1>7. CASE DropClose
  BY <1>1, <1>7 DEF DropClose, TypeOK, HandleStates, NoTornRecord, HeadIsHeld,
     HeadReady, NoHandleNoReader, OpenHandle, DroppedHandle, NoneIsFinal,
     ReaderStopped, kernelVars, sharedVars
<1>8. CASE DropJoin
  <2>1. chan' = <<>> /\ Len(chan') = 0 /\ DOMAIN chan' = {}
    BY <1>8, EmptySeq DEF DropJoin
  <2>2. TypeOK'
    BY <1>1, <1>8, <2>1, EmptySeq, RingBufAssumption DEF DropJoin, TypeOK, HandleStates
  <2> QED
    BY <1>1, <1>8, <2>1, <2>2 DEF DropJoin, NoTornRecord, HeadIsHeld,
       HeadReady, NoHandleNoReader, OpenHandle, DroppedHandle, NoneIsFinal,
       ReaderStopped, kernelVars
<1> QED
  BY <1>2, <1>3, <1>4, <1>5, <1>6, <1>7, <1>8 DEF FinishDrop

(* The steps of the reader thread.                                         *)
LEMMA ReaderStepInv ==
  ASSUME Inv, ReaderStep
  PROVE  Inv'
<1> USE DEF Inv
<1>1. reader \notin {"none", "exited", "failed"} /\ reader' \in ReaderStates \ {"none"}
  BY DEF ReaderStep, StartReader, CheckStop, Poll, DrainDone, SendOk, SendFull,
         SendClosed, CountDropped, Halt, Release, ReaderGoes, ReaderStates
<1>2. /\ UNCHANGED ownerVars
      /\ ~ended /\ handle \notin {"unbuilt", "rejected", "dropped"}
  BY <1>1 DEF ReaderStep, StartReader, CheckStop, Poll, DrainDone, SendOk, SendFull,
     SendClosed, CountDropped, Halt, Release, NoHandleNoReader, DroppedHandle,
     NoneIsFinal, ReaderStopped, ownerVars
<1>3. NoHandleNoReader' /\ DroppedHandle' /\ NoneIsFinal'
  BY <1>2 DEF NoHandleNoReader, DroppedHandle, NoneIsFinal, ownerVars
<1>4. OpenHandle'
  BY <1>2 DEF ReaderStep, StartReader, CheckStop, Poll, DrainDone, SendOk, SendFull,
     SendClosed, CountDropped, Halt, Release, ReaderGoes, OpenHandle, RxClosed,
     ownerVars, sharedVars
<1>5. CASE StartReader \/ CheckStop \/ Poll \/ DrainDone \/ SendFull \/ SendClosed
  <2>1. UNCHANGED <<kernelVars, sharedVars>>
    BY <1>5 DEF StartReader, CheckStop, Poll, DrainDone, SendFull, SendClosed
  <2>2. HeadIsHeld'
    BY <1>5, <2>1 DEF StartReader, CheckStop, Poll, DrainDone, SendFull, SendClosed,
       ReaderGoes, HeadIsHeld, HeadReady, kernelVars
  <2> QED
    BY <1>1, <1>2, <1>3, <1>4, <2>1, <2>2 DEF TypeOK, SubmittedIsWritten, NoTornRecord,
       kernelVars, ownerVars, sharedVars
<1>6. CASE SendOk
  <2> DEFINE rec == ring[1].rec
  <2>1. ring \in Seq(Slot) /\ ring # <<>>
    BY <1>6 DEF SendOk, HeadReady, TypeOK
  <2>2. 1 \in DOMAIN ring
    BY <2>1, EmptySeq, LenProperties
  <2>3. rec \in Records /\ rec # Stale
    BY <1>6, <2>2, RingBufAssumption DEF SendOk, HeadReady, SubmittedIsWritten
  <2>4. chan' = Append(chan, rec) /\ chan \in Seq(Records \cup {Stale})
    BY <1>6 DEF SendOk, TypeOK
  <2> HIDE DEF rec
  <2>5. /\ chan' \in Seq(Records \cup {Stale})
        /\ Len(chan') = Len(chan) + 1
        /\ \A i \in 1 .. Len(chan) : chan'[i] = chan[i]
        /\ chan'[Len(chan) + 1] = rec
    BY <2>3, <2>4, AppendProperties
  <2>6. Len(chan) \in Nat /\ DOMAIN chan = 1 .. Len(chan) /\ DOMAIN chan' = 1 .. Len(chan) + 1
    BY <2>4, <2>5, LenProperties
  <2>7. Len(chan') <= capacity
    BY <1>6, <2>5, <2>6, RingBufAssumption DEF SendOk, ChannelFull, TypeOK
  <2>8. NoTornRecord'
    BY <2>3, <2>5, <2>6 DEF NoTornRecord
  <2>9. HeadIsHeld'
    BY <1>6 DEF SendOk, HeadIsHeld, HeadReady, kernelVars
  <2> QED
    BY <1>1, <1>2, <1>3, <1>4, <1>6, <2>5, <2>7, <2>8, <2>9 DEF SendOk, TypeOK,
       SubmittedIsWritten, kernelVars, ownerVars
<1>7. CASE CountDropped
  <2>1. dropped' \in 0 .. DroppedModulus - 1
    BY <1>7, RingBufAssumption DEF CountDropped, TypeOK
  <2>2. HeadIsHeld'
    BY <1>7 DEF CountDropped, ReaderGoes, HeadIsHeld, HeadReady, kernelVars
  <2> QED
    BY <1>1, <1>2, <1>3, <1>4, <1>7, <2>1, <2>2 DEF CountDropped, TypeOK,
       SubmittedIsWritten, NoTornRecord, kernelVars, ownerVars
<1>8. CASE Halt
  <2>1. HeadIsHeld'
    BY <1>8 DEF Halt, ReaderGoes, HeadIsHeld, HeadReady, kernelVars
  <2> QED
    BY <1>1, <1>2, <1>3, <1>4, <1>8, <2>1 DEF Halt, TypeOK,
       SubmittedIsWritten, NoTornRecord, kernelVars, ownerVars
<1>9. CASE Release
  <2>1. ring \in Seq(Slot) /\ ring # <<>> /\ Len(ring) \in Nat
    BY <1>9, LenProperties DEF Release, ReaderGoes, HeadIsHeld, HeadReady, TypeOK
  <2>2. /\ ring' \in Seq(Slot)
        /\ Len(ring') = Len(ring) - 1
        /\ \A i \in DOMAIN ring' : i + 1 \in DOMAIN ring /\ ring'[i] = ring[i + 1]
    BY <1>9, <2>1, ReleaseSlots
  <2>3. Len(ring') <= RingCapacity
    BY <2>1, <2>2, RingBufAssumption DEF TypeOK
  <2>4. SubmittedIsWritten'
    BY <2>2 DEF SubmittedIsWritten
  <2>5. HeadIsHeld'
    BY <1>9 DEF Release, ReaderGoes, HeadIsHeld
  <2> QED
    BY <1>1, <1>2, <1>3, <1>4, <1>9, <2>2, <2>3, <2>4, <2>5 DEF Release, TypeOK,
       NoTornRecord, ownerVars, sharedVars
<1> QED
  BY <1>5, <1>6, <1>7, <1>8, <1>9 DEF ReaderStep

LEMMA StutterInv ==
  ASSUME Inv, UNCHANGED vars
  PROVE  Inv'
BY DEF vars, Inv, TypeOK, SubmittedIsWritten, NoTornRecord, HeadIsHeld, HeadReady,
   NoHandleNoReader, OpenHandle, DroppedHandle, NoneIsFinal, ReaderStopped

LEMMA NextInv ==
  ASSUME Inv, [Next]_vars
  PROVE  Inv'
<1>1. CASE \/ \E p \in Producers : Reserve(p)
           \/ \E p \in Producers, r \in Records : Submit(p, r)
  BY <1>1, ProgramStepInv
<1>2. CASE \/ NewRejected
           \/ \E isRingBuf \in BOOLEAN, cap \in Capacities : NewOpen(isRingBuf, cap)
           \/ Recv \/ RecvNone \/ DropStop \/ FinishDrop
  BY <1>2, OwnerStepInv
<1>3. CASE ReaderStep
  BY <1>3, ReaderStepInv
<1>4. CASE UNCHANGED vars
  BY <1>4, StutterInv
<1> QED
  BY <1>1, <1>2, <1>3, <1>4 DEF Next

(* The inductive invariant holds in every reachable state of RingBuf.      *)
THEOREM Invariance == Spec => []Inv
<1>1. Init => Inv
  BY InitInv
<1>2. Inv /\ [Next]_vars => Inv'
  BY NextInv
<1> QED
  BY <1>1, <1>2, PTL DEF Spec

(* The ring and the channel never exceed their capacity and the counter    *)
(* never exceeds the width of the atomic, whatever the three parties do.   *)
THEOREM TypeCorrect == Spec => []TypeOK
<1>1. Inv => TypeOK
  BY DEF Inv
<1> QED
  BY <1>1, Invariance, PTL

(* No half-written slot ever reaches the channel, for every number of      *)
(* programs that are between reserve and submit.                           *)
THEOREM OnlySubmittedRecords == Spec => []NoTornRecord
<1>1. Inv => NoTornRecord
  BY DEF Inv
<1> QED
  BY <1>1, Invariance, PTL

(* Nothing but Drop stops the reader of an open handle.                    *)
THEOREM OpenMeansReading == Spec => []OpenReaderKeepsRunning
<1>1. Inv => OpenReaderKeepsRunning
  BY DEF Inv, OpenHandle, OpenReaderKeepsRunning
<1> QED
  BY <1>1, Invariance, PTL

(* Once a receive has returned None, nothing can arrive any more.          *)
THEOREM NoneMeansEnd == Spec => []NoneIsFinal
<1>1. Inv => NoneIsFinal
  BY DEF Inv
<1> QED
  BY <1>1, Invariance, PTL

(* Once Drop has returned, the reader is gone and takes nothing from the   *)
(* ring any more.                                                          *)
THEOREM DropIsQuiet == Spec => NothingConsumedAfterDrop
<1> DEFINE Quiet == handle = "dropped" => reader' = reader /\ Len(ring') >= Len(ring)
<1>1. ASSUME Inv, [Next]_vars
      PROVE  [Quiet]_vars
  <2> SUFFICES ASSUME handle = "dropped"
               PROVE  reader' = reader /\ Len(ring') >= Len(ring)
    OBVIOUS
  <2>1. ring \in Seq(Slot) /\ Len(ring) \in Nat /\ reader \in {"exited", "failed"}
    BY <1>1, LenProperties DEF Inv, TypeOK, DroppedHandle, ReaderStopped
  <2>2. ASSUME NEW p \in Producers, Reserve(p)
        PROVE  reader' = reader /\ Len(ring') >= Len(ring)
    <3>1. Len(ring') \in {Len(ring), Len(ring) + 1}
      BY <2>1, <2>2, ReserveSlots
    <3>2. reader' = reader
      BY <2>2 DEF Reserve
    <3> QED
      BY <2>1, <3>1, <3>2
  <2>3. ASSUME NEW p \in Producers, NEW r \in Records, Submit(p, r)
        PROVE  reader' = reader /\ Len(ring') >= Len(ring)
    <3>1. Len(ring') = Len(ring)
      BY <2>1, <2>3, SubmitSlots
    <3>2. reader' = reader
      BY <2>3 DEF Submit
    <3> QED
      BY <2>1, <3>1, <3>2
  <2>4. ~ReaderStep
    BY <2>1 DEF ReaderStep, StartReader, CheckStop, Poll, DrainDone, SendOk, SendFull,
       SendClosed, CountDropped, Halt, Release, ReaderGoes
  <2>5. /\ ~NewRejected /\ ~Recv /\ ~RecvNone /\ ~DropStop /\ ~FinishDrop
        /\ \A isRingBuf \in BOOLEAN, cap \in Capacities : ~NewOpen(isRingBuf, cap)
    BY DEF NewRejected, NewOpen, Recv, RecvNone, DropStop, FinishDrop, DropClose, DropJoin
  <2>6. CASE UNCHANGED vars
    BY <2>1, <2>6 DEF vars
  <2> QED
    BY <1>1, <2>2, <2>3, <2>4, <2>5, <2>6 DEF Next
<1>2. Inv /\ [Next]_vars => [Quiet]_vars
  BY <1>1
<1>3. Spec => [][Quiet]_vars
  BY <1>2, Invariance, PTL DEF Spec
<1> QED
  BY <1>3 DEF NothingConsumedAfterDrop
=============================================================================
