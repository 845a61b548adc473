------------------------------- MODULE RingBuf -------------------------------
(***************************************************************************)
(* xbpf/src/collections/ring_buf.rs: RingBuf<V> and its reader thread,     *)
(* together with what xbpf/include/xbpf.h does at the other end of the     *)
(* kernel ring buffer.                                                     *)
(*                                                                         *)
(* Three parties run concurrently.  eBPF programs reserve a slot, fill it  *)
(* and submit it.  The reader thread polls the ring and copies every       *)
(* submitted record into a bounded tokio channel.  The owner of the        *)
(* RingBuf receives from the channel and eventually drops the handle.      *)
(*                                                                         *)
(* The kernel ring, libbpf's ring_buffer__poll and the tokio channel are   *)
(* external: each is modelled by the atomic steps its callers can tell     *)
(* apart.  The ring is counted in records, not in bytes.                   *)
(***************************************************************************)
EXTENDS Integers, Sequences

CONSTANTS
  Producers,       \* eBPF program runs that may be between reserve and submit
  Records,         \* contents a record may be given
  Stale,           \* what a reserved slot holds before it is filled
  Submitted,       \* owner of a slot that has been submitted
  RingCapacity,    \* BPF_TRACING_RING_BUF_SIZE, in records
  Capacities,      \* values of userspace_capacity a caller may pass
  DroppedModulus   \* dropped is an AtomicU64: 2^64 in the program

ASSUME RingBufAssumption ==
  /\ Stale \notin Records
  /\ Submitted \notin Producers
  /\ RingCapacity \in Nat \ {0}
  /\ Capacities \subseteq Nat
  /\ DroppedModulus \in Nat \ {0, 1}

VARIABLES
  ring,       \* slots between the consumer and the producer position, oldest first
  handle,     \* where the owner is in the life of the RingBuf
  capacity,   \* userspace_capacity of the channel
  chan,       \* records buffered in the channel
  dropped,    \* RingBuf::dropped
  stop,       \* RingBuf::stop
  reader,     \* where the reader thread is in read()
  ended       \* has a receive returned None because the channel is disconnected?

kernelVars == <<ring>>
ownerVars  == <<handle, capacity, ended>>
sharedVars == <<chan, dropped, stop>>
vars       == <<ring, handle, capacity, chan, dropped, stop, reader, ended>>

HandleStates == {"unbuilt", "rejected", "open", "stopping", "joining", "dropped"}

ReaderStates == {"none", "starting", "check", "poll", "drain", "count", "halt",
                 "release", "exited", "failed"}

(* The thread function has returned, so the sender and the map are gone.   *)
ReaderStopped == reader \in {"exited", "failed"}

Slot == [rec : Records \cup {Stale}, owner : Producers \cup {Submitted}]

Init ==
  /\ ring = <<>>
  /\ handle = "unbuilt"
  /\ capacity = 0
  /\ chan = <<>>
  /\ dropped = 0
  /\ stop = FALSE
  /\ reader = "none"
  /\ ended = FALSE

-----------------------------------------------------------------------------
(***************************************************************************)
(* eBPF programs: BPF_TRACING_EMIT_EVENT.                                  *)
(***************************************************************************)

Writing(p) == \E i \in DOMAIN ring : ring[i].owner = p

RingHasSpace == Len(ring) < RingCapacity

(* bpf_ringbuf_reserve, which fails when the ring is full: the event is    *)
(* then given up, since the program has nowhere to block.                  *)
Reserve(p) ==
  /\ ~Writing(p)
  /\ ring' = IF RingHasSpace
             THEN Append(ring, [rec |-> Stale, owner |-> p])
             ELSE ring
  /\ UNCHANGED <<ownerVars, sharedVars, reader>>

(* The fields are written and bpf_ringbuf_submit publishes the slot.       *)
Submit(p, r) ==
  /\ Writing(p)
  /\ ring' = [i \in DOMAIN ring |->
                IF ring[i].owner = p THEN [rec |-> r, owner |-> Submitted]
                                     ELSE ring[i]]
  /\ UNCHANGED <<ownerVars, sharedVars, reader>>

-----------------------------------------------------------------------------
(***************************************************************************)
(* The owner: RingBuf::new, the receive functions and Drop.                *)
(***************************************************************************)

(* new() rejects a map of another type, a zero capacity and a thread that  *)
(* cannot be spawned; otherwise it returns while the thread starts.        *)
NewRejected ==
  /\ handle = "unbuilt"
  /\ handle' = "rejected"
  /\ UNCHANGED <<kernelVars, sharedVars, capacity, reader, ended>>

NewOpen(isRingBuf, cap) ==
  /\ handle = "unbuilt"
  /\ isRingBuf /\ cap # 0
  /\ handle' = "open"
  /\ capacity' = cap
  /\ reader' = "starting"
  /\ UNCHANGED <<kernelVars, sharedVars, ended>>

(* recv, blocking_recv and try_recv take the oldest buffered record.       *)
Recv ==
  /\ handle = "open"
  /\ chan # <<>>
  /\ chan' = Tail(chan)
  /\ UNCHANGED <<kernelVars, ownerVars, dropped, stop, reader>>

(* A faulty receive that takes an empty channel for a disconnected one.    *)
RecvNoneWhenEmpty ==
  /\ handle = "open"
  /\ chan = <<>>
  /\ ended' = TRUE
  /\ UNCHANGED <<kernelVars, sharedVars, handle, capacity, reader>>

(* recv and blocking_recv return None: nothing is buffered and the reader, *)
(* which owned the only sender, has returned.                              *)
RecvNone ==
  /\ handle = "open"
  /\ chan = <<>>
  /\ ReaderStopped
  /\ ended' = TRUE
  /\ UNCHANGED <<kernelVars, sharedVars, handle, capacity, reader>>

(* Drop: stop.store, then rx.close, then join.  The channel goes with the  *)
(* fields of the handle, after the join.                                   *)
DropStop ==
  /\ handle = "open"
  /\ handle' = "stopping"
  /\ stop' = TRUE
  /\ UNCHANGED <<kernelVars, capacity, chan, dropped, reader, ended>>

DropClose ==
  /\ handle = "stopping"
  /\ handle' = "joining"
  /\ UNCHANGED <<kernelVars, sharedVars, capacity, reader, ended>>

(* A faulty Drop that forgets to join the reader.                          *)
DropWithoutJoin ==
  /\ handle = "joining"
  /\ handle' = "dropped"
  /\ chan' = <<>>
  /\ UNCHANGED <<kernelVars, capacity, dropped, stop, reader, ended>>

DropJoin ==
  /\ handle = "joining"
  /\ ReaderStopped
  /\ handle' = "dropped"
  /\ chan' = <<>>
  /\ UNCHANGED <<kernelVars, capacity, dropped, stop, reader, ended>>

RxClosed == handle \in {"joining", "dropped"}

-----------------------------------------------------------------------------
(***************************************************************************)
(* The reader thread: read() and the callback it gives to libbpf.          *)
(***************************************************************************)

ReaderGoes(from, to) ==
  /\ reader = from
  /\ reader' = to

(* builder.add and builder.build: an error makes the thread return.        *)
StartReader ==
  /\ \/ ReaderGoes("starting", "check")
     \/ ReaderGoes("starting", "failed")
  /\ UNCHANGED <<kernelVars, ownerVars, sharedVars>>

(* A faulty loop condition that never looks at the flag again.             *)
LoopForever ==
  /\ ReaderGoes("check", "poll")
  /\ UNCHANGED <<kernelVars, ownerVars, sharedVars>>

(* while !stop.load(Relaxed)                                               *)
CheckStop ==
  /\ IF stop THEN ReaderGoes("check", "exited") ELSE ReaderGoes("check", "poll")
  /\ UNCHANGED <<kernelVars, ownerVars, sharedVars>>

(* ring_buf.poll: epoll_wait reports a ring that holds slots, submitted or *)
(* not, and otherwise times out after POLL_TIMEOUT.                        *)
Poll ==
  /\ IF ring = <<>> THEN ReaderGoes("poll", "check") ELSE ReaderGoes("poll", "drain")
  /\ UNCHANGED <<kernelVars, ownerVars, sharedVars>>

(* A faulty libbpf caller that would not look at the busy bit.             *)
HeadExists == ring # <<>>

HeadReady == ring # <<>> /\ ring[1].owner = Submitted

(* libbpf calls back for one record after another and only leaves poll     *)
(* when the ring is empty or its oldest slot is not submitted yet.         *)
DrainDone ==
  /\ ~HeadReady
  /\ ReaderGoes("drain", "check")
  /\ UNCHANGED <<kernelVars, ownerVars, sharedVars>>

(* A faulty channel without a bound.                                       *)
ChannelNeverFull == FALSE

ChannelFull == Len(chan) >= capacity

(* A faulty channel that hands out the newest record first.                *)
SendToFront ==
  /\ HeadReady
  /\ ~RxClosed /\ ~ChannelFull
  /\ ReaderGoes("drain", "release")
  /\ chan' = <<ring[1].rec>> \o chan
  /\ UNCHANGED <<kernelVars, ownerVars, dropped, stop>>

(* tx.try_send returned Ok                                                 *)
SendOk ==
  /\ HeadReady
  /\ ~RxClosed /\ ~ChannelFull
  /\ ReaderGoes("drain", "release")
  /\ chan' = Append(chan, ring[1].rec)
  /\ UNCHANGED <<kernelVars, ownerVars, dropped, stop>>

(* A faulty callback that waits for room instead of dropping the record.   *)
BlockWhileFull ==
  /\ FALSE
  /\ UNCHANGED vars

(* A faulty callback that loses the record without counting it.            *)
LoseUncounted ==
  /\ HeadReady
  /\ ~RxClosed /\ ChannelFull
  /\ ReaderGoes("drain", "release")
  /\ UNCHANGED <<kernelVars, ownerVars, sharedVars>>

(* A faulty channel that overwrites its oldest record, as a lagging        *)
(* broadcast channel does.                                                 *)
OverwriteOldest ==
  /\ HeadReady
  /\ ~RxClosed /\ ChannelFull
  /\ ReaderGoes("drain", "release")
  /\ chan' = Append(Tail(chan), ring[1].rec)
  /\ UNCHANGED <<kernelVars, ownerVars, dropped, stop>>

(* A faulty callback that treats a full channel like a closed one.         *)
StopWhenFull ==
  /\ HeadReady
  /\ ~RxClosed /\ ChannelFull
  /\ ReaderGoes("drain", "halt")
  /\ UNCHANGED <<kernelVars, ownerVars, sharedVars>>

(* tx.try_send returned TrySendError::Full                                 *)
SendFull ==
  /\ HeadReady
  /\ ~RxClosed /\ ChannelFull
  /\ ReaderGoes("drain", "count")
  /\ UNCHANGED <<kernelVars, ownerVars, sharedVars>>

(* tx.try_send returned TrySendError::Closed                               *)
SendClosed ==
  /\ HeadReady
  /\ RxClosed
  /\ ReaderGoes("drain", "halt")
  /\ UNCHANGED <<kernelVars, ownerVars, sharedVars>>

(* A faulty counter that saturates instead of wrapping.                    *)
CountSaturating ==
  /\ ReaderGoes("count", "release")
  /\ dropped' = IF dropped + 1 < DroppedModulus THEN dropped + 1 ELSE dropped
  /\ UNCHANGED <<kernelVars, ownerVars, chan, stop>>

(* dropped.fetch_add(1, Relaxed), which wraps.                             *)
CountDropped ==
  /\ ReaderGoes("count", "release")
  /\ dropped' = (dropped + 1) % DroppedModulus
  /\ UNCHANGED <<kernelVars, ownerVars, chan, stop>>

(* stop.store(true, Relaxed)                                               *)
Halt ==
  /\ ReaderGoes("halt", "release")
  /\ stop' = TRUE
  /\ UNCHANGED <<kernelVars, ownerVars, chan, dropped>>

(* The callback returned 0: libbpf advances the consumer position, which   *)
(* is what gives the slot back to the programs.                            *)
Release ==
  /\ ReaderGoes("release", "drain")
  /\ ring' = Tail(ring)
  /\ UNCHANGED <<ownerVars, sharedVars>>

-----------------------------------------------------------------------------
ReaderStep ==
  \/ StartReader \/ CheckStop \/ Poll \/ DrainDone
  \/ SendOk \/ SendFull \/ SendClosed
  \/ CountDropped \/ Halt \/ Release

FinishDrop == DropClose \/ DropJoin

Next ==
  \/ \E p \in Producers : Reserve(p)
  \/ \E p \in Producers, r \in Records : Submit(p, r)
  \/ NewRejected
  \/ \E isRingBuf \in BOOLEAN, cap \in Capacities : NewOpen(isRingBuf, cap)
  \/ Recv \/ RecvNone \/ DropStop
  \/ FinishDrop
  \/ ReaderStep

Spec == Init /\ [][Next]_vars

(***************************************************************************)
(* The scheduler runs the reader thread and a thread that is inside Drop,  *)
(* and the verifier only admits programs that reach their submit.  Nothing *)
(* obliges the owner to receive or to drop, or a program to run again or   *)
(* to stop running.                                                        *)
(***************************************************************************)
Fairness ==
  /\ WF_vars(ReaderStep)
  /\ WF_vars(FinishDrop)
  /\ \A p \in Producers : WF_vars(\E r \in Records : Submit(p, r))

FairSpec == Spec /\ Fairness

-----------------------------------------------------------------------------
(***************************************************************************)
(* Properties.                                                             *)
(***************************************************************************)

(* Every variable has its type: the ring and the channel stay within their *)
(* capacity and the counter within its width.                              *)
TypeOK ==
  /\ ring \in Seq(Slot) /\ Len(ring) <= RingCapacity
  /\ handle \in HandleStates
  /\ capacity \in Capacities \cup {0}
  /\ chan \in Seq(Records \cup {Stale}) /\ Len(chan) <= capacity
  /\ dropped \in 0 .. DroppedModulus - 1
  /\ stop \in BOOLEAN
  /\ reader \in ReaderStates
  /\ ended \in BOOLEAN

(* The callback of read() only ever copies records that were submitted: a  *)
(* slot that is reserved but still being filled never reaches the channel, *)
(* even when later slots of the ring are ready.                            *)
NoTornRecord == \A i \in DOMAIN chan : chan[i] # Stale

(* While the handle is open the reader only stops because read() could not *)
(* set the ring buffer up: the flag that stops it is raised by Drop, or by *)
(* the callback after Drop closed the channel, and by nothing else.        *)
OpenReaderKeepsRunning == handle = "open" => ~stop /\ reader # "exited"

(* "Returns None once the reader thread has stopped and all buffered       *)
(* records have been received": after None nothing can arrive any more.    *)
NoneIsFinal == ended => chan = <<>> /\ ReaderStopped

(* Drop joins the reader, so once it has returned the thread is gone and   *)
(* no record of the ring is consumed on behalf of the handle any more.     *)
NothingConsumedAfterDrop ==
  [][handle = "dropped" => reader' = reader /\ Len(ring') >= Len(ring)]_vars

(* An owner that never receives cannot stall the eBPF programs: try_send   *)
(* does not block, so a full ring gets room again as long as the handle is *)
(* open and its reader could be set up, however slow the owner is, and     *)
(* although an unsubmitted slot at its head holds everything behind it up. *)
FullRingIsDrained ==
  (~RingHasSpace /\ handle = "open")
    ~> (RingHasSpace \/ reader = "failed" \/ handle # "open")

ProducersFallSilent == <>[][\A p \in Producers : ~Reserve(p)]_vars

(* Drop terminates once the eBPF programs fall silent: the reader wakes up *)
(* within POLL_TIMEOUT, sees the flag and returns, and join returns.       *)
DropReturnsWhenQuiet ==
  ProducersFallSilent => (handle = "stopping" ~> handle = "dropped")

(* The comment in Drop: "The thread wakes up at least every POLL_TIMEOUT   *)
(* to notice that it has been asked to stop" (ring_buf.rs:152), whatever   *)
(* the eBPF programs do meanwhile.                                         *)
StopIsNoticed == handle = "joining" ~> ReaderStopped
=============================================================================
