------------------------------ MODULE RingBufLog ------------------------------
(***************************************************************************)
(* RingBuf with a history: the records are numbered in the order their     *)
(* slots were reserved, and the owner remembers what it received.  The     *)
(* history changes no step of RingBuf, which never looks at the contents   *)
(* of a record; it lets one say that nothing is reordered, duplicated or   *)
(* lost without being counted, and that RingBuf implements LossyStream.    *)
(***************************************************************************)
EXTENDS RingBuf, FiniteSets

CONSTANT MaxRecords   \* bound on the records reserved in a behaviour

ASSUME LogAssumption ==
  /\ MaxRecords \in Nat
  /\ Records = 1 .. MaxRecords

VARIABLES
  reserved,   \* the number of slots ever reserved
  received,   \* the records the owner received, in order
  lost        \* the records counted in dropped

logVars == <<reserved, received, lost>>
allVars == <<vars, logVars>>

LogInit == Init /\ reserved = 0 /\ received = <<>> /\ lost = {}

(* The number of the record in the i-th slot of the ring.                  *)
SerialOf(i) == (reserved - Len(ring)) + i

LogReserve(p) ==
  /\ Reserve(p)
  /\ RingHasSpace => reserved < MaxRecords
  /\ reserved' = IF RingHasSpace THEN reserved + 1 ELSE reserved
  /\ UNCHANGED <<received, lost>>

LogSubmit(p) ==
  \E i \in DOMAIN ring :
    /\ ring[i].owner = p
    /\ Submit(p, SerialOf(i))
    /\ UNCHANGED logVars

LogRecv ==
  /\ Recv
  /\ received' = Append(received, Head(chan))
  /\ UNCHANGED <<reserved, lost>>

LogCountDropped ==
  /\ CountDropped
  /\ lost' = lost \cup {SerialOf(1)}
  /\ UNCHANGED <<reserved, received>>

LogReaderStep ==
  \/ LogCountDropped
  \/ /\ \/ StartReader \/ CheckStop \/ Poll \/ DrainDone
        \/ SendOk \/ SendFull \/ SendClosed \/ Halt \/ Release
     /\ UNCHANGED logVars

LogOwnerStep ==
  \/ LogRecv
  \/ /\ \/ NewRejected
        \/ \E isRingBuf \in BOOLEAN, cap \in Capacities : NewOpen(isRingBuf, cap)
        \/ RecvNone \/ DropStop \/ FinishDrop
     /\ UNCHANGED logVars

LogNext ==
  \/ \E p \in Producers : LogReserve(p) \/ LogSubmit(p)
  \/ LogOwnerStep
  \/ LogReaderStep

LogSpec == LogInit /\ [][LogNext]_allVars

(***************************************************************************)
(* As in RingBuf, and the owner keeps receiving while there is something   *)
(* to receive, as the thread of try_init does.                             *)
(***************************************************************************)
LogFairSpec ==
  /\ LogSpec
  /\ WF_allVars(LogReaderStep)
  /\ WF_allVars(LogRecv)
  /\ \A p \in Producers : WF_allVars(LogSubmit(p))

-----------------------------------------------------------------------------
(* The slot at the head of the ring has been dealt with by the callback,   *)
(* and only waits for the consumer position to move.                       *)
HeadHandled == reader \in {"halt", "release"}

(* Records in the ring that the callback has not dealt with yet.           *)
InRing == {SerialOf(i) : i \in {j \in DOMAIN ring : j > 1 \/ ~HeadHandled}}

InChannel == {chan[i] : i \in DOMAIN chan}

Received == {received[i] : i \in DOMAIN received}

Stream == INSTANCE LossyStream WITH
  accepted  <- reserved,
  pending   <- InChannel \cup InRing,
  delivered <- received,
  closed    <- RxClosed

-----------------------------------------------------------------------------
(***************************************************************************)
(* Properties.                                                             *)
(***************************************************************************)

(* The owner receives records in the order in which the eBPF programs      *)
(* reserved their slots, each at most once, although programs submit out   *)
(* of order.                                                               *)
ReceivedInOrder ==
  \A i, j \in DOMAIN received : i < j => received[i] < received[j]

(* A gap in what the owner received is already in dropped() by the time    *)
(* the owner sees a record from behind the gap: fetch_add comes before the *)
(* next try_send.                                                          *)
GapsAreCounted ==
  received # <<>> =>
    \A k \in 1 .. received[Len(received)] : k \in Received \/ k \in lost

(* dropped() is exactly the number of records that were lost to a full     *)
(* channel, up to the width of the counter.                                *)
DroppedIsExact == dropped = Cardinality(lost) % DroppedModulus

(* Until the handle closes the channel no record is silently gone: every   *)
(* reserved record is in the ring, buffered, received or counted.          *)
NothingVanishes ==
  ~RxClosed =>
    \A k \in 1 .. reserved : k \in InRing \cup InChannel \cup Received \cup lost

(* Every record an eBPF program managed to reserve is eventually received  *)
(* or counted, unless the owner drops the handle or the ring buffer could  *)
(* not be set up.                                                          *)
EveryRecordSettles ==
  \A k \in 1 .. MaxRecords :
    (k <= reserved /\ handle = "open")
      ~> (k \in Received \cup lost \/ handle # "open" \/ reader = "failed")

(* RingBuf implements the stream its documentation describes.              *)
ImplementsLossyStream == Stream!Spec
=============================================================================
