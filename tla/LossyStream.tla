----------------------------- MODULE LossyStream -----------------------------
(***************************************************************************)
(* What a RingBuf promises its owner, without the kernel ring, the channel *)
(* or the reader thread: a stream of records, numbered in the order the    *)
(* eBPF programs reserved them, that may lose records but never reorders,  *)
(* duplicates or invents one, and that counts every record it loses before *)
(* it is closed (RingBuf::dropped).                                        *)
(***************************************************************************)
EXTENDS Integers, Sequences

CONSTANT DroppedModulus   \* the width of the counter

VARIABLES
  accepted,    \* number of records accepted so far
  pending,     \* records accepted and neither delivered nor lost
  delivered,   \* records delivered to the owner, in order
  dropped,     \* number of records lost before the stream was closed
  closed       \* the owner has closed the stream

vars == <<accepted, pending, delivered, dropped, closed>>

Init ==
  /\ accepted = 0
  /\ pending = {}
  /\ delivered = <<>>
  /\ dropped = 0
  /\ closed = FALSE

Accept ==
  /\ accepted' = accepted + 1
  /\ pending' = pending \cup {accepted + 1}
  /\ UNCHANGED <<delivered, dropped, closed>>

(* The oldest pending record is delivered.                                 *)
Deliver(k) ==
  /\ ~closed
  /\ k \in pending
  /\ \A j \in pending : k <= j
  /\ pending' = pending \ {k}
  /\ delivered' = Append(delivered, k)
  /\ UNCHANGED <<accepted, dropped, closed>>

(* A record is lost and counted.                                           *)
Lose(k) ==
  /\ k \in pending
  /\ pending' = pending \ {k}
  /\ dropped' = (dropped + 1) % DroppedModulus
  /\ UNCHANGED <<accepted, delivered, closed>>

Close ==
  /\ ~closed
  /\ closed' = TRUE
  /\ UNCHANGED <<accepted, pending, delivered, dropped>>

(* What is pending when the stream is closed may vanish uncounted.         *)
Discard(S) ==
  /\ closed
  /\ S \subseteq pending
  /\ pending' = pending \ S
  /\ UNCHANGED <<accepted, delivered, dropped, closed>>

Next ==
  \/ Accept
  \/ \E k \in pending : Deliver(k) \/ Lose(k)
  \/ Close
  \/ \E S \in SUBSET pending : Discard(S)

Spec == Init /\ [][Next]_vars
=============================================================================
