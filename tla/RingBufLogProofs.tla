--------------------------- MODULE RingBufLogProofs ---------------------------
(***************************************************************************)
(* Proofs about the history of RingBuf: no record is reordered, repeated   *)
(* or lost without being counted, and RingBuf implements LossyStream, for  *)
(* every number of programs and records, every capacity of the ring and of *)
(* the channel and every width of the counter.                             *)
(***************************************************************************)
EXTENDS RingBufLog, RingBufProofs, FiniteSetTheorems

Elements(s) == {s[i] : i \in DOMAIN s}

Increasing(s) == \A i, j \in DOMAIN s : i < j => s[i] < s[j]

(* Records up to this one have left the ring.                              *)
Released == reserved - Len(ring)

(* Records up to this one have been dealt with by the callback.            *)
Handled == Released + (IF HeadHandled THEN 1 ELSE 0)

(* What has been sent and what has been counted.                           *)
Known == InChannel \cup Received \cup lost

LogTypeOK ==
  /\ reserved \in 0 .. MaxRecords /\ Len(ring) <= reserved
  /\ chan \in Seq(Records) /\ received \in Seq(Records)
  /\ lost \subseteq Records

(* A submitted slot holds the number of its record.                        *)
Numbered == \A i \in DOMAIN ring : ring[i].owner = Submitted => ring[i].rec = SerialOf(i)

(* A program fills one slot at a time.                                     *)
OneSlotEach ==
  \A i, j \in DOMAIN ring : ring[i].owner \in Producers /\ ring[i].owner = ring[j].owner => i = j

(* What has been received and what is buffered is one increasing sequence, *)
(* and there is nothing in it that the callback has not yet dealt with.    *)
InOrder ==
  /\ Increasing(received) /\ Increasing(chan)
  /\ \A m \in Received, n \in InChannel : m < n
  /\ \A n \in Known : n <= Handled

(* There is no gap below a record that was sent, nor, while the channel is *)
(* open, below what the callback has dealt with.                           *)
NoGap ==
  /\ \A n \in InChannel \cup Received : 1 .. n \subseteq Known
  /\ ~RxClosed => 1 .. Handled \subseteq Known

HaltMeansClosed == reader = "halt" => RxClosed

LogInv ==
  /\ Inv
  /\ LogTypeOK
  /\ Numbered
  /\ OneSlotEach
  /\ InOrder
  /\ NoGap
  /\ DroppedIsExact
  /\ HaltMeansClosed

(* What a step of the implementation is to the stream.                     *)
StreamStep == [Stream!Next]_Stream!vars

-----------------------------------------------------------------------------
(* Appending a record that is greater than all others.                     *)
LEMMA AppendRecord ==
  ASSUME NEW s \in Seq(Records), NEW e \in Records,
         Increasing(s), \A n \in Elements(s) : n < e
  PROVE  /\ Append(s, e) \in Seq(Records)
         /\ Increasing(Append(s, e))
         /\ Elements(Append(s, e)) = Elements(s) \cup {e}
<1> DEFINE t == Append(s, e)
<1>1. /\ t \in Seq(Records) /\ Len(t) = Len(s) + 1
      /\ \A i \in 1 .. Len(s) : t[i] = s[i]
      /\ t[Len(s) + 1] = e
  BY AppendProperties
<1>2. Len(s) \in Nat /\ DOMAIN s = 1 .. Len(s) /\ DOMAIN t = 1 .. Len(s) + 1
  BY <1>1, LenProperties
<1> HIDE DEF t
<1>3. \A i \in DOMAIN t : i = Len(s) + 1 \/ i \in DOMAIN s
  BY <1>2
<1>4. Increasing(t)
  BY <1>1, <1>2, <1>3 DEF Increasing, Elements
<1>5. Elements(t) = Elements(s) \cup {e}
  BY <1>1, <1>2, <1>3 DEF Elements
<1> QED
  BY <1>1, <1>4, <1>5 DEF t

(* Taking the first record, which is the least.                            *)
LEMMA TakeRecord ==
  ASSUME LogAssumption, NEW s \in Seq(Records), s # <<>>, Increasing(s)
  PROVE  /\ Tail(s) \in Seq(Records)
         /\ Increasing(Tail(s))
         /\ Head(s) \in Elements(s) /\ Head(s) \in Records
         /\ \A n \in Elements(s) : Head(s) <= n
         /\ Elements(Tail(s)) = Elements(s) \ {Head(s)}
<1> DEFINE t == Tail(s)
<1>1. /\ t \in Seq(Records) /\ Len(t) = Len(s) - 1
      /\ \A i \in 1 .. Len(t) : t[i] = s[i + 1]
  BY HeadTailProperties
<1>2. /\ Len(s) \in Nat \ {0} /\ DOMAIN s = 1 .. Len(s) /\ DOMAIN t = 1 .. Len(t)
      /\ \A i \in DOMAIN s : s[i] \in Records
  BY <1>1, LenProperties, EmptySeq
<1> HIDE DEF t
<1>3. Head(s) = s[1] /\ 1 \in DOMAIN s
  BY <1>2
<1>4. /\ \A i \in DOMAIN s : i # 1 => i - 1 \in DOMAIN t /\ t[i - 1] = s[i]
      /\ \A i \in DOMAIN t : i + 1 \in DOMAIN s /\ t[i] = s[i + 1]
  <2>1. \A i \in DOMAIN t : i + 1 \in DOMAIN s /\ t[i] = s[i + 1]
    BY <1>1, <1>2
  <2>2. ASSUME NEW i \in DOMAIN s, i # 1 PROVE i - 1 \in DOMAIN t /\ t[i - 1] = s[i]
    BY <1>1, <1>2, <2>2
  <2> QED
    BY <2>1, <2>2
<1>5. \A i \in DOMAIN s : i # 1 => s[1] < s[i]
  BY <1>2, <1>3 DEF Increasing
<1>6. Increasing(t)
  <2> SUFFICES ASSUME NEW i \in DOMAIN t, NEW j \in DOMAIN t, i < j PROVE t[i] < t[j]
    BY DEF Increasing
  <2>1. i + 1 \in DOMAIN s /\ j + 1 \in DOMAIN s /\ i + 1 < j + 1
    BY <1>2, <1>4
  <2>2. s[i + 1] < s[j + 1]
    BY <2>1 DEF Increasing
  <2> QED
    BY <1>4, <2>2
<1>7. \A i \in DOMAIN s : s[i] \in Int
  BY <1>2 DEF LogAssumption
<1>8. Elements(t) \subseteq Elements(s) \ {Head(s)}
  <2> SUFFICES ASSUME NEW i \in DOMAIN t PROVE t[i] \in Elements(s) \ {Head(s)}
    BY DEF Elements
  <2>1. i + 1 \in DOMAIN s /\ t[i] = s[i + 1] /\ i + 1 # 1
    BY <1>2, <1>4
  <2>2. s[i + 1] # s[1]
    BY <1>3, <1>5, <1>7, <2>1
  <2> QED
    BY <1>3, <2>1, <2>2 DEF Elements
<1>9. Elements(s) \ {Head(s)} \subseteq Elements(t)
  BY <1>3, <1>4 DEF Elements
<1>10. \A n \in Elements(s) : Head(s) <= n
  BY <1>3, <1>5, <1>7 DEF Elements
<1> QED
  BY <1>1, <1>2, <1>3, <1>6, <1>8, <1>9, <1>10 DEF t, Elements

(* The counter of dropped records goes on as their number does.            *)
LEMMA CountOn ==
  ASSUME NEW M \in Nat \ {0, 1}, NEW c \in Nat
  PROVE  ((c % M) + 1) % M = (c + 1) % M
<1> DEFINE q == c \div M
           r == c % M
<1>1. q \in Nat /\ r \in 0 .. M - 1 /\ c = q * M + r
  OBVIOUS
<1> HIDE DEF q, r
<1>2. CASE r + 1 = M
  <2>1. c + 1 = (q + 1) * M + 0
    BY <1>1, <1>2
  <2>2. (c + 1) % M = 0
    <3>1. ASSUME NEW d \in Nat, NEW p \in Nat, d = p * M + 0 PROVE d % M = 0
      BY <3>1
    <3> QED
      BY <1>1, <2>1, <3>1
  <2>3. M % M = 0
    OBVIOUS
  <2> QED
    BY <1>2, <2>2, <2>3 DEF r
<1>3. CASE r + 1 < M
  <2>1. c + 1 = q * M + (r + 1) /\ r + 1 \in 0 .. M - 1
    BY <1>1, <1>3
  <2>2. (c + 1) % M = r + 1
    <3>1. ASSUME NEW d \in Nat, NEW e \in 0 .. M - 1, d = q * M + e PROVE d % M = e
      BY <1>1, <3>1
    <3> QED
      BY <1>1, <2>1, <3>1
  <2>3. (r + 1) % M = r + 1
    BY <2>1
  <2> QED
    BY <2>2, <2>3 DEF r
<1> QED
  BY <1>1, <1>2, <1>3

-----------------------------------------------------------------------------
(* What the invariant says of the slots: those that the callback has not   *)
(* dealt with hold the records above Handled.                              *)
LEMMA LogFacts ==
  LogInv =>
    /\ ring \in Seq(Slot) /\ Len(ring) \in Nat /\ DOMAIN ring = 1 .. Len(ring)
    /\ reserved \in Nat /\ Released \in Nat /\ Handled \in Nat /\ Handled <= reserved
    /\ reader \in {"count", "halt", "release"} => HeadReady /\ 1 \in DOMAIN ring
    /\ InChannel \subseteq Records /\ Received \subseteq Records
    /\ InRing = (Handled + 1) .. reserved
<1> SUFFICES ASSUME LogInv
             PROVE  /\ ring \in Seq(Slot) /\ Len(ring) \in Nat /\ DOMAIN ring = 1 .. Len(ring)
                    /\ reserved \in Nat /\ Released \in Nat /\ Handled \in Nat /\ Handled <= reserved
                    /\ reader \in {"count", "halt", "release"} => HeadReady /\ 1 \in DOMAIN ring
                    /\ InChannel \subseteq Records /\ Received \subseteq Records
                    /\ InRing = (Handled + 1) .. reserved
  OBVIOUS
<1>1. ring \in Seq(Slot) /\ Len(ring) \in Nat /\ DOMAIN ring = 1 .. Len(ring)
  BY LenProperties DEF LogInv, Inv, TypeOK
<1>2. reserved \in Nat /\ Released \in Nat
  BY <1>1, LogAssumption DEF LogInv, LogTypeOK, Released
<1>3. reader \in {"count", "halt", "release"} => HeadReady /\ 1 \in DOMAIN ring
  BY <1>1, EmptySeq DEF LogInv, Inv, HeadIsHeld, HeadReady
<1>4. Handled \in Nat /\ Handled <= reserved
  BY <1>1, <1>2, <1>3 DEF Handled, HeadHandled, Released
<1>5. InChannel \subseteq Records /\ Received \subseteq Records
  <2>1. \A i \in DOMAIN chan : chan[i] \in Records
    BY LenProperties DEF LogInv, LogTypeOK
  <2>2. \A i \in DOMAIN received : received[i] \in Records
    BY LenProperties DEF LogInv, LogTypeOK
  <2> QED
    BY <2>1, <2>2 DEF InChannel, Received
<1>6. InRing = (Handled + 1) .. reserved
  <2>1. ASSUME NEW i \in DOMAIN ring, i > 1 \/ ~HeadHandled
        PROVE  SerialOf(i) \in (Handled + 1) .. reserved
    BY <1>1, <1>2, <2>1 DEF SerialOf, Handled, Released
  <2>2. ASSUME NEW n \in (Handled + 1) .. reserved
        PROVE  n \in InRing
    <3> DEFINE i == n - Released
    <3>1. i \in DOMAIN ring /\ SerialOf(i) = n /\ (i > 1 \/ ~HeadHandled)
      BY <1>1, <1>2, <2>2 DEF SerialOf, Handled, Released
    <3> HIDE DEF i
    <3> QED
      BY <3>1 DEF InRing
  <2> QED
    BY <2>1, <2>2 DEF InRing
<1> QED
  BY <1>1, <1>2, <1>3, <1>4, <1>5, <1>6

(* A step that moves no record but within the ring is none of the stream.  *)
LEMMA QuietStep ==
  ASSUME LogInv, Inv', LogTypeOK', Numbered', OneSlotEach', HaltMeansClosed',
         UNCHANGED <<chan, logVars, dropped, RxClosed>>,
         Handled' = Handled
  PROVE  LogInv' /\ StreamStep
<1>1. UNCHANGED <<InChannel, Received, Known>>
  BY DEF InChannel, Received, Known, logVars
<1>2. InOrder' /\ NoGap' /\ DroppedIsExact'
  BY <1>1 DEF LogInv, InOrder, NoGap, DroppedIsExact, Increasing, logVars
<1>3. LogInv'
  BY <1>2 DEF LogInv
<1>4. InRing = (Handled + 1) .. reserved /\ (InRing = (Handled + 1) .. reserved)'
  BY <1>3, LogFacts, PTL
<1>5. UNCHANGED Stream!vars
  BY <1>1, <1>4 DEF Stream!vars, logVars
<1> QED
  BY <1>3, <1>5 DEF StreamStep

-----------------------------------------------------------------------------
(* The programs: a slot that is reserved is accepted by the stream.        *)
LEMMA ReserveStep ==
  ASSUME LogInv, Inv', NEW p \in Producers, LogReserve(p)
  PROVE  LogInv' /\ StreamStep
<1>1. Reserve(p) /\ UNCHANGED <<received, lost, chan, dropped, handle, reader>>
  BY DEF LogReserve, Reserve, sharedVars, ownerVars
<1>2. /\ ring \in Seq(Slot) /\ Len(ring) \in Nat /\ DOMAIN ring = 1 .. Len(ring)
      /\ reserved \in Nat /\ Released \in Nat /\ Handled \in Nat /\ Handled <= reserved
      /\ InRing = (Handled + 1) .. reserved
  BY LogFacts
<1>3. /\ ring' \in Seq(Slot)
      /\ \A i \in 1 .. Len(ring) : ring'[i] = ring[i]
      /\ \A i \in DOMAIN ring' : i \in DOMAIN ring \/ ring'[i].owner = p
  BY <1>1, <1>2, ReserveSlots
<1>4. /\ Len(ring') = Len(ring) + (IF RingHasSpace THEN 1 ELSE 0)
      /\ reserved' = reserved + (IF RingHasSpace THEN 1 ELSE 0)
  <2>1. [rec |-> Stale, owner |-> p] \in Slot
    BY DEF Slot
  <2>2. RingHasSpace => Len(ring') = Len(ring) + 1
    BY <1>1, <1>2, <2>1, AppendProperties DEF Reserve
  <2>3. ~RingHasSpace => Len(ring') = Len(ring)
    BY <1>1 DEF Reserve
  <2> QED
    BY <1>2, <2>2, <2>3 DEF LogReserve
<1>5. Released' = Released /\ Handled' = Handled
  BY <1>1, <1>2, <1>4 DEF Released, Handled, HeadHandled
<1>6. LogTypeOK'
  BY <1>1, <1>2, <1>4, LogAssumption DEF LogInv, LogTypeOK, LogReserve
<1>7. Numbered'
  <2> SUFFICES ASSUME NEW i \in DOMAIN ring', ring'[i].owner = Submitted
               PROVE  ring'[i].rec = SerialOf(i)'
    BY DEF Numbered
  <2>1. i \in DOMAIN ring /\ ring'[i] = ring[i]
    BY <1>2, <1>3, RingBufAssumption
  <2>2. SerialOf(i) = Released + i /\ SerialOf(i)' = Released' + i
    BY DEF SerialOf, Released
  <2> QED
    BY <1>5, <2>1, <2>2 DEF LogInv, Numbered
<1>o. OneSlotEach'
  <2>1. \A i \in DOMAIN ring : ring[i].owner # p
    BY <1>1 DEF Reserve, Writing
  <2>2. \A i \in DOMAIN ring' : i \in DOMAIN ring \/ (i = Len(ring) + 1 /\ ring'[i].owner = p)
    <3>1. DOMAIN ring' = 1 .. Len(ring')
      BY <1>3, LenProperties
    <3> QED
      BY <1>2, <1>3, <1>4, <3>1
  <2> SUFFICES ASSUME NEW i \in DOMAIN ring', NEW j \in DOMAIN ring',
                      ring'[i].owner \in Producers, ring'[i].owner = ring'[j].owner
               PROVE  i = j
    BY DEF OneSlotEach
  <2>3. CASE i \in DOMAIN ring /\ j \in DOMAIN ring
    BY <1>2, <1>3, <2>3 DEF LogInv, OneSlotEach
  <2>4. CASE i \notin DOMAIN ring
    BY <1>2, <1>3, <2>1, <2>2, <2>4
  <2>5. CASE j \notin DOMAIN ring
    BY <1>2, <1>3, <2>1, <2>2, <2>5
  <2> QED
    BY <2>3, <2>4, <2>5
<1>8. HaltMeansClosed' /\ RxClosed' = RxClosed
  BY <1>1 DEF LogInv, HaltMeansClosed, RxClosed
<1>9. CASE ~RingHasSpace
  <2>1. UNCHANGED logVars
    BY <1>1, <1>2, <1>4, <1>9 DEF logVars
  <2> QED
    BY <1>1, <1>5, <1>6, <1>7, <1>o, <1>8, <2>1, QuietStep
<1>10. CASE RingHasSpace
  <2>1. UNCHANGED <<InChannel, Received, Known>>
    BY <1>1 DEF InChannel, Received, Known
  <2>2. InOrder' /\ NoGap' /\ DroppedIsExact'
    BY <1>1, <1>5, <1>8, <2>1 DEF LogInv, InOrder, NoGap, DroppedIsExact, Increasing
  <2>3. LogInv'
    BY <1>6, <1>7, <1>o, <1>8, <2>2 DEF LogInv
  <2>4. (InRing = (Handled + 1) .. reserved)'
    BY <2>3, LogFacts, PTL
  <2>5. InRing' = InRing \cup {reserved + 1} /\ reserved' = reserved + 1
    BY <1>2, <1>4, <1>5, <1>10, <2>4
  <2>6. Stream!Accept
    BY <1>1, <1>8, <2>1, <2>5 DEF Stream!Accept
  <2> QED
    BY <2>3, <2>6 DEF StreamStep, Stream!Next
<1> QED
  BY <1>9, <1>10

(* A program gives the slot it submits the number of its record.           *)
LEMMA SubmitStep ==
  ASSUME LogInv, Inv', NEW p \in Producers, LogSubmit(p)
  PROVE  LogInv' /\ StreamStep
<1>1. PICK j \in DOMAIN ring : ring[j].owner = p /\ Submit(p, SerialOf(j)) /\ UNCHANGED logVars
  BY DEF LogSubmit
<1>2. /\ ring \in Seq(Slot) /\ Len(ring) \in Nat /\ DOMAIN ring = 1 .. Len(ring)
      /\ reserved \in Nat /\ Released \in Nat
  BY LogFacts
<1>3. SerialOf(j) \in Records
  BY <1>2, LogAssumption DEF SerialOf, Released, LogInv, LogTypeOK
<1>4. /\ Len(ring') = Len(ring) /\ DOMAIN ring' = DOMAIN ring
      /\ \A i \in DOMAIN ring :
           ring'[i] = IF ring[i].owner = p
                      THEN [rec |-> SerialOf(j), owner |-> Submitted] ELSE ring[i]
  BY <1>1, <1>2, <1>3, SubmitSlots
<1>5. UNCHANGED <<reader, handle, chan, dropped>>
  BY <1>1 DEF Submit, ownerVars, sharedVars
<1>6. Released' = Released /\ Handled' = Handled
  BY <1>1, <1>4, <1>5 DEF Released, Handled, HeadHandled, logVars
<1>7. LogTypeOK'
  BY <1>1, <1>4, <1>5 DEF LogInv, LogTypeOK, logVars
<1>8. Numbered'
  <2> SUFFICES ASSUME NEW i \in DOMAIN ring', ring'[i].owner = Submitted
               PROVE  ring'[i].rec = SerialOf(i)'
    BY DEF Numbered
  <2>1. SerialOf(i)' = SerialOf(i)
    BY <1>1, <1>4 DEF SerialOf, logVars
  <2>2. CASE ring[i].owner = p
    <3>1. i = j
      BY <1>1, <1>4, <2>2 DEF LogInv, OneSlotEach
    <3> QED
      BY <1>4, <2>1, <2>2, <3>1
  <2>3. CASE ring[i].owner # p
    BY <1>4, <2>1, <2>3 DEF LogInv, Numbered
  <2> QED
    BY <2>2, <2>3
<1>o. OneSlotEach'
  BY <1>4, RingBufAssumption DEF LogInv, OneSlotEach
<1>9. HaltMeansClosed' /\ RxClosed' = RxClosed
  BY <1>5 DEF LogInv, HaltMeansClosed, RxClosed
<1> QED
  BY <1>1, <1>5, <1>6, <1>7, <1>8, <1>o, <1>9, QuietStep

-----------------------------------------------------------------------------
(* The owner: a receive delivers the least record that is pending.         *)
LEMMA RecvStep ==
  ASSUME LogInv, Inv', LogRecv
  PROVE  LogInv' /\ StreamStep
<1> DEFINE k == Head(chan)
<1>1. /\ handle = "open" /\ chan # <<>> /\ chan' = Tail(chan)
      /\ received' = Append(received, k)
      /\ UNCHANGED <<ring, handle, dropped, reader, reserved, lost>>
  BY DEF LogRecv, Recv, kernelVars, ownerVars
<1>2. /\ chan \in Seq(Records) /\ received \in Seq(Records)
      /\ Increasing(chan) /\ Increasing(received)
      /\ InChannel = Elements(chan) /\ Received = Elements(received)
      /\ InChannel' = Elements(chan') /\ Received' = Elements(received')
  BY DEF LogInv, LogTypeOK, InOrder, InChannel, Received, Elements
<1>3. /\ chan' \in Seq(Records) /\ Increasing(chan')
      /\ k \in InChannel /\ k \in Records
      /\ \A n \in InChannel : k <= n
      /\ InChannel' = InChannel \ {k}
  BY <1>1, <1>2, TakeRecord, LogAssumption
<1>4. \A n \in Received : n < k
  BY <1>3 DEF LogInv, InOrder
<1> HIDE DEF k
<1>5. /\ received' \in Seq(Records) /\ Increasing(received')
      /\ Received' = Received \cup {k}
  BY <1>1, <1>2, <1>3, <1>4, AppendRecord
<1>6. Handled' = Handled /\ RxClosed' = RxClosed /\ ~RxClosed
  BY <1>1 DEF Handled, Released, HeadHandled, RxClosed
<1>7. /\ Known' = Known /\ k <= Handled /\ Handled \in Nat /\ reserved \in Nat
      /\ InRing = (Handled + 1) .. reserved
      /\ InChannel \subseteq Records
  BY <1>1, <1>3, <1>5, LogFacts DEF Known, LogInv, InOrder
<1>8. LogTypeOK' /\ Numbered' /\ OneSlotEach' /\ DroppedIsExact' /\ HaltMeansClosed'
  BY <1>1, <1>3, <1>5, <1>6
     DEF LogInv, LogTypeOK, Numbered, SerialOf, OneSlotEach, DroppedIsExact, HaltMeansClosed
<1>9. InOrder'
  <2>1. ASSUME NEW m \in Received', NEW n \in InChannel' PROVE m < n
    <3>1. k < n
      BY <1>3, <1>7, LogAssumption
    <3> QED
      BY <1>3, <1>4, <1>5, <2>1, <3>1 DEF LogInv, InOrder
  <2>2. \A n \in Known' : n <= Handled'
    BY <1>6, <1>7 DEF LogInv, InOrder
  <2> QED
    BY <1>3, <1>5, <2>1, <2>2 DEF InOrder
<1>10. NoGap'
  BY <1>3, <1>5, <1>6, <1>7 DEF LogInv, NoGap
<1>11. LogInv'
  BY <1>8, <1>9, <1>10 DEF LogInv
<1>12. InRing' = InRing
  BY <1>1 DEF InRing, SerialOf, HeadHandled
<1>13. Stream!Deliver(k)
  <2>1. k \in Nat /\ k \notin InRing
    BY <1>3, <1>7, LogAssumption
  <2>2. \A j \in InChannel \cup InRing : k <= j
    BY <1>3, <1>7, <2>1
  <2>3. (InChannel \cup InRing)' = (InChannel \cup InRing) \ {k}
    BY <1>3, <1>12, <2>1
  <2> QED
    BY <1>1, <1>3, <1>6, <2>2, <2>3 DEF Stream!Deliver
<1>14. k \in InChannel \cup InRing
  BY <1>3
<1> QED
  BY <1>11, <1>13, <1>14 DEF StreamStep, Stream!Next

(* Closing the channel closes the stream.                                  *)
LEMMA CloseStep ==
  ASSUME LogInv, Inv', DropClose, UNCHANGED logVars
  PROVE  LogInv' /\ StreamStep
<1>1. /\ handle = "stopping" /\ handle' = "joining"
      /\ UNCHANGED <<ring, chan, dropped, reader, reserved, received, lost>>
  BY DEF DropClose, kernelVars, sharedVars, logVars
<1>2. ~RxClosed /\ RxClosed'
  BY <1>1 DEF RxClosed
<1>3. UNCHANGED <<InChannel, Received, Known, Handled, InRing>>
  BY <1>1 DEF InChannel, Received, Known, Handled, Released, HeadHandled, InRing, SerialOf
<1>4. LogInv'
  BY <1>1, <1>2, <1>3 DEF LogInv, LogTypeOK, Numbered, SerialOf, OneSlotEach, InOrder, Increasing,
     NoGap, DroppedIsExact, HaltMeansClosed
<1>5. Stream!Close
  BY <1>1, <1>2, <1>3 DEF Stream!Close
<1> QED
  BY <1>4, <1>5 DEF StreamStep, Stream!Next

(* What is still buffered when the handle is gone is discarded.            *)
LEMMA JoinStep ==
  ASSUME LogInv, Inv', DropJoin, UNCHANGED logVars
  PROVE  LogInv' /\ StreamStep
<1>1. /\ RxClosed /\ RxClosed' /\ chan' = <<>>
      /\ UNCHANGED <<ring, dropped, reader, reserved, received, lost>>
  BY DEF DropJoin, RxClosed, kernelVars, logVars
<1>2. UNCHANGED <<Received, Handled, InRing>>
  BY <1>1 DEF Received, Handled, Released, HeadHandled, InRing, SerialOf
<1>3. InChannel' = {} /\ Known' = Received \cup lost /\ chan' \in Seq(Records) /\ Increasing(chan')
  BY <1>1, <1>2 DEF InChannel, Known, Increasing
<1>4. LogTypeOK' /\ Numbered' /\ OneSlotEach' /\ DroppedIsExact' /\ HaltMeansClosed'
  BY <1>1, <1>3
     DEF LogInv, LogTypeOK, Numbered, SerialOf, OneSlotEach, DroppedIsExact, HaltMeansClosed
<1>5. InOrder'
  BY <1>1, <1>2, <1>3 DEF LogInv, InOrder, Increasing, Known
<1>6. NoGap'
  <2> SUFFICES ASSUME NEW n \in Received, NEW k \in 1 .. n
               PROVE  k \in Received \cup lost
    BY <1>1, <1>2, <1>3 DEF NoGap
  <2>1. k \in Known /\ n \in Nat
    BY LogFacts, LogAssumption DEF LogInv, NoGap
  <2>2. k \notin InChannel
    BY <2>1 DEF LogInv, InOrder
  <2> QED
    BY <2>1, <2>2 DEF Known
<1>7. LogInv'
  BY <1>4, <1>5, <1>6 DEF LogInv
<1>8. Stream!Discard(InChannel)
  <2>1. InChannel \cap InRing = {}
    <3>1. InRing = (Handled + 1) .. reserved /\ Handled \in Nat /\ reserved \in Nat
      BY LogFacts
    <3>2. \A n \in InChannel : n <= Handled
      BY DEF LogInv, InOrder, Known
    <3> QED
      BY <3>1, <3>2
  <2>2. (InChannel \cup InRing)' = (InChannel \cup InRing) \ InChannel
    BY <1>2, <1>3, <2>1
  <2> QED
    BY <1>1, <2>2 DEF Stream!Discard
<1> QED
  BY <1>7, <1>8 DEF StreamStep, Stream!Next

-----------------------------------------------------------------------------
(* The reader: the record the callback is given is the first it has not    *)
(* dealt with.                                                             *)
LEMMA HeadRecord ==
  ASSUME LogInv, HeadReady, ~HeadHandled
  PROVE  /\ SerialOf(1) = Handled + 1 /\ Handled = Released
         /\ ring[1].rec = Handled + 1
         /\ Handled + 1 \in Records /\ Handled + 1 \in InRing
         /\ Handled \in Nat /\ reserved \in Nat /\ Handled < reserved
         /\ \A n \in Known : n \in Nat /\ n <= Handled
<1>1. /\ ring \in Seq(Slot) /\ Len(ring) \in Nat /\ DOMAIN ring = 1 .. Len(ring)
      /\ reserved \in Nat /\ Released \in Nat /\ Handled \in Nat
      /\ InRing = (Handled + 1) .. reserved
      /\ InChannel \subseteq Records /\ Received \subseteq Records
  BY LogFacts
<1>2. 1 \in DOMAIN ring /\ Len(ring) >= 1
  BY <1>1, EmptySeq DEF HeadReady
<1>3. Handled = Released /\ SerialOf(1) = Handled + 1 /\ Handled < reserved
  BY <1>1, <1>2 DEF Handled, Released, SerialOf
<1>4. ring[1].rec = SerialOf(1)
  BY <1>2 DEF LogInv, Numbered, HeadReady
<1>5. Handled + 1 \in Records
  BY <1>1, <1>3, LogAssumption DEF LogInv, LogTypeOK
<1>6. \A n \in Known : n \in Nat /\ n <= Handled
  BY <1>1, LogAssumption DEF LogInv, LogTypeOK, InOrder, Known
<1> QED
  BY <1>1, <1>3, <1>4, <1>5, <1>6

(* A record that fits into the channel stays pending.                      *)
LEMMA SendStep ==
  ASSUME LogInv, Inv', SendOk, UNCHANGED logVars
  PROVE  LogInv' /\ StreamStep
<1> DEFINE k == Handled + 1
<1>1. /\ HeadReady /\ ~HeadHandled /\ ~RxClosed /\ chan' = Append(chan, ring[1].rec)
      /\ reader' = "release" /\ UNCHANGED <<ring, handle, dropped, reserved, received, lost>>
  BY DEF SendOk, ReaderGoes, HeadHandled, kernelVars, ownerVars, logVars
<1>2. /\ ring[1].rec = k /\ k \in Records /\ k \in InRing /\ Handled = Released
      /\ Handled \in Nat /\ reserved \in Nat /\ Handled < reserved
      /\ \A n \in Known : n \in Nat /\ n <= Handled
  BY <1>1, HeadRecord
<1>3. /\ chan \in Seq(Records) /\ Increasing(chan)
      /\ InChannel = Elements(chan) /\ InChannel' = Elements(chan')
  BY DEF LogInv, LogTypeOK, InOrder, InChannel, Elements
<1>4. \A n \in InChannel : n < k
  BY <1>2 DEF Known
<1>5. chan' \in Seq(Records) /\ Increasing(chan') /\ InChannel' = InChannel \cup {k}
  <2> HIDE DEF k
  <2> QED
    BY <1>1, <1>2, <1>3, <1>4, AppendRecord
<1>6. Handled' = k /\ RxClosed' = RxClosed /\ Received' = Received /\ Known' = Known \cup {k}
  BY <1>1, <1>2, <1>5 DEF Handled, Released, HeadHandled, RxClosed, Received, Known
<1>7. LogTypeOK' /\ Numbered' /\ OneSlotEach' /\ DroppedIsExact' /\ HaltMeansClosed'
  BY <1>1, <1>5
     DEF LogInv, LogTypeOK, Numbered, SerialOf, OneSlotEach, DroppedIsExact, HaltMeansClosed
<1>8. InOrder'
  <2>1. ASSUME NEW m \in Received', NEW n \in InChannel' PROVE m < n
    <3>1. CASE n = k
      BY <1>2, <1>6, <2>1, <3>1 DEF Known
    <3>2. CASE n # k
      BY <1>5, <1>6, <2>1, <3>2 DEF LogInv, InOrder
    <3> QED
      BY <3>1, <3>2
  <2>2. \A n \in Known' : n <= Handled'
    BY <1>2, <1>6
  <2> QED
    BY <1>1, <1>5, <2>1, <2>2 DEF LogInv, InOrder, Increasing
<1>9. NoGap'
  <2>1. 1 .. k \subseteq Known'
    BY <1>1, <1>2, <1>6 DEF LogInv, NoGap
  <2>2. \A n \in InChannel' \cup Received' : 1 .. n \subseteq Known'
    BY <1>5, <1>6, <2>1 DEF LogInv, NoGap
  <2> QED
    BY <1>6, <2>1, <2>2 DEF NoGap
<1>10. LogInv'
  BY <1>7, <1>8, <1>9 DEF LogInv
<1>11. InRing = (Handled + 1) .. reserved /\ (InRing = (Handled + 1) .. reserved)'
  BY <1>10, LogFacts, PTL
<1>12. InRing = InRing' \cup {k}
  BY <1>1, <1>2, <1>6, <1>11
<1>13. UNCHANGED Stream!vars
  BY <1>1, <1>5, <1>6, <1>12 DEF Stream!vars
<1> QED
  BY <1>10, <1>13 DEF StreamStep

(* A record that does not fit is lost once it is counted.                  *)
LEMMA CountStep ==
  ASSUME LogInv, Inv', LogCountDropped
  PROVE  LogInv' /\ StreamStep
<1> DEFINE k == Handled + 1
<1>1. /\ reader = "count" /\ ~HeadHandled /\ lost' = lost \cup {SerialOf(1)}
      /\ dropped' = (dropped + 1) % DroppedModulus
      /\ reader' = "release" /\ UNCHANGED <<ring, chan, handle, reserved, received>>
  BY DEF LogCountDropped, CountDropped, ReaderGoes, HeadHandled, kernelVars, ownerVars
<1>2. HeadReady
  BY <1>1, LogFacts
<1>3. /\ SerialOf(1) = k /\ k \in Records /\ k \in InRing /\ Handled = Released
      /\ Handled \in Nat /\ reserved \in Nat /\ Handled < reserved
      /\ \A n \in Known : n \in Nat /\ n <= Handled
  BY <1>1, <1>2, HeadRecord
<1>4. /\ Handled' = k /\ RxClosed' = RxClosed
      /\ Received' = Received /\ InChannel' = InChannel /\ Known' = Known \cup {k}
  BY <1>1, <1>3 DEF Handled, Released, HeadHandled, RxClosed, Received, InChannel, Known
<1>5. LogTypeOK' /\ Numbered' /\ OneSlotEach' /\ HaltMeansClosed'
  BY <1>1, <1>3
     DEF LogInv, LogTypeOK, Numbered, SerialOf, OneSlotEach, HaltMeansClosed
<1>6. DroppedIsExact'
  <2>1. IsFiniteSet(1 .. MaxRecords)
    BY FS_Interval, LogAssumption
  <2>2. IsFiniteSet(lost)
    BY <2>1, FS_Subset, LogAssumption DEF LogInv, LogTypeOK
  <2>3. k \notin lost
    BY <1>3 DEF Known
  <2>4. Cardinality(lost') = Cardinality(lost) + 1 /\ Cardinality(lost) \in Nat
    BY <1>1, <1>3, <2>2, <2>3, FS_AddElement, FS_CardinalityType
  <2>5. dropped = Cardinality(lost) % DroppedModulus
    BY DEF LogInv, DroppedIsExact
  <2> QED
    BY <1>1, <2>4, <2>5, CountOn, RingBufAssumption DEF DroppedIsExact
<1>7. InOrder'
  <2>1. \A n \in Known' : n <= Handled'
    BY <1>3, <1>4
  <2> QED
    BY <1>1, <1>4, <2>1 DEF LogInv, InOrder, Increasing
<1>8. NoGap'
  <2>1. ~RxClosed => 1 .. k \subseteq Known'
    BY <1>3, <1>4 DEF LogInv, NoGap
  <2> QED
    BY <1>4, <2>1 DEF LogInv, NoGap
<1>9. LogInv'
  BY <1>5, <1>6, <1>7, <1>8 DEF LogInv
<1>10. InRing = (Handled + 1) .. reserved /\ (InRing = (Handled + 1) .. reserved)'
  BY <1>9, LogFacts, PTL
<1>11. Stream!Lose(k)
  <2>1. k \notin InChannel
    BY <1>3 DEF Known
  <2>2. InRing' = InRing \ {k}
    BY <1>1, <1>3, <1>4, <1>10
  <2>3. (InChannel \cup InRing)' = (InChannel \cup InRing) \ {k}
    BY <1>4, <2>1, <2>2
  <2> QED
    BY <1>1, <1>3, <1>4, <2>3 DEF Stream!Lose
<1> QED
  BY <1>3, <1>9, <1>11 DEF StreamStep, Stream!Next

(* A record that meets a closed channel is discarded.                      *)
LEMMA ClosedStep ==
  ASSUME LogInv, Inv', SendClosed, UNCHANGED logVars
  PROVE  LogInv' /\ StreamStep
<1> DEFINE k == Handled + 1
<1>1. /\ HeadReady /\ ~HeadHandled /\ RxClosed /\ reader' = "halt"
      /\ UNCHANGED <<ring, chan, handle, dropped, reserved, received, lost>>
  BY DEF SendClosed, ReaderGoes, HeadHandled, kernelVars, ownerVars, sharedVars, logVars
<1>2. /\ k \in InRing /\ Handled = Released
      /\ Handled \in Nat /\ reserved \in Nat /\ Handled < reserved
      /\ \A n \in Known : n \in Nat /\ n <= Handled
  BY <1>1, HeadRecord
<1>3. /\ Handled' = k /\ RxClosed'
      /\ Received' = Received /\ InChannel' = InChannel /\ Known' = Known
  BY <1>1, <1>2 DEF Handled, Released, HeadHandled, RxClosed, Received, InChannel, Known
<1>4. /\ LogTypeOK' /\ Numbered' /\ OneSlotEach' /\ DroppedIsExact' /\ HaltMeansClosed'
      /\ NoGap'
  BY <1>1, <1>3
     DEF LogInv, LogTypeOK, Numbered, SerialOf, OneSlotEach, DroppedIsExact, HaltMeansClosed, NoGap
<1>5. InOrder'
  <2>1. \A n \in Known' : n <= Handled'
    BY <1>2, <1>3
  <2> QED
    BY <1>1, <1>3, <2>1 DEF LogInv, InOrder, Increasing
<1>6. LogInv'
  BY <1>4, <1>5 DEF LogInv
<1>7. InRing = (Handled + 1) .. reserved /\ (InRing = (Handled + 1) .. reserved)'
  BY <1>6, LogFacts, PTL
<1>8. Stream!Discard({k})
  <2>1. k \notin InChannel
    BY <1>2 DEF Known
  <2>2. InRing' = InRing \ {k}
    BY <1>1, <1>2, <1>3, <1>7
  <2>3. (InChannel \cup InRing)' = (InChannel \cup InRing) \ {k}
    BY <1>3, <2>1, <2>2
  <2> QED
    BY <1>1, <1>2, <1>3, <2>3 DEF Stream!Discard
<1>9. {k} \in SUBSET (InChannel \cup InRing)
  BY <1>2
<1> QED
  BY <1>6, <1>8, <1>9 DEF StreamStep, Stream!Next

(* Advancing the consumer position moves every slot and its number.        *)
LEMMA ReleaseStep ==
  ASSUME LogInv, Inv', Release, UNCHANGED logVars
  PROVE  LogInv' /\ StreamStep
<1>1. /\ reader = "release" /\ reader' = "drain"
      /\ UNCHANGED <<chan, dropped, handle, reserved, received, lost>>
  BY DEF Release, ReaderGoes, ownerVars, sharedVars, logVars
<1>2. /\ ring \in Seq(Slot) /\ ring # <<>> /\ Len(ring) \in Nat /\ DOMAIN ring = 1 .. Len(ring)
      /\ reserved \in Nat
  BY <1>1, LogFacts DEF HeadReady
<1>3. /\ Len(ring') = Len(ring) - 1 /\ DOMAIN ring' = 1 .. Len(ring')
      /\ \A i \in DOMAIN ring' : i + 1 \in DOMAIN ring /\ ring'[i] = ring[i + 1]
  BY <1>2, ReleaseSlots
<1>4. Handled' = Handled /\ RxClosed' = RxClosed
  BY <1>1, <1>2, <1>3 DEF Handled, Released, HeadHandled, RxClosed
<1>5. LogTypeOK' /\ HaltMeansClosed'
  BY <1>1, <1>2, <1>3 DEF LogInv, LogTypeOK, HaltMeansClosed
<1>6. Numbered'
  <2> SUFFICES ASSUME NEW i \in DOMAIN ring', ring'[i].owner = Submitted
               PROVE  ring'[i].rec = SerialOf(i)'
    BY DEF Numbered
  <2>1. SerialOf(i)' = SerialOf(i + 1)
    BY <1>1, <1>2, <1>3 DEF SerialOf
  <2> QED
    BY <1>3, <2>1 DEF LogInv, Numbered
<1>7. OneSlotEach'
  <2> SUFFICES ASSUME NEW i \in DOMAIN ring', NEW j \in DOMAIN ring',
                      ring'[i].owner \in Producers, ring'[i].owner = ring'[j].owner
               PROVE  i = j
    BY DEF OneSlotEach
  <2>1. i + 1 = j + 1
    BY <1>3 DEF LogInv, OneSlotEach
  <2> QED
    BY <1>2, <1>3, <2>1
<1> QED
  BY <1>1, <1>4, <1>5, <1>6, <1>7, QuietStep DEF logVars

(* The other steps move no record.                                         *)
LEMMA OtherSteps ==
  ASSUME LogInv, Inv', UNCHANGED logVars,
         \/ NewRejected \/ RecvNone \/ DropStop
         \/ \E isRingBuf \in BOOLEAN, cap \in Capacities : NewOpen(isRingBuf, cap)
         \/ StartReader \/ CheckStop \/ Poll \/ DrainDone \/ SendFull \/ Halt
         \/ UNCHANGED vars
  PROVE  LogInv' /\ StreamStep
<1>1. UNCHANGED <<ring, chan, dropped>>
  BY DEF NewRejected, RecvNone, DropStop, NewOpen, StartReader, CheckStop, Poll, DrainDone,
     SendFull, Halt, kernelVars, sharedVars, ownerVars, vars
<1>2. RxClosed' = RxClosed
  BY DEF NewRejected, RecvNone, DropStop, NewOpen, StartReader, CheckStop, Poll, DrainDone,
     SendFull, Halt, kernelVars, sharedVars, ownerVars, vars, RxClosed
<1>3. handle = "unbuilt" => reader = "none"
  BY DEF LogInv, Inv, NoHandleNoReader
<1>4. HeadHandled' = HeadHandled
  BY <1>3 DEF NewRejected, RecvNone, DropStop, NewOpen, StartReader, CheckStop, Poll, DrainDone,
     SendFull, Halt, ReaderGoes, kernelVars, sharedVars, ownerVars, vars, HeadHandled
<1>5. reader' = "halt" => reader = "halt"
  BY DEF NewRejected, RecvNone, DropStop, NewOpen, StartReader, CheckStop, Poll, DrainDone,
     SendFull, Halt, ReaderGoes, kernelVars, sharedVars, ownerVars, vars
<1>6. Handled' = Handled
  BY <1>1, <1>4 DEF Handled, Released, logVars
<1>7. LogTypeOK' /\ Numbered' /\ OneSlotEach' /\ HaltMeansClosed'
  BY <1>1, <1>2, <1>5
     DEF LogInv, LogTypeOK, Numbered, SerialOf, OneSlotEach, HaltMeansClosed, logVars
<1> QED
  BY <1>1, <1>2, <1>6, <1>7, QuietStep

-----------------------------------------------------------------------------
(* The history restricts RingBuf to as many records as are numbered, and   *)
(* otherwise only watches it.                                              *)
LEMMA LogStepIsStep ==
  ASSUME LogInv, [LogNext]_allVars
  PROVE  [Next]_vars
<1>1. ASSUME NEW p \in Producers, LogReserve(p) PROVE Next
  BY <1>1 DEF LogReserve, Next
<1>2. ASSUME NEW p \in Producers, LogSubmit(p) PROVE Next
  <2>1. PICK i \in DOMAIN ring : Submit(p, SerialOf(i))
    BY <1>2 DEF LogSubmit
  <2>2. SerialOf(i) \in Records
    BY LogFacts, LogAssumption DEF SerialOf, Released, LogInv, LogTypeOK
  <2> QED
    BY <2>1, <2>2 DEF Next
<1>3. CASE LogOwnerStep
  BY <1>3 DEF LogOwnerStep, LogRecv, Next
<1>4. CASE LogReaderStep
  BY <1>4 DEF LogReaderStep, LogCountDropped, ReaderStep, Next
<1>5. CASE UNCHANGED allVars
  BY <1>5 DEF allVars
<1> QED
  BY <1>1, <1>2, <1>3, <1>4, <1>5 DEF LogNext

LEMMA LogInitInv == LogInit => LogInv /\ Stream!Init
<1> SUFFICES ASSUME LogInit PROVE LogInv /\ Stream!Init
  OBVIOUS
<1>1. /\ Inv /\ ring = <<>> /\ chan = <<>> /\ received = <<>> /\ lost = {} /\ reserved = 0
      /\ dropped = 0 /\ reader = "none" /\ handle = "unbuilt"
  BY InitInv DEF LogInit, Init
<1>2. /\ Len(ring) = 0 /\ DOMAIN ring = {} /\ DOMAIN chan = {} /\ DOMAIN received = {}
      /\ chan \in Seq(Records) /\ received \in Seq(Records)
  BY <1>1, EmptySeq
<1>3. InChannel = {} /\ Received = {} /\ Known = {} /\ InRing = {} /\ Handled = 0
  BY <1>1, <1>2 DEF InChannel, Received, Known, InRing, Handled, Released, HeadHandled
<1>4. LogTypeOK /\ Numbered /\ OneSlotEach /\ HaltMeansClosed
  BY <1>1, <1>2, LogAssumption DEF LogTypeOK, Numbered, OneSlotEach, HaltMeansClosed
<1>5. InOrder /\ NoGap
  BY <1>2, <1>3 DEF InOrder, NoGap, Increasing
<1>6. DroppedIsExact
  BY <1>1, FS_EmptySet, RingBufAssumption DEF DroppedIsExact
<1>7. Stream!Init
  BY <1>1, <1>3 DEF Stream!Init, RxClosed
<1> QED
  BY <1>1, <1>4, <1>5, <1>6, <1>7 DEF LogInv

LEMMA LogNextInv ==
  ASSUME LogInv, [LogNext]_allVars
  PROVE  LogInv' /\ StreamStep
<1>1. Inv'
  BY LogStepIsStep, NextInv DEF LogInv
<1>2. ASSUME NEW p \in Producers, LogReserve(p) PROVE LogInv' /\ StreamStep
  BY <1>1, <1>2, ReserveStep
<1>3. ASSUME NEW p \in Producers, LogSubmit(p) PROVE LogInv' /\ StreamStep
  BY <1>1, <1>3, SubmitStep
<1>4. CASE LogOwnerStep
  BY <1>1, <1>4, RecvStep, CloseStep, JoinStep, OtherSteps DEF LogOwnerStep, FinishDrop
<1>5. CASE LogReaderStep
  BY <1>1, <1>5, CountStep, SendStep, ClosedStep, ReleaseStep, OtherSteps DEF LogReaderStep
<1>6. CASE UNCHANGED allVars
  BY <1>1, <1>6, OtherSteps DEF allVars
<1> QED
  BY <1>2, <1>3, <1>4, <1>5, <1>6 DEF LogNext

(* The inductive invariant holds in every reachable state of RingBufLog.   *)
THEOREM LogInvariance == LogSpec => []LogInv
<1>1. LogInit => LogInv
  BY LogInitInv
<1>2. LogInv /\ [LogNext]_allVars => LogInv'
  BY LogNextInv
<1> QED
  BY <1>1, <1>2, PTL DEF LogSpec

(* The owner receives records in the order in which the programs reserved  *)
(* their slots, each at most once, whatever the order of their submits.    *)
THEOREM OrderIsKept == LogSpec => []ReceivedInOrder
<1>1. LogInv => ReceivedInOrder
  BY DEF LogInv, InOrder, Increasing, ReceivedInOrder
<1> QED
  BY <1>1, LogInvariance, PTL

(* Whatever is missing below a received record has been counted before the *)
(* owner could receive it.                                                 *)
THEOREM LossIsKnown == LogSpec => []GapsAreCounted
<1>1. ASSUME LogInv PROVE GapsAreCounted
  <2> SUFFICES ASSUME received # <<>>, NEW k \in 1 .. received[Len(received)]
               PROVE  k \in Received \/ k \in lost
    BY DEF GapsAreCounted
  <2> DEFINE n == received[Len(received)]
  <2>1. Len(received) \in DOMAIN received
    BY <1>1, EmptySeq, LenProperties DEF LogInv, LogTypeOK
  <2>2. n \in Received /\ n \in Nat
    <3>1. n \in Received
      BY <2>1 DEF Received
    <3>2. Received \subseteq Records
      BY <1>1, LogFacts
    <3> HIDE DEF n
    <3> QED
      BY <3>1, <3>2, LogAssumption
  <2>3. k \in Known
    BY <1>1, <2>2 DEF LogInv, NoGap
  <2>4. k \notin InChannel
    BY <1>1, <2>2 DEF LogInv, InOrder
  <2> QED
    BY <2>3, <2>4 DEF Known
<1> QED
  BY <1>1, LogInvariance, PTL

(* dropped() is the number of records lost to a full channel, for every    *)
(* width of the counter.                                                   *)
THEOREM CountIsExact == LogSpec => []DroppedIsExact
<1>1. LogInv => DroppedIsExact
  BY DEF LogInv
<1> QED
  BY <1>1, LogInvariance, PTL

(* Until the handle closes the channel, every record that was reserved is  *)
(* in the ring, buffered, received or counted.                             *)
THEOREM EveryRecordIsSomewhere == LogSpec => []NothingVanishes
<1>1. ASSUME LogInv PROVE NothingVanishes
  <2> SUFFICES ASSUME ~RxClosed, NEW k \in 1 .. reserved
               PROVE  k \in InRing \cup InChannel \cup Received \cup lost
    BY DEF NothingVanishes
  <2>1. reserved \in Nat /\ Handled \in Nat /\ InRing = (Handled + 1) .. reserved
    BY <1>1, LogFacts
  <2>2. CASE k <= Handled
    BY <1>1, <2>1, <2>2 DEF LogInv, NoGap, Known
  <2>3. CASE k > Handled
    BY <2>1, <2>3
  <2> QED
    BY <2>1, <2>2, <2>3
<1> QED
  BY <1>1, LogInvariance, PTL

(* RingBuf, with its ring, its reader thread, its channel and a Drop that  *)
(* closes one before it joins the other, implements the lossy stream.      *)
THEOREM Refinement == LogSpec => ImplementsLossyStream
<1>1. LogInit => Stream!Init
  BY LogInitInv
<1>2. LogInv /\ [LogNext]_allVars => [Stream!Next]_Stream!vars
  BY LogNextInv DEF StreamStep
<1> QED
  BY <1>1, <1>2, LogInvariance, PTL DEF LogSpec, ImplementsLossyStream, Stream!Spec
=============================================================================
