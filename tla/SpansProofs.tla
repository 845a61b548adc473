----------------------------- MODULE SpansProofs -----------------------------
(***************************************************************************)
(* Proofs about Spans, for every number of CPUs, names, levels and losses  *)
(* and any depth of nesting.                                               *)
(*                                                                         *)
(* What user space has on its stack lags behind what the program has open: *)
(* the events in flight lie between them.  The inductive invariant says    *)
(* that there is a history that connects the two: the spans the program    *)
(* had open when it wrote the first event in flight, the second, and so    *)
(* on, up to those it has open now.  One event leads from each of these    *)
(* stacks to the next, except for what was lost in between.                *)
(***************************************************************************)
EXTENDS Spans, WellFoundedInduction, SequenceTheorems, TLAPS

(* What a program may have open: no two spans are the same.                *)
Stacks == {q \in Seq(ProgramSpan) : \A a, b \in DOMAIN q : q[a].id = q[b].id => a = b}

Innermost(q) == IF q = <<>> THEN NoSpan ELSE q[Len(q)].id

(* The definitions below take what is missing as a parameter, so that they *)
(* can be applied to this state and to the next.                           *)
Lost == [starts |-> missingStarts, ends |-> missingEnds]

NoEndLost(lost, c) == c \notin lost.ends

NothingLost(lost, c) == c \notin lost.starts /\ NoEndLost(lost, c)

(* Spans user space will be told of, and of their end, too.                *)
Known(lost, c, span) == CompiledIn(span.level) /\ NoEndLost(lost, c)

SameSpan(entry, span) == entry.id = span.id /\ entry.name = span.name

(* What a stack may become without user space being told: known spans stay *)
(* where they are, no start missing means that spans only go, and if no    *)
(* end is missing either nothing changes.                                  *)
Keeps(lost, c, before, after) ==
  \A a, b \in DOMAIN before :
    Known(lost, c, before[a]) /\ Known(lost, c, before[b]) =>
      \E i, j \in DOMAIN after :
        after[i] = before[a] /\ after[j] = before[b] /\ (a < b => i < j)

OnlyShrinks(before, after) ==
  Len(after) <= Len(before) /\ \A a \in DOMAIN after : after[a] = before[a]

Becomes(lost, c, before, after) ==
  /\ Keeps(lost, c, before, after)
  /\ c \notin lost.starts => OnlyShrinks(before, after)
  /\ NothingLost(lost, c) => after = before

(* The spans open on c after an event has been written, ...                *)
After(c, q, event) ==
  IF event.cpu # c \/ event.kind = "Message" THEN q
  ELSE IF event.kind = "StartSpan"
  THEN Append(q, [name |-> event.content, level |-> event.level, id |-> event.id])
  ELSE SubSeq(q, 1, (CHOOSE a \in DOMAIN q : q[a].id = event.id) - 1)

(* ... which a program with these spans open may have written.             *)
Fits(lost, c, q, event) ==
  event.cpu = c =>
    /\ event.kind = "Message" /\ c \notin lost.starts => event.id = Innermost(q)
    /\ event.kind = "StartSpan" =>
         /\ event.content \in Names /\ event.level \in Levels /\ CompiledIn(event.level)
         /\ event.id \in Ids \ IdsOf(q)
    /\ event.kind = "EndSpan" =>
         \E a \in DOMAIN q :
           /\ q[a].id = event.id /\ q[a].name = event.content
           /\ \A b \in DOMAIN q : q[b].name = event.content => b <= a

(* How the stack of user space relates to the spans the program had open   *)
(* before the events in flight: unless an end is lost each entry is one of *)
(* them; unless a start is missing each of them has an entry; and the two  *)
(* are equal on a CPU that is undisturbed.                                 *)
IsOpen(lost, c, stack, q) ==
  NoEndLost(lost, c) =>
    \A i, j \in DOMAIN stack :
      \E a, b \in DOMAIN q :
        /\ SameSpan(stack[i], q[a]) /\ CompiledIn(q[a].level)
        /\ SameSpan(stack[j], q[b]) /\ CompiledIn(q[b].level)
        /\ i < j => a < b

HasEntry(stack, q) ==
  \E place \in [DOMAIN q -> DOMAIN stack] :
    \A a, b \in DOMAIN q :
      SameSpan(stack[place[a]], q[a]) /\ (a < b => place[a] < place[b])

SameNesting(stack, q) ==
  /\ Len(stack) = Len(q)
  /\ \A i \in DOMAIN q :
       SameSpan(stack[i], q[i])
         /\ stack[i].parent = IF i = 1 THEN NoSpan ELSE q[i - 1].id

Mirrors(lost, c, stack, q) ==
  /\ IsOpen(lost, c, stack, q)
  /\ c \notin lost.starts => HasEntry(stack, q)
  /\ NothingLost(lost, c) => SameNesting(stack, q)

(* was[k] are the spans open on c when the k-th event in flight was        *)
(* written, and after the last event those open now.                       *)
Explains(was, lost, c, stack, inFlight, open) ==
  /\ was \in [1 .. Len(inFlight) + 1 -> Stacks]
  /\ Mirrors(lost, c, stack, was[1])
  /\ \A k \in 1 .. Len(inFlight) :
       /\ Fits(lost, c, was[k], inFlight[k])
       /\ Becomes(lost, c, After(c, was[k], inFlight[k]), was[k + 1])
  /\ was[Len(inFlight) + 1] = open

HasHistory(c) == \E was : Explains(was, Lost, c, StackOf(c), events, prog[c])

(* Spans that are not compiled in count as missing starts.                 *)
AllCompiledIn(c) ==
  c \in missingStarts \/ \A a \in DOMAIN prog[c] : CompiledIn(prog[c][a].level)

Inv ==
  /\ TypeOK
  /\ \A c \in Cpus : AllCompiledIn(c)
  /\ \A c \in Cpus : HasHistory(c)

-----------------------------------------------------------------------------
(***************************************************************************)
(* Numbers and sequences.                                                  *)
(***************************************************************************)

(* A set of natural numbers has a smallest element, ...                    *)
LEMMA SmallestOf ==
  ASSUME NEW S, S \subseteq Nat, S # {}
  PROVE  \E x \in S : \A y \in S : x <= y
<1>1. PICK x \in S : \A y \in S : ~(<<y, x>> \in OpToRel(<, Nat))
  BY NatLessThanWellFounded, WFMin
<1>2. ASSUME NEW y \in S PROVE x <= y
  <2>1. x \in Nat /\ y \in Nat
    OBVIOUS
  <2>2. y < x => <<y, x>> \in OpToRel(<, Nat)
    BY <2>1 DEF OpToRel
  <2>3. ~(y < x)
    BY <1>1, <2>2, Zenon
  <2> QED
    BY <2>1, <2>3
<1> QED
  BY <1>2

(* ... and a largest one if it is bounded.                                 *)
LEMMA LargestOf ==
  ASSUME NEW n \in Nat, NEW S, S \subseteq 0 .. n, S # {}
  PROVE  \E x \in S : \A y \in S : y <= x
<1> DEFINE T == {n - x : x \in S}
<1>1. T \subseteq Nat /\ T # {}
  <2>1. PICK x : x \in S
    OBVIOUS
  <2>2. n - x \in T
    BY <2>1
  <2>3. \A y \in S : n - y \in Nat
    OBVIOUS
  <2> QED
    BY <2>2, <2>3
<1>2. PICK t \in T : \A u \in T : t <= u
  BY <1>1, SmallestOf
<1>3. PICK x \in S : t = n - x
  OBVIOUS
<1>4. ASSUME NEW y \in S PROVE y <= x
  BY <1>2, <1>3
<1> QED
  BY <1>4

LEMMA FrontOf ==
  ASSUME NEW T, NEW q \in Seq(T), NEW n \in 0 .. Len(q)
  PROVE  /\ SubSeq(q, 1, n) \in Seq(T) /\ Len(SubSeq(q, 1, n)) = n
         /\ DOMAIN SubSeq(q, 1, n) = 1 .. n
         /\ \A i \in 1 .. n : SubSeq(q, 1, n)[i] = q[i]
<1>1. Len(q) \in Nat /\ \A i \in 1 .. n : q[i] \in T
  BY LenProperties, ElementOfSeq
<1>2. /\ SubSeq(q, 1, n) \in Seq(T) /\ Len(SubSeq(q, 1, n)) = n
      /\ \A i \in 1 .. n : SubSeq(q, 1, n)[i] = q[i]
  <2>1. /\ SubSeq(q, 1, n) \in Seq(T)
        /\ Len(SubSeq(q, 1, n)) = IF 1 <= n THEN n - 1 + 1 ELSE 0
        /\ \A i \in 1 .. n - 1 + 1 : SubSeq(q, 1, n)[i] = q[1 + i - 1]
    BY <1>1, SubSeqProperties
  <2> QED
    BY <1>1, <2>1
<1> QED
  BY <1>2, LenProperties

LEMMA LongerBy ==
  ASSUME NEW T, NEW q \in Seq(T), NEW e \in T
  PROVE  /\ Append(q, e) \in Seq(T) /\ Len(Append(q, e)) = Len(q) + 1
         /\ DOMAIN Append(q, e) = 1 .. Len(q) + 1 /\ DOMAIN q = 1 .. Len(q)
         /\ Len(q) \in Nat
         /\ \A i \in 1 .. Len(q) : Append(q, e)[i] = q[i]
         /\ Append(q, e)[Len(q) + 1] = e
<1>1. /\ Append(q, e) \in Seq(T) /\ Len(Append(q, e)) = Len(q) + 1
      /\ \A i \in 1 .. Len(q) : Append(q, e)[i] = q[i]
      /\ Append(q, e)[Len(q) + 1] = e
  BY AppendProperties
<1> QED
  BY <1>1, LenProperties

(* A sequence without one of its elements.                                 *)
LEMMA Without ==
  ASSUME NEW T, NEW s \in Seq(T), NEW i \in 1 .. Len(s)
  PROVE  LET r == SubSeq(s, 1, i - 1) \o SubSeq(s, i + 1, Len(s)) IN
         /\ r \in Seq(T) /\ Len(r) = Len(s) - 1
         /\ \A k \in 1 .. Len(r) : r[k] = IF k < i THEN s[k] ELSE s[k + 1]
<1>1. Len(s) \in Nat /\ \A k \in 1 .. Len(s) : s[k] \in T
  BY LenProperties, ElementOfSeq
<1>a. PICK a : a = SubSeq(s, 1, i - 1)
  OBVIOUS
<1>b. PICK b : b = SubSeq(s, i + 1, Len(s))
  OBVIOUS
<1>2. a \in Seq(T) /\ Len(a) = i - 1 /\ \A k \in 1 .. i - 1 : a[k] = s[k]
  BY <1>1, <1>a, FrontOf
<1>3. b \in Seq(T) /\ Len(b) = Len(s) - i /\ \A k \in 1 .. Len(s) - i : b[k] = s[i + k]
  <2>1. /\ b \in Seq(T)
        /\ Len(b) = IF i + 1 <= Len(s) THEN Len(s) - (i + 1) + 1 ELSE 0
        /\ \A k \in 1 .. Len(s) - (i + 1) + 1 : b[k] = s[i + 1 + k - 1]
    BY <1>1, <1>b, SubSeqProperties
  <2> QED
    BY <1>1, <2>1
<1>4. /\ a \o b \in Seq(T) /\ Len(a \o b) = Len(a) + Len(b)
      /\ \A k \in 1 .. Len(a) + Len(b) :
           (a \o b)[k] = IF k <= Len(a) THEN a[k] ELSE b[k - Len(a)]
  BY <1>2, <1>3, ConcatProperties
<1>5. Len(a \o b) = Len(s) - 1
  BY <1>1, <1>2, <1>3, <1>4
<1>6. ASSUME NEW k \in 1 .. Len(s) - 1
      PROVE  (a \o b)[k] = IF k < i THEN s[k] ELSE s[k + 1]
  <2>1. CASE k < i
    BY <1>1, <1>2, <1>3, <1>4, <2>1
  <2>2. CASE ~(k < i)
    <3>1. k - (i - 1) \in 1 .. Len(s) - i /\ ~(k <= Len(a)) /\ k \in 1 .. Len(a) + Len(b)
      BY <1>1, <1>2, <1>3, <2>2
    <3>2. (a \o b)[k] = b[k - Len(a)]
      BY <1>4, <3>1
    <3>3. b[k - (i - 1)] = s[i + (k - (i - 1))]
      BY <1>3, <3>1
    <3>4. k - Len(a) = k - (i - 1) /\ i + (k - (i - 1)) = k + 1
      BY <1>1, <1>2
    <3> QED
      BY <2>2, <3>2, <3>3, <3>4
  <2> QED
    BY <2>1, <2>2
<1> QED
  BY <1>a, <1>b, <1>4, <1>5, <1>6

(* What the loop of EndSpan leaves: what is below the innermost span of    *)
(* that name, and nothing if there is none.                                *)
LEMMA PopThroughCuts ==
  ASSUME NEW stack \in Seq(OpenSpan), NEW name
  PROVE  \/ /\ PopThrough(stack, name) = <<>>
            /\ \A i \in 1 .. Len(stack) : stack[i].name # name
         \/ \E j \in 1 .. Len(stack) :
              /\ stack[j].name = name
              /\ \A i \in 1 .. Len(stack) : stack[i].name = name => i <= j
              /\ PopThrough(stack, name) = SubSeq(stack, 1, j - 1)
<1>1. Len(stack) \in Nat /\ DOMAIN stack = 1 .. Len(stack)
  BY LenProperties
<1>m. PICK matches : matches = {i \in DOMAIN stack : stack[i].name = name}
  OBVIOUS
<1>2. CASE matches = {}
  BY <1>1, <1>2, <1>m DEF PopThrough
<1>3. CASE matches # {}
  <2>1. \E i \in matches : \A j \in matches : j <= i
    <3>1. matches \subseteq 0 .. Len(stack)
      BY <1>1, <1>m
    <3> QED
      BY <1>1, <1>3, <3>1, LargestOf
  <2>j. PICK j : j = CHOOSE i \in matches : \A k \in matches : k <= i
    OBVIOUS
  <2>2. j \in matches /\ \A k \in matches : k <= j
    BY <2>1, <2>j
  <2>3. PopThrough(stack, name) = SubSeq(stack, 1, j - 1)
    BY <1>3, <1>m, <2>j DEF PopThrough
  <2> QED
    BY <1>1, <1>m, <2>2, <2>3
<1> QED
  BY <1>2, <1>3

(* A span gets an identity nothing has any more.                           *)
LEMMA FreshIsFresh ==
  ASSUME SpansAssumption, ~(Ids \subseteq IdsInUse)
  PROVE  FreshId \in Ids \ IdsInUse
<1>1. \E id \in Ids \ IdsInUse : \A other \in Ids \ IdsInUse : id <= other
  BY SmallestOf DEF SpansAssumption
<1> QED
  BY <1>1 DEF FreshId
-----------------------------------------------------------------------------
(***************************************************************************)
(* Stacks of open spans.                                                   *)
(***************************************************************************)
LEMMA OfStack ==
  ASSUME NEW q \in Stacks
  PROVE  /\ q \in Seq(ProgramSpan) /\ Len(q) \in Nat /\ DOMAIN q = 1 .. Len(q)
         /\ \A a \in 1 .. Len(q) : q[a] \in ProgramSpan
         /\ \A a, b \in 1 .. Len(q) : q[a].id = q[b].id => a = b
         /\ q # <<>> <=> Len(q) # 0
<1>1. q \in Seq(ProgramSpan)
  BY DEF Stacks
<1>2. Len(q) \in Nat /\ DOMAIN q = 1 .. Len(q)
  BY <1>1, LenProperties
<1>3. q # <<>> <=> Len(q) # 0
  BY <1>1, EmptySeq
<1> QED
  BY <1>1, <1>2, <1>3, ElementOfSeq DEF Stacks

(* A span more, or without the spans from one of them inwards, it is still *)
(* a stack.                                                                *)
LEMMA PushedStack ==
  ASSUME NEW q \in Stacks, NEW span \in ProgramSpan, span.id \notin IdsOf(q)
  PROVE  /\ Append(q, span) \in Stacks /\ Len(Append(q, span)) = Len(q) + 1
         /\ \A a \in 1 .. Len(q) : Append(q, span)[a] = q[a]
         /\ Append(q, span)[Len(q) + 1] = span
<1>1. q \in Seq(ProgramSpan) /\ \A a, b \in 1 .. Len(q) : q[a].id = q[b].id => a = b
  BY OfStack
<1>2. /\ Append(q, span) \in Seq(ProgramSpan) /\ Len(Append(q, span)) = Len(q) + 1
      /\ DOMAIN Append(q, span) = 1 .. Len(q) + 1 /\ DOMAIN q = 1 .. Len(q)
      /\ Len(q) \in Nat
      /\ \A a \in 1 .. Len(q) : Append(q, span)[a] = q[a]
      /\ Append(q, span)[Len(q) + 1] = span
  BY <1>1, LongerBy
<1>3. \A a \in 1 .. Len(q) : q[a].id # span.id
  BY <1>2 DEF IdsOf
<1>4. ASSUME NEW a \in 1 .. Len(q) + 1, NEW b \in 1 .. Len(q) + 1,
             Append(q, span)[a].id = Append(q, span)[b].id
      PROVE  a = b
  <2>1. a \in 1 .. Len(q) \/ a = Len(q) + 1
    BY <1>2
  <2>2. b \in 1 .. Len(q) \/ b = Len(q) + 1
    BY <1>2
  <2> QED
    BY <1>1, <1>2, <1>3, <1>4, <2>1, <2>2
<1> QED
  BY <1>2, <1>4 DEF Stacks

LEMMA CutStack ==
  ASSUME NEW q \in Stacks, NEW m \in 1 .. Len(q)
  PROVE  /\ SubSeq(q, 1, m - 1) \in Stacks
         /\ Len(SubSeq(q, 1, m - 1)) = m - 1 /\ DOMAIN SubSeq(q, 1, m - 1) = 1 .. m - 1
         /\ \A a \in 1 .. m - 1 : SubSeq(q, 1, m - 1)[a] = q[a] /\ a \in 1 .. Len(q)
<1>l. PICK l : l = m - 1
  OBVIOUS
<1>r. PICK r : r = SubSeq(q, 1, l)
  OBVIOUS
<1>1. /\ q \in Seq(ProgramSpan) /\ Len(q) \in Nat
      /\ \A a, b \in 1 .. Len(q) : q[a].id = q[b].id => a = b
  BY OfStack
<1>2. l \in 0 .. Len(q)
  BY <1>1, <1>l
<1>3. \A a \in 1 .. l : a \in 1 .. Len(q)
  BY <1>1, <1>2
<1>4. /\ r \in Seq(ProgramSpan) /\ Len(r) = l /\ DOMAIN r = 1 .. l
      /\ \A a \in 1 .. l : r[a] = q[a]
  BY <1>1, <1>2, <1>r, FrontOf
<1>5. \A a, b \in DOMAIN r : r[a].id = r[b].id => a = b
  BY <1>1, <1>3, <1>4
<1>6. r \in Stacks
  BY <1>4, <1>5 DEF Stacks
<1> QED
  BY <1>3, <1>4, <1>6, <1>l, <1>r

(* An end is of the innermost span of its name, and leaves what is outside *)
(* of that.                                                                *)
Ends(c, q, e, m) ==
  /\ q[m].id = e.id /\ q[m].name = e.content
  /\ \A a \in 1 .. Len(q) : q[a].name = e.content => a <= m
  /\ After(c, q, e) = SubSeq(q, 1, m - 1)

LEMMA AfterEnd ==
  ASSUME NEW lost, NEW c, NEW q \in Stacks, NEW e, Fits(lost, c, q, e),
         e.cpu = c /\ e.kind = "EndSpan"
  PROVE  \E m \in 1 .. Len(q) : Ends(c, q, e, m)
<1>1. /\ DOMAIN q = 1 .. Len(q)
      /\ \A a, b \in 1 .. Len(q) : q[a].id = q[b].id => a = b
  BY OfStack
<1>2. PICK m \in 1 .. Len(q) :
        /\ q[m].id = e.id /\ q[m].name = e.content
        /\ \A a \in 1 .. Len(q) : q[a].name = e.content => a <= m
  BY <1>1 DEF Fits
<1>3. (CHOOSE a \in DOMAIN q : q[a].id = e.id) = m
  BY <1>1, <1>2
<1>4. After(c, q, e) = SubSeq(q, 1, m - 1)
  BY <1>3 DEF After
<1> QED
  BY <1>2, <1>4 DEF Ends

LEMMA AfterIsStack ==
  ASSUME NEW lost, NEW c, NEW q \in Stacks, NEW e \in Event, Fits(lost, c, q, e)
  PROVE  After(c, q, e) \in Stacks
<1>1. e.kind \in Kinds
  BY DEF Event
<1>2. CASE e.cpu # c \/ e.kind = "Message"
  BY <1>2 DEF After
<1>3. CASE e.cpu = c /\ e.kind = "StartSpan"
  <2>1. /\ [name |-> e.content, level |-> e.level, id |-> e.id] \in ProgramSpan
        /\ e.id \notin IdsOf(q)
    BY <1>3 DEF Fits, ProgramSpan
  <2> QED
    BY <1>3, <2>1, PushedStack DEF After
<1>4. CASE e.cpu = c /\ e.kind = "EndSpan"
  <2>1. PICK m \in 1 .. Len(q) : Ends(c, q, e, m)
    BY <1>4, AfterEnd
  <2> QED
    BY <2>1, CutStack DEF Ends
<1> QED
  BY <1>1, <1>2, <1>3, <1>4 DEF Kinds

LEMMA BecomesItself ==
  ASSUME NEW lost, NEW c, NEW q \in Stacks
  PROVE  Becomes(lost, c, q, q)
<1>1. Len(q) \in Nat
  BY OfStack
<1>2. Keeps(lost, c, q, q)
  BY DEF Keeps
<1> QED
  BY <1>1, <1>2 DEF Becomes, OnlyShrinks

LEMMA BecomesFurther ==
  ASSUME NEW lost, NEW c, NEW p \in Stacks, NEW q \in Stacks, NEW r \in Stacks,
         Becomes(lost, c, p, q), Becomes(lost, c, q, r)
  PROVE  Becomes(lost, c, p, r)
<1>1. Keeps(lost, c, p, r)
  <2>1. SUFFICES ASSUME NEW a \in DOMAIN p, NEW b \in DOMAIN p,
                        Known(lost, c, p[a]), Known(lost, c, p[b])
                 PROVE  \E i, j \in DOMAIN r : r[i] = p[a] /\ r[j] = p[b] /\ (a < b => i < j)
    BY DEF Keeps
  <2>2. PICK k \in DOMAIN q, l \in DOMAIN q : q[k] = p[a] /\ q[l] = p[b] /\ (a < b => k < l)
    BY <2>1 DEF Becomes, Keeps
  <2>3. PICK i \in DOMAIN r, j \in DOMAIN r : r[i] = q[k] /\ r[j] = q[l] /\ (k < l => i < j)
    BY <2>1, <2>2 DEF Becomes, Keeps
  <2> QED
    BY <2>2, <2>3
<1>2. ASSUME c \notin lost.starts PROVE OnlyShrinks(p, r)
  <2>1. OnlyShrinks(p, q) /\ OnlyShrinks(q, r)
    BY <1>2 DEF Becomes
  <2>2. /\ Len(p) \in Nat /\ Len(q) \in Nat /\ Len(r) \in Nat
        /\ DOMAIN q = 1 .. Len(q) /\ DOMAIN r = 1 .. Len(r)
    BY OfStack
  <2> QED
    BY <2>1, <2>2 DEF OnlyShrinks
<1> QED
  BY <1>1, <1>2 DEF Becomes

(* The more is missing, the less is promised.                              *)
LEMMA LostStill ==
  ASSUME NEW lost, NEW more, lost.starts \subseteq more.starts, lost.ends \subseteq more.ends,
         NEW c
  PROVE  /\ \A p, q : Becomes(lost, c, p, q) => Becomes(more, c, p, q)
         /\ \A q, e : Fits(lost, c, q, e) => Fits(more, c, q, e)
         /\ \A stack, q : Mirrors(lost, c, stack, q) => Mirrors(more, c, stack, q)
<1>1. /\ NoEndLost(more, c) => NoEndLost(lost, c)
      /\ c \notin more.starts => c \notin lost.starts
  BY DEF NoEndLost
<1>2. NothingLost(more, c) => NothingLost(lost, c)
  BY <1>1 DEF NothingLost
<1>3. ASSUME NEW p, NEW q, Becomes(lost, c, p, q) PROVE Becomes(more, c, p, q)
  BY <1>1, <1>2, <1>3 DEF Becomes, Keeps, Known
<1>4. ASSUME NEW q, NEW e, Fits(lost, c, q, e) PROVE Fits(more, c, q, e)
  BY <1>1, <1>4 DEF Fits
<1>5. ASSUME NEW stack, NEW q, Mirrors(lost, c, stack, q) PROVE Mirrors(more, c, stack, q)
  BY <1>1, <1>2, <1>5 DEF Mirrors, IsOpen
<1> QED
  BY <1>3, <1>4, <1>5

-----------------------------------------------------------------------------
(***************************************************************************)
(* The stack of user space.                                                *)
(***************************************************************************)

(* An entry stays explained whatever the program does meanwhile.           *)
LEMMA MirrorsFurther ==
  ASSUME NEW lost, NEW c, NEW stack \in Seq(OpenSpan), NEW q \in Stacks, NEW r \in Stacks,
         Mirrors(lost, c, stack, q), Becomes(lost, c, q, r)
  PROVE  Mirrors(lost, c, stack, r)
<1>1. IsOpen(lost, c, stack, r)
  <2>1. SUFFICES ASSUME NEW i \in DOMAIN stack, NEW j \in DOMAIN stack,
                        NoEndLost(lost, c)
                 PROVE  \E a, b \in DOMAIN r :
                          /\ SameSpan(stack[i], r[a]) /\ CompiledIn(r[a].level)
                          /\ SameSpan(stack[j], r[b]) /\ CompiledIn(r[b].level)
                          /\ i < j => a < b
    BY DEF IsOpen
  <2>2. PICK k \in DOMAIN q, l \in DOMAIN q :
          /\ SameSpan(stack[i], q[k]) /\ CompiledIn(q[k].level)
          /\ SameSpan(stack[j], q[l]) /\ CompiledIn(q[l].level)
          /\ i < j => k < l
    BY <2>1 DEF Mirrors, IsOpen
  <2>3. Known(lost, c, q[k]) /\ Known(lost, c, q[l])
    BY <2>1, <2>2 DEF Known, SameSpan
  <2>4. PICK a \in DOMAIN r, b \in DOMAIN r : r[a] = q[k] /\ r[b] = q[l] /\ (k < l => a < b)
    BY <2>3 DEF Becomes, Keeps
  <2> QED
    BY <2>2, <2>4
<1>2. ASSUME c \notin lost.starts PROVE HasEntry(stack, r)
  <2>1. HasEntry(stack, q) /\ OnlyShrinks(q, r)
    BY <1>2 DEF Mirrors, Becomes
  <2>2. DOMAIN r \subseteq DOMAIN q /\ \A a \in DOMAIN r : r[a] = q[a]
    <3>1. Len(q) \in Nat /\ DOMAIN q = 1 .. Len(q) /\ Len(r) \in Nat /\ DOMAIN r = 1 .. Len(r)
      BY OfStack
    <3> QED
      BY <2>1, <3>1 DEF OnlyShrinks
  <2>3. PICK place \in [DOMAIN q -> DOMAIN stack] :
          \A a, b \in DOMAIN q :
            SameSpan(stack[place[a]], q[a]) /\ (a < b => place[a] < place[b])
    BY <2>1 DEF HasEntry
  <2>p. PICK kept : kept = [a \in DOMAIN r |-> place[a]]
    OBVIOUS
  <2>4. kept \in [DOMAIN r -> DOMAIN stack] /\ \A a \in DOMAIN r : kept[a] = place[a]
    BY <2>2, <2>p
  <2>5. \A a, b \in DOMAIN r :
          SameSpan(stack[kept[a]], r[a]) /\ (a < b => kept[a] < kept[b])
    BY <2>2, <2>3, <2>4
  <2> QED
    BY <2>4, <2>5 DEF HasEntry
<1>3. ASSUME NothingLost(lost, c) PROVE SameNesting(stack, r)
  BY <1>3 DEF Mirrors, Becomes
<1> QED
  BY <1>1, <1>2, <1>3 DEF Mirrors

(* What a message finds innermost on an undisturbed CPU.                   *)
LEMMA BackIsInnermost ==
  ASSUME NEW stack \in Seq(OpenSpan), NEW q \in Stacks, SameNesting(stack, q)
  PROVE  Back(stack) = Innermost(q)
<1>1. /\ Len(stack) = Len(q) /\ Len(q) \in Nat /\ DOMAIN q = 1 .. Len(q)
      /\ \A i \in DOMAIN q : stack[i].id = q[i].id
  BY OfStack DEF SameNesting, SameSpan
<1>2. stack = <<>> <=> Len(stack) = 0
  BY EmptySeq
<1>3. q = <<>> <=> Len(q) = 0
  BY OfStack
<1>4. CASE Len(q) = 0
  BY <1>1, <1>2, <1>3, <1>4 DEF Back, Innermost
<1>5. CASE Len(q) # 0
  BY <1>1, <1>2, <1>3, <1>5 DEF Back, Innermost
<1> QED
  BY <1>4, <1>5

(* A span that is started is pushed on both sides, ...                     *)
LEMMA StartMirrors ==
  ASSUME NEW lost, NEW c, NEW stack \in Seq(OpenSpan), NEW q \in Stacks,
         Mirrors(lost, c, stack, q),
         NEW span \in ProgramSpan, span.id \notin IdsOf(q), CompiledIn(span.level)
  PROVE  Mirrors(lost, c,
                 Append(stack, [name |-> span.name, id |-> span.id, parent |-> Back(stack)]),
                 Append(q, span))
<1>e. PICK entry : entry = [name |-> span.name, id |-> span.id, parent |-> Back(stack)]
  OBVIOUS
<1>s. PICK pushed : pushed = Append(stack, entry)
  OBVIOUS
<1>q. PICK r : r = Append(q, span)
  OBVIOUS
<1>1. Len(stack) \in Nat /\ DOMAIN stack = 1 .. Len(stack)
  BY LenProperties
<1>2. /\ Len(q) \in Nat /\ DOMAIN q = 1 .. Len(q)
      /\ Len(r) = Len(q) + 1 /\ DOMAIN r = 1 .. Len(q) + 1
      /\ \A a \in 1 .. Len(q) : r[a] = q[a]
      /\ r[Len(q) + 1] = span /\ r \in Stacks
  BY <1>q, OfStack, PushedStack
<1>3. /\ entry \in OpenSpan /\ SameSpan(entry, span) /\ entry.parent = Back(stack)
  <2>1. Back(stack) \in Ids \cup {NoSpan}
    <3>1. \A i \in 1 .. Len(stack) : stack[i] \in OpenSpan
      BY ElementOfSeq
    <3>2. stack # <<>> => Len(stack) \in 1 .. Len(stack)
      BY <1>1, EmptySeq
    <3> QED
      BY <3>1, <3>2 DEF Back, OpenSpan
  <2> QED
    BY <1>e, <2>1 DEF OpenSpan, ProgramSpan, SameSpan
<1>4. /\ Len(pushed) = Len(stack) + 1 /\ DOMAIN pushed = 1 .. Len(stack) + 1
      /\ \A i \in 1 .. Len(stack) : pushed[i] = stack[i]
      /\ pushed[Len(stack) + 1] = entry
  BY <1>3, <1>s, LongerBy
<1>5. IsOpen(lost, c, pushed, r)
  <2>1. SUFFICES ASSUME NEW i \in DOMAIN pushed, NEW j \in DOMAIN pushed,
                        NoEndLost(lost, c)
                 PROVE  \E a, b \in DOMAIN r :
                          /\ SameSpan(pushed[i], r[a]) /\ CompiledIn(r[a].level)
                          /\ SameSpan(pushed[j], r[b]) /\ CompiledIn(r[b].level)
                          /\ i < j => a < b
    BY DEF IsOpen
  <2>2. /\ i \in 1 .. Len(stack) \/ i = Len(stack) + 1
        /\ j \in 1 .. Len(stack) \/ j = Len(stack) + 1
    BY <1>1, <1>4
  <2>3. \A k, l \in 1 .. Len(stack) :
          \E a, b \in 1 .. Len(q) :
            /\ SameSpan(stack[k], q[a]) /\ CompiledIn(q[a].level)
            /\ SameSpan(stack[l], q[b]) /\ CompiledIn(q[b].level)
            /\ k < l => a < b
    BY <1>1, <1>2, <2>1 DEF Mirrors, IsOpen
  <2>4. 1 .. Len(q) \subseteq DOMAIN r /\ Len(q) + 1 \in DOMAIN r
    BY <1>2
  <2>5. CASE i \in 1 .. Len(stack) /\ j \in 1 .. Len(stack)
    <3>1. PICK a \in 1 .. Len(q), b \in 1 .. Len(q) :
            /\ SameSpan(stack[i], q[a]) /\ CompiledIn(q[a].level)
            /\ SameSpan(stack[j], q[b]) /\ CompiledIn(q[b].level)
            /\ i < j => a < b
      BY <1>4, <2>1, <2>3, <2>5
    <3> QED
      BY <1>2, <1>4, <2>4, <2>5, <3>1
  <2>6. CASE i \in 1 .. Len(stack) /\ j = Len(stack) + 1
    <3>1. PICK a \in 1 .. Len(q) : SameSpan(stack[i], q[a]) /\ CompiledIn(q[a].level)
      BY <1>4, <2>1, <2>3, <2>6
    <3>2. r[a] = q[a] /\ a < Len(q) + 1 /\ a \in DOMAIN r
      BY <1>2, <2>4
    <3> QED
      BY <1>2, <1>3, <1>4, <2>4, <2>6, <3>1, <3>2
  <2>7. CASE i = Len(stack) + 1 /\ j \in 1 .. Len(stack)
    <3>1. PICK b \in 1 .. Len(q) : SameSpan(stack[j], q[b]) /\ CompiledIn(q[b].level)
      BY <1>4, <2>1, <2>3, <2>7
    <3>2. r[b] = q[b] /\ b \in DOMAIN r /\ ~(i < j)
      BY <1>1, <1>2, <2>4, <2>7
    <3> QED
      BY <1>2, <1>3, <1>4, <2>4, <2>7, <3>1, <3>2
  <2>8. CASE i = Len(stack) + 1 /\ j = Len(stack) + 1
    <3>1. ~(i < j)
      BY <1>1, <2>8
    <3> QED
      BY <1>2, <1>3, <1>4, <2>4, <2>8, <3>1
  <2> QED
    BY <2>2, <2>5, <2>6, <2>7, <2>8
<1>6. ASSUME c \notin lost.starts PROVE HasEntry(pushed, r)
  <2>1. PICK place \in [DOMAIN q -> DOMAIN stack] :
          \A a, b \in DOMAIN q :
            SameSpan(stack[place[a]], q[a]) /\ (a < b => place[a] < place[b])
    BY <1>6 DEF Mirrors, HasEntry
  <2>p. PICK next : next = [a \in DOMAIN r |-> IF a \in DOMAIN q THEN place[a]
                                               ELSE Len(stack) + 1]
    OBVIOUS
  <2>2. /\ \A a \in 1 .. Len(q) : next[a] = place[a] /\ place[a] \in 1 .. Len(stack)
        /\ next[Len(q) + 1] = Len(stack) + 1
    BY <1>1, <1>2, <2>1, <2>p
  <2>3. next \in [DOMAIN r -> DOMAIN pushed]
    BY <1>1, <1>2, <1>4, <2>1, <2>p
  <2>4. ASSUME NEW a \in DOMAIN r, NEW b \in DOMAIN r
        PROVE  SameSpan(pushed[next[a]], r[a]) /\ (a < b => next[a] < next[b])
    <3>1. a \in 1 .. Len(q) \/ a = Len(q) + 1
      BY <1>2
    <3>2. SameSpan(pushed[next[a]], r[a])
      BY <1>2, <1>3, <1>4, <2>1, <2>2, <3>1
    <3>3. ASSUME a < b PROVE next[a] < next[b]
      <4>1. a \in 1 .. Len(q) /\ (b \in 1 .. Len(q) \/ b = Len(q) + 1)
        BY <1>2, <3>3
      <4> QED
        BY <1>1, <1>2, <2>1, <2>2, <3>3, <4>1
    <3> QED
      BY <3>2, <3>3
  <2> QED
    BY <2>3, <2>4 DEF HasEntry
<1>7. ASSUME NothingLost(lost, c) PROVE SameNesting(pushed, r)
  <2>1. SameNesting(stack, q)
    BY <1>7 DEF Mirrors
  <2>2. Back(stack) = Innermost(q)
    BY <2>1, BackIsInnermost
  <2>3. Len(stack) = Len(q)
    BY <2>1 DEF SameNesting
  <2>4. Innermost(q) = IF Len(q) + 1 = 1 THEN NoSpan ELSE r[Len(q) + 1 - 1].id
    BY <1>2, OfStack DEF Innermost
  <2>5. ASSUME NEW i \in 1 .. Len(q) + 1
        PROVE  /\ SameSpan(pushed[i], r[i])
               /\ pushed[i].parent = IF i = 1 THEN NoSpan ELSE r[i - 1].id
    <3>1. CASE i \in 1 .. Len(q)
      <4>1. i # 1 => i - 1 \in 1 .. Len(q)
        BY <1>2, <3>1
      <4> QED
        BY <1>2, <1>4, <2>1, <2>3, <3>1, <4>1 DEF SameNesting
    <3>2. CASE i = Len(q) + 1
      BY <1>2, <1>3, <1>4, <2>2, <2>3, <2>4, <3>2
    <3> QED
      BY <1>2, <3>1, <3>2
  <2> QED
    BY <1>2, <1>4, <2>3, <2>5 DEF SameNesting
<1> QED
  BY <1>e, <1>s, <1>q, <1>5, <1>6, <1>7 DEF Mirrors

(* ... one that user space does not open changes nothing there, ...        *)
LEMMA MissedStartMirrors ==
  ASSUME NEW lost, NEW c, NEW stack \in Seq(OpenSpan), NEW q \in Stacks,
         Mirrors(lost, c, stack, q), c \in lost.starts,
         NEW span \in ProgramSpan, span.id \notin IdsOf(q)
  PROVE  Mirrors(lost, c, stack, Append(q, span))
<1>1. Append(q, span) \in Stacks /\ Keeps(lost, c, q, Append(q, span))
  <2>1. /\ Append(q, span) \in Stacks /\ Len(q) \in Nat
        /\ DOMAIN q = 1 .. Len(q) /\ DOMAIN Append(q, span) = 1 .. Len(q) + 1
        /\ \A a \in 1 .. Len(q) : Append(q, span)[a] = q[a]
    BY PushedStack, OfStack
  <2>2. DOMAIN q \subseteq DOMAIN Append(q, span)
    BY <2>1
  <2> QED
    BY <2>1, <2>2 DEF Keeps
<1>2. Becomes(lost, c, q, Append(q, span))
  BY <1>1 DEF Becomes, NothingLost
<1> QED
  BY <1>1, <1>2, MirrorsFurther

(* ... and the innermost one of a name is popped on both sides with what   *)
(* is inside of it: what else is popped had been opened inside of it, and  *)
(* an end has been lost.                                                   *)
LEMMA EndMirrors ==
  ASSUME NEW lost, NEW c, NEW stack \in Seq(OpenSpan), NEW q \in Stacks,
         Mirrors(lost, c, stack, q), NEW m \in 1 .. Len(q),
         NEW name, name = q[m].name, \A a \in 1 .. Len(q) : q[a].name = name => a <= m
  PROVE  Mirrors(lost, c, PopThrough(stack, name), SubSeq(q, 1, m - 1))
<1>n. PICK n : n = Len(q)
  OBVIOUS
<1>r. PICK r : r = SubSeq(q, 1, m - 1)
  OBVIOUS
<1>k. PICK kept : kept = PopThrough(stack, name)
  OBVIOUS
<1>1. Len(stack) \in Nat /\ DOMAIN stack = 1 .. Len(stack)
  BY LenProperties
<1>2. /\ n \in Nat /\ m \in 1 .. n /\ DOMAIN q = 1 .. n
      /\ \A a, b \in 1 .. n : q[a].id = q[b].id => a = b
  BY <1>n, OfStack
<1>3. /\ Len(r) = m - 1 /\ DOMAIN r = 1 .. m - 1
      /\ \A a \in 1 .. m - 1 : r[a] = q[a] /\ a \in 1 .. n
  BY <1>n, <1>r, CutStack
<1>4. ASSUME c \notin lost.starts
      PROVE  \E i \in 1 .. Len(stack) : stack[i].name = name
  BY <1>1, <1>2, <1>4 DEF Mirrors, HasEntry, SameSpan
<1>5. CASE kept = <<>> /\ \A i \in 1 .. Len(stack) : stack[i].name # name
  <2>1. c \in lost.starts
    BY <1>4, <1>5
  <2>2. IsOpen(lost, c, kept, r)
    BY <1>5 DEF IsOpen
  <2> QED
    BY <1>r, <1>k, <2>1, <2>2 DEF Mirrors, NothingLost
<1>6. ASSUME NEW j \in 1 .. Len(stack), stack[j].name = name,
             \A i \in 1 .. Len(stack) : stack[i].name = name => i <= j,
             kept = SubSeq(stack, 1, j - 1)
      PROVE  Mirrors(lost, c, kept, r)
  <2>1. /\ Len(kept) = j - 1 /\ DOMAIN kept = 1 .. j - 1
        /\ \A i \in 1 .. j - 1 : kept[i] = stack[i]
    BY <1>1, <1>6, FrontOf
  <2>2. \A i \in 1 .. j - 1 : i \in 1 .. Len(stack) /\ i < j
    BY <1>1
  <2>3. ASSUME NoEndLost(lost, c), NEW i \in 1 .. j - 1, NEW a \in 1 .. n,
               SameSpan(stack[i], q[a])
        PROVE  a \in 1 .. m - 1
    <3>1. PICK k \in 1 .. n, b \in 1 .. n :
            SameSpan(stack[i], q[k]) /\ SameSpan(stack[j], q[b]) /\ k < b
      <4>1. i \in DOMAIN stack /\ j \in DOMAIN stack /\ i < j
        BY <1>1, <2>2
      <4> QED
        BY <1>2, <2>3, <4>1 DEF Mirrors, IsOpen
    <3>2. k = a
      BY <1>2, <2>3, <3>1 DEF SameSpan
    <3>3. b <= m
      BY <1>6, <1>n, <3>1 DEF SameSpan
    <3> QED
      BY <1>2, <3>1, <3>2, <3>3
  <2>4. IsOpen(lost, c, kept, r)
    <3>1. SUFFICES ASSUME NEW i \in DOMAIN kept, NEW k \in DOMAIN kept, NoEndLost(lost, c)
                   PROVE  \E a, b \in DOMAIN r :
                            /\ SameSpan(kept[i], r[a]) /\ CompiledIn(r[a].level)
                            /\ SameSpan(kept[k], r[b]) /\ CompiledIn(r[b].level)
                            /\ i < k => a < b
      BY DEF IsOpen
    <3>e. i \in 1 .. j - 1 /\ k \in 1 .. j - 1 /\ kept[i] = stack[i] /\ kept[k] = stack[k]
      BY <2>1
    <3>2. PICK a \in 1 .. n, b \in 1 .. n :
            /\ SameSpan(stack[i], q[a]) /\ CompiledIn(q[a].level)
            /\ SameSpan(stack[k], q[b]) /\ CompiledIn(q[b].level)
            /\ i < k => a < b
      BY <1>1, <1>2, <2>2, <3>1, <3>e DEF Mirrors, IsOpen
    <3>3. a \in 1 .. m - 1 /\ b \in 1 .. m - 1
      BY <2>3, <3>1, <3>e, <3>2
    <3> QED
      BY <1>3, <3>e, <3>2, <3>3
  <2>5. ASSUME c \notin lost.starts PROVE HasEntry(kept, r)
    <3>1. PICK place \in [1 .. n -> 1 .. Len(stack)] :
            \A a, b \in 1 .. n :
              SameSpan(stack[place[a]], q[a]) /\ (a < b => place[a] < place[b])
      BY <1>1, <1>2, <2>5 DEF Mirrors, HasEntry
    <3>2. m \in 1 .. n /\ \A a \in 1 .. m - 1 : a \in 1 .. n /\ a < m
      BY <1>2
    <3>3. place[m] <= j
      BY <1>6, <3>1, <3>2 DEF SameSpan
    <3>4. \A a \in 1 .. m - 1 : place[a] \in 1 .. j - 1
      BY <1>1, <3>1, <3>2, <3>3
    <3>p. PICK next : next = [a \in 1 .. m - 1 |-> place[a]]
      OBVIOUS
    <3>5. next \in [1 .. m - 1 -> 1 .. j - 1] /\ \A a \in 1 .. m - 1 : next[a] = place[a]
      BY <3>4, <3>p
    <3>6. \A a, b \in 1 .. m - 1 :
            SameSpan(kept[next[a]], r[a]) /\ (a < b => next[a] < next[b])
      BY <1>3, <2>1, <3>1, <3>2, <3>4, <3>5
    <3> QED
      BY <1>3, <2>1, <3>5, <3>6 DEF HasEntry
  <2>6. ASSUME NothingLost(lost, c) PROVE SameNesting(kept, r)
    <3>1. SameNesting(stack, q) /\ Len(stack) = n
      BY <1>n, <2>6 DEF Mirrors, SameNesting
    <3>2. stack[m].name = name /\ q[j].name = name
      BY <1>2, <1>6, <3>1 DEF SameNesting, SameSpan
    <3>3. j = m
      BY <1>2, <1>6, <1>n, <3>1, <3>2
    <3>4. ASSUME NEW i \in 1 .. m - 1
          PROVE  /\ SameSpan(kept[i], r[i])
                 /\ kept[i].parent = IF i = 1 THEN NoSpan ELSE r[i - 1].id
      <4>1. i \in 1 .. n /\ (i # 1 => i - 1 \in 1 .. m - 1)
        BY <1>2
      <4> QED
        BY <1>2, <1>3, <2>1, <3>1, <3>3, <4>1 DEF SameNesting
    <3> QED
      BY <1>3, <2>1, <3>3, <3>4 DEF SameNesting
  <2> QED
    BY <2>4, <2>5, <2>6 DEF Mirrors
<1> QED
  BY <1>r, <1>k, <1>5, <1>6, PopThroughCuts

-----------------------------------------------------------------------------
(***************************************************************************)
(* Histories.                                                              *)
(***************************************************************************)
LEMMA OfHistory ==
  ASSUME NEW was, NEW lost, NEW c, NEW stack, NEW inFlight \in Seq(Event), NEW open,
         Explains(was, lost, c, stack, inFlight, open)
  PROVE  /\ Len(inFlight) \in Nat /\ open \in Stacks /\ was[1] \in Stacks
         /\ \A k \in 1 .. Len(inFlight) :
              /\ inFlight[k] \in Event /\ was[k] \in Stacks /\ was[k + 1] \in Stacks
              /\ After(c, was[k], inFlight[k]) \in Stacks
<1>1. Len(inFlight) \in Nat /\ \A k \in 1 .. Len(inFlight) : inFlight[k] \in Event
  BY LenProperties, ElementOfSeq
<1>2. \A k \in 1 .. Len(inFlight) + 1 : was[k] \in Stacks
  BY DEF Explains
<1>3. /\ 1 \in 1 .. Len(inFlight) + 1 /\ Len(inFlight) + 1 \in 1 .. Len(inFlight) + 1
      /\ \A k \in 1 .. Len(inFlight) :
           k \in 1 .. Len(inFlight) + 1 /\ k + 1 \in 1 .. Len(inFlight) + 1
  BY <1>1
<1>4. \A k \in 1 .. Len(inFlight) : Fits(lost, c, was[k], inFlight[k])
  BY DEF Explains
<1> QED
  BY <1>1, <1>2, <1>3, <1>4, AfterIsStack DEF Explains

(* More may get lost.                                                      *)
LEMMA StillExplains ==
  ASSUME NEW was, NEW lost, NEW c, NEW stack, NEW inFlight, NEW open,
         Explains(was, lost, c, stack, inFlight, open),
         NEW more, lost.starts \subseteq more.starts, lost.ends \subseteq more.ends
  PROVE  Explains(was, more, c, stack, inFlight, open)
BY LostStill DEF Explains

(* An event is written: it is the last of the history.                     *)
LEMMA WriteExplains ==
  ASSUME NEW was, NEW lost, NEW c, NEW stack, NEW inFlight \in Seq(Event), NEW open,
         Explains(was, lost, c, stack, inFlight, open),
         NEW e \in Event, Fits(lost, c, open, e)
  PROVE  \E next : Explains(next, lost, c, stack, Append(inFlight, e), After(c, open, e))
<1>n. PICK n : n = Len(inFlight)
  OBVIOUS
<1>l. PICK longer : longer = Append(inFlight, e)
  OBVIOUS
<1>x. PICK next : next = [k \in 1 .. n + 2 |-> IF k = n + 2 THEN After(c, open, e) ELSE was[k]]
  OBVIOUS
<1>1. n \in Nat /\ open \in Stacks /\ After(c, open, e) \in Stacks
  BY <1>n, OfHistory, AfterIsStack
<1>2. /\ Len(longer) = n + 1 /\ longer[n + 1] = e
      /\ \A k \in 1 .. n : longer[k] = inFlight[k]
  BY <1>n, <1>l, LongerBy
<1>3. /\ was \in [1 .. n + 1 -> Stacks] /\ was[n + 1] = open /\ Mirrors(lost, c, stack, was[1])
      /\ \A k \in 1 .. n : /\ Fits(lost, c, was[k], inFlight[k])
                           /\ Becomes(lost, c, After(c, was[k], inFlight[k]), was[k + 1])
  BY <1>n DEF Explains
<1>4. /\ next \in [1 .. n + 2 -> Stacks] /\ next[n + 2] = After(c, open, e)
      /\ \A k \in 1 .. n + 1 : next[k] = was[k]
  BY <1>1, <1>3, <1>x
<1>5. ASSUME NEW k \in 1 .. n + 1
      PROVE  /\ Fits(lost, c, next[k], longer[k])
             /\ Becomes(lost, c, After(c, next[k], longer[k]), next[k + 1])
  <2>1. CASE k \in 1 .. n
    <3>1. k + 1 \in 1 .. n + 1
      BY <1>1, <2>1
    <3> QED
      BY <1>2, <1>3, <1>4, <2>1, <3>1
  <2>2. CASE k = n + 1
    <3>1. Becomes(lost, c, After(c, open, e), After(c, open, e)) /\ k + 1 = n + 2
      BY <1>1, <2>2, BecomesItself
    <3> QED
      BY <1>2, <1>3, <1>4, <2>2, <3>1
  <2> QED
    BY <1>1, <2>1, <2>2
<1>6. 1 \in 1 .. n + 1 /\ Len(longer) + 1 = n + 2
  BY <1>1, <1>2
<1>7. Explains(next, lost, c, stack, longer, After(c, open, e))
  BY <1>2, <1>3, <1>4, <1>5, <1>6 DEF Explains
<1> QED
  BY <1>7, <1>l

(* The program changes what it has open without writing an event.          *)
LEMMA ChangeExplains ==
  ASSUME NEW was, NEW lost, NEW c, NEW stack \in Seq(OpenSpan), NEW inFlight \in Seq(Event),
         NEW open, Explains(was, lost, c, stack, inFlight, open),
         NEW q \in Stacks, Becomes(lost, c, open, q)
  PROVE  \E next : Explains(next, lost, c, stack, inFlight, q)
<1>n. PICK n : n = Len(inFlight)
  OBVIOUS
<1>x. PICK next : next = [k \in 1 .. n + 1 |-> IF k = n + 1 THEN q ELSE was[k]]
  OBVIOUS
<1>1. /\ n \in Nat /\ open \in Stacks
      /\ \A k \in 1 .. n : After(c, was[k], inFlight[k]) \in Stacks
  BY <1>n, OfHistory
<1>2. /\ was \in [1 .. n + 1 -> Stacks] /\ was[n + 1] = open /\ Mirrors(lost, c, stack, was[1])
      /\ \A k \in 1 .. n : /\ Fits(lost, c, was[k], inFlight[k])
                           /\ Becomes(lost, c, After(c, was[k], inFlight[k]), was[k + 1])
  BY <1>n DEF Explains
<1>3. next \in [1 .. n + 1 -> Stacks] /\ next[n + 1] = q /\ \A k \in 1 .. n : next[k] = was[k]
  BY <1>1, <1>2, <1>x
<1>4. Mirrors(lost, c, stack, next[1])
  <2>1. CASE n = 0
    BY <1>1, <1>2, <1>3, <2>1, MirrorsFurther
  <2>2. CASE n # 0
    <3>1. 1 \in 1 .. n
      BY <1>1, <2>2
    <3> QED
      BY <1>2, <1>3, <3>1
  <2> QED
    BY <2>1, <2>2
<1>5. ASSUME NEW k \in 1 .. n
      PROVE  /\ Fits(lost, c, next[k], inFlight[k])
             /\ Becomes(lost, c, After(c, next[k], inFlight[k]), next[k + 1])
  <2>1. CASE k = n
    <3>1. Becomes(lost, c, After(c, was[n], inFlight[n]), open)
      BY <1>2, <2>1
    <3>2. Becomes(lost, c, After(c, was[n], inFlight[n]), q)
      BY <1>1, <2>1, <3>1, BecomesFurther
    <3> QED
      BY <1>2, <1>3, <2>1, <3>2
  <2>2. CASE k # n
    <3>1. k + 1 \in 1 .. n
      BY <1>1, <2>2
    <3> QED
      BY <1>2, <1>3, <3>1
  <2> QED
    BY <2>1, <2>2
<1>6. Explains(next, lost, c, stack, inFlight, q)
  BY <1>n, <1>3, <1>4, <1>5 DEF Explains
<1> QED
  BY <1>6

(* What a lost event would have told is what may change untold.            *)
LEMMA LostBecomes ==
  ASSUME NEW lost, NEW c, NEW q \in Stacks, NEW e \in Event, Fits(lost, c, q, e),
         e.cpu = c /\ e.kind = "StartSpan" => c \in lost.starts,
         e.cpu = c /\ e.kind = "EndSpan" => ~NoEndLost(lost, c)
  PROVE  Becomes(lost, c, q, After(c, q, e))
<1>1. /\ q \in Seq(ProgramSpan) /\ Len(q) \in Nat /\ DOMAIN q = 1 .. Len(q)
      /\ \A a \in 1 .. Len(q) : q[a] \in ProgramSpan
  BY OfStack
<1>r. PICK r : r = After(c, q, e)
  OBVIOUS
<1>2. r \in Stacks /\ Len(r) \in Nat /\ DOMAIN r = 1 .. Len(r) /\ e.kind \in Kinds
  BY <1>r, AfterIsStack, OfStack DEF Event
<1>3. CASE e.cpu # c \/ e.kind = "Message"
  BY <1>3, BecomesItself DEF After
<1>4. CASE e.cpu = c /\ e.kind = "StartSpan"
  <2>1. PICK span \in ProgramSpan : r = Append(q, span) /\ span.id \notin IdsOf(q)
    BY <1>r, <1>4 DEF After, Fits, ProgramSpan
  <2>2. DOMAIN q \subseteq DOMAIN r /\ \A a \in DOMAIN q : r[a] = q[a]
    BY <1>1, <1>2, <2>1, PushedStack
  <2>3. Keeps(lost, c, q, r)
    BY <2>2 DEF Keeps
  <2> QED
    BY <1>r, <1>4, <2>3 DEF Becomes, NothingLost
<1>5. CASE e.cpu = c /\ e.kind = "EndSpan"
  <2>e. PICK m \in 1 .. Len(q) : Ends(c, q, e, m)
    BY <1>5, AfterEnd
  <2>1. r = SubSeq(q, 1, m - 1)
    BY <1>r, <2>e DEF Ends
  <2>2. OnlyShrinks(q, r)
    <3>1. Len(r) = m - 1 /\ DOMAIN r = 1 .. m - 1 /\ \A a \in 1 .. m - 1 : r[a] = q[a]
      BY <2>1, CutStack
    <3> QED
      BY <1>1, <3>1 DEF OnlyShrinks
  <2>3. Keeps(lost, c, q, r) /\ ~NothingLost(lost, c)
    BY <1>5 DEF Keeps, Known, NothingLost
  <2> QED
    BY <1>r, <2>2, <2>3 DEF Becomes
<1> QED
  BY <1>2, <1>3, <1>4, <1>5 DEF Kinds

(* An event is lost: it leaves the history.                                *)
LEMMA LoseExplains ==
  ASSUME NEW was, NEW lost, NEW c, NEW stack \in Seq(OpenSpan), NEW inFlight \in Seq(Event),
         NEW open, Explains(was, lost, c, stack, inFlight, open),
         NEW i \in 1 .. Len(inFlight),
         Becomes(lost, c, was[i], After(c, was[i], inFlight[i]))
  PROVE  \E next : Explains(next, lost, c, stack,
                            SubSeq(inFlight, 1, i - 1)
                              \o SubSeq(inFlight, i + 1, Len(inFlight)), open)
<1>n. PICK n : n = Len(inFlight)
  OBVIOUS
<1>l. PICK left : left = SubSeq(inFlight, 1, i - 1) \o SubSeq(inFlight, i + 1, Len(inFlight))
  OBVIOUS
<1>x. PICK next : next = [k \in 1 .. n |-> IF k < i THEN was[k] ELSE was[k + 1]]
  OBVIOUS
<1>1. /\ n \in Nat /\ i \in 1 .. n
      /\ \A k \in 1 .. n : /\ After(c, was[k], inFlight[k]) \in Stacks
                           /\ was[k] \in Stacks /\ was[k + 1] \in Stacks
  BY <1>n, OfHistory
<1>2. /\ Len(left) = n - 1
      /\ \A k \in 1 .. n - 1 : left[k] = IF k < i THEN inFlight[k] ELSE inFlight[k + 1]
  BY <1>n, <1>l, Without
<1>3. /\ was[n + 1] = open /\ Mirrors(lost, c, stack, was[1])
      /\ \A k \in 1 .. n : /\ Fits(lost, c, was[k], inFlight[k])
                           /\ Becomes(lost, c, After(c, was[k], inFlight[k]), was[k + 1])
  BY <1>n DEF Explains
<1>4. /\ next \in [1 .. n -> Stacks]
      /\ \A k \in 1 .. n : next[k] = IF k < i THEN was[k] ELSE was[k + 1]
  BY <1>1, <1>x
<1>5. Becomes(lost, c, was[i], was[i + 1])
  BY <1>1, <1>3, BecomesFurther
<1>6. Mirrors(lost, c, stack, next[1])
  <2>1. 1 \in 1 .. n
    BY <1>1
  <2>2. CASE i = 1
    <3>1. next[1] = was[2] /\ Mirrors(lost, c, stack, was[2])
      BY <1>1, <1>3, <1>4, <1>5, <2>1, <2>2, MirrorsFurther
    <3> QED
      BY <3>1
  <2>3. CASE i # 1
    BY <1>1, <1>3, <1>4, <2>1, <2>3
  <2> QED
    BY <2>2, <2>3
<1>7. ASSUME NEW k \in 1 .. n - 1
      PROVE  /\ Fits(lost, c, next[k], left[k])
             /\ Becomes(lost, c, After(c, next[k], left[k]), next[k + 1])
  <2>1. k \in 1 .. n /\ k + 1 \in 1 .. n
    BY <1>1
  <2>2. CASE k + 1 < i
    <3>1. next[k] = was[k] /\ left[k] = inFlight[k] /\ next[k + 1] = was[k + 1]
      BY <1>1, <1>2, <1>4, <2>1, <2>2
    <3> QED
      BY <1>3, <2>1, <3>1
  <2>3. CASE k + 1 = i
    <3>1. next[k] = was[k] /\ left[k] = inFlight[k] /\ next[k + 1] = was[i + 1]
      <4>1. k < i /\ ~(k + 1 < i) /\ k + 1 + 1 = i + 1
        BY <1>1, <2>3
      <4>2. next[k] = was[k] /\ left[k] = inFlight[k]
        BY <1>2, <1>4, <2>1, <4>1
      <4>3. next[k + 1] = was[k + 1 + 1]
        BY <1>4, <2>1, <4>1
      <4> QED
        BY <4>1, <4>2, <4>3
    <3>2. Becomes(lost, c, After(c, was[k], inFlight[k]), was[i])
      BY <1>3, <2>1, <2>3
    <3>3. Becomes(lost, c, After(c, was[k], inFlight[k]), was[i + 1])
      BY <1>1, <1>5, <2>1, <3>2, BecomesFurther
    <3> QED
      BY <1>3, <2>1, <3>1, <3>3
  <2>4. CASE k + 1 > i
    <3>1. next[k] = was[k + 1] /\ left[k] = inFlight[k + 1] /\ next[k + 1] = was[k + 1 + 1]
      BY <1>1, <1>2, <1>4, <2>1, <2>4
    <3> QED
      BY <1>3, <2>1, <3>1
  <2> QED
    BY <1>1, <2>1, <2>2, <2>3, <2>4
<1>8. next[n] = open /\ n - 1 + 1 = n
  BY <1>1, <1>3, <1>4
<1>9. Explains(next, lost, c, stack, left, open)
  BY <1>2, <1>4, <1>6, <1>7, <1>8 DEF Explains
<1> QED
  BY <1>l, <1>9

(* An event is handled: what it told is on the stack.                      *)
LEMMA HandleExplains ==
  ASSUME NEW was, NEW lost, NEW c, NEW stack, NEW inFlight \in Seq(Event),
         NEW open, Explains(was, lost, c, stack, inFlight, open), inFlight # <<>>,
         NEW nextStack \in Seq(OpenSpan),
         Mirrors(lost, c, nextStack, After(c, was[1], inFlight[1]))
  PROVE  \E next : Explains(next, lost, c, nextStack, Tail(inFlight), open)
<1>n. PICK n : n = Len(inFlight)
  OBVIOUS
<1>x. PICK next : next = [k \in 1 .. n |-> was[k + 1]]
  OBVIOUS
<1>t. PICK tail : tail = Tail(inFlight)
  OBVIOUS
<1>1. /\ n \in Nat \ {0} /\ 1 \in 1 .. n
      /\ \A k \in 1 .. n : After(c, was[k], inFlight[k]) \in Stacks /\ was[k + 1] \in Stacks
  <2>1. n # 0
    BY <1>n, EmptySeq
  <2> QED
    BY <1>n, <2>1, OfHistory
<1>2. Len(tail) = n - 1 /\ \A k \in 1 .. n - 1 : tail[k] = inFlight[k + 1]
  BY <1>n, <1>t, HeadTailProperties
<1>3. /\ was[n + 1] = open
      /\ \A k \in 1 .. n : /\ Fits(lost, c, was[k], inFlight[k])
                           /\ Becomes(lost, c, After(c, was[k], inFlight[k]), was[k + 1])
  BY <1>n DEF Explains
<1>4. next \in [1 .. n -> Stacks] /\ \A k \in 1 .. n : next[k] = was[k + 1]
  BY <1>1, <1>x
<1>5. Mirrors(lost, c, nextStack, next[1])
  <2>1. Becomes(lost, c, After(c, was[1], inFlight[1]), was[1 + 1])
    BY <1>1, <1>3
  <2>2. Mirrors(lost, c, nextStack, was[1 + 1])
    BY <1>1, <2>1, MirrorsFurther
  <2> QED
    BY <1>1, <1>4, <2>2
<1>6. ASSUME NEW k \in 1 .. n - 1
      PROVE  /\ Fits(lost, c, next[k], tail[k])
             /\ Becomes(lost, c, After(c, next[k], tail[k]), next[k + 1])
  <2>1. k \in 1 .. n /\ k + 1 \in 1 .. n
    BY <1>1
  <2> QED
    BY <1>2, <1>3, <1>4, <2>1
<1>7. next[n] = open /\ n - 1 + 1 = n
  BY <1>1, <1>3, <1>4
<1>8. Explains(next, lost, c, nextStack, tail, open)
  BY <1>2, <1>4, <1>5, <1>6, <1>7 DEF Explains
<1> QED
  BY <1>t, <1>8

(* What a history says of a stack.  On a CPU with nothing in flight and    *)
(* nothing missing it has not changed since the first moment of it.        *)
LEMMA NothingChanged ==
  ASSUME NEW was, NEW lost, NEW c, NEW stack, NEW inFlight \in Seq(Event), NEW open,
         Explains(was, lost, c, stack, inFlight, open), NothingLost(lost, c),
         \A k \in 1 .. Len(inFlight) : inFlight[k].cpu # c
  PROVE  SameNesting(stack, open)
<1>n. PICK n : n = Len(inFlight)
  OBVIOUS
<1>1. n \in Nat
  BY <1>n, OfHistory
<1>2. \A k \in 1 .. n : was[k + 1] = was[k]
  BY <1>n DEF Explains, Becomes, After
<1>d. PICK different : different = {k \in 1 .. n + 1 : was[k] # was[1]}
  OBVIOUS
<1>3. different = {}
  <2>1. SUFFICES ASSUME different # {} PROVE FALSE
    OBVIOUS
  <2>2. different \subseteq Nat
    BY <1>1, <1>d
  <2>3. PICK k \in different : \A l \in different : k <= l
    BY <2>1, <2>2, SmallestOf
  <2>4. k \in 1 .. n + 1 /\ k # 1 /\ was[k] # was[1]
    BY <1>d, <2>3
  <2>5. k - 1 \in 1 .. n /\ k - 1 + 1 = k /\ k - 1 \in 1 .. n + 1 /\ ~(k <= k - 1)
    BY <1>1, <2>4
  <2>6. was[k - 1] = was[1]
    BY <1>d, <2>3, <2>5
  <2> QED
    BY <1>2, <2>4, <2>5, <2>6
<1>4. was[n + 1] = was[1]
  <2>1. n + 1 \in 1 .. n + 1
    BY <1>1
  <2> QED
    BY <1>d, <1>3, <2>1
<1> QED
  BY <1>n, <1>4 DEF Explains, Mirrors

(* A span the program has open has an entry, or its start is in flight.    *)
LEMMA OpenHasEntry ==
  ASSUME NEW was, NEW lost, NEW c, NEW stack, NEW inFlight \in Seq(Event), NEW open,
         Explains(was, lost, c, stack, inFlight, open), c \notin lost.starts
  PROVE  IdsOf(open) \subseteq IdsOf(stack) \cup IdsOf(inFlight)
<1>n. PICK n : n = Len(inFlight)
  OBVIOUS
<1>1. /\ n \in Nat /\ was[n + 1] = open /\ DOMAIN inFlight = 1 .. n
      /\ \A k \in 1 .. n + 1 : was[k] \in Stacks
      /\ \A k \in 1 .. n : /\ inFlight[k] \in Event /\ Fits(lost, c, was[k], inFlight[k])
                           /\ Becomes(lost, c, After(c, was[k], inFlight[k]), was[k + 1])
  BY <1>n, OfHistory, LenProperties DEF Explains
<1>2. SUFFICES ASSUME NEW id \in IdsOf(open), id \notin IdsOf(inFlight)
               PROVE  id \in IdsOf(stack)
  OBVIOUS
<1>w. PICK when : when = {k \in 1 .. n + 1 : id \in IdsOf(was[k])}
  OBVIOUS
<1>3. when \subseteq Nat /\ when # {}
  <2>1. n + 1 \in 1 .. n + 1
    BY <1>1
  <2> QED
    BY <1>1, <1>w, <1>2, <2>1
<1>4. PICK k \in when : \A l \in when : k <= l
  BY <1>3, SmallestOf
<1>5. k \in 1 .. n + 1 /\ id \in IdsOf(was[k])
  BY <1>w, <1>4
<1>6. CASE k = 1
  <2>1. HasEntry(stack, was[1])
    BY DEF Explains, Mirrors
  <2> QED
    BY <1>5, <1>6, <2>1 DEF HasEntry, SameSpan, IdsOf
<1>7. CASE k # 1
  <2>l. PICK l : l = k - 1
    OBVIOUS
  <2>1. l \in 1 .. n /\ l \in 1 .. n + 1 /\ k = l + 1 /\ ~(k <= l)
    BY <1>1, <1>5, <1>7, <2>l
  <2>2. id \notin IdsOf(was[l])
    BY <1>4, <1>w, <2>1
  <2>e. PICK e \in Event : e = inFlight[l]
    BY <1>1, <2>1
  <2>q. PICK q \in Stacks : q = was[l]
    BY <1>1, <2>1
  <2>3. Fits(lost, c, q, e) /\ OnlyShrinks(After(c, q, e), was[k])
    BY <1>1, <2>1, <2>e, <2>q DEF Becomes
  <2>4. id \in IdsOf(After(c, q, e))
    <3>1. After(c, q, e) \in Stacks /\ was[k] \in Stacks
      BY <1>1, <1>5, <2>3, AfterIsStack
    <3>2. DOMAIN was[k] \subseteq DOMAIN After(c, q, e)
      <4>1. /\ DOMAIN was[k] = 1 .. Len(was[k]) /\ Len(was[k]) \in Nat
            /\ DOMAIN After(c, q, e) = 1 .. Len(After(c, q, e)) /\ Len(After(c, q, e)) \in Nat
        BY <3>1, OfStack
      <4> QED
        BY <2>3, <4>1 DEF OnlyShrinks
    <3> QED
      BY <1>5, <2>3, <3>2 DEF IdsOf, OnlyShrinks
  <2>5. e.id # id
    BY <1>1, <1>2, <2>1, <2>e DEF IdsOf
  <2>6. e.kind \in Kinds
    BY DEF Event
  <2>7. CASE e.cpu # c \/ e.kind = "Message"
    BY <2>2, <2>4, <2>7, <2>q DEF After
  <2>8. CASE e.cpu = c /\ e.kind = "StartSpan"
    <3>1. PICK span \in ProgramSpan : After(c, q, e) = Append(q, span) /\ span.id = e.id
                                      /\ span.id \notin IdsOf(q)
      BY <2>3, <2>8 DEF After, Fits, ProgramSpan
    <3>2. /\ DOMAIN Append(q, span) = 1 .. Len(q) + 1 /\ Len(q) \in Nat
          /\ DOMAIN q = 1 .. Len(q)
          /\ \A a \in 1 .. Len(q) : Append(q, span)[a] = q[a]
          /\ Append(q, span)[Len(q) + 1] = span
      BY <3>1, PushedStack, OfStack
    <3>3. PICK a \in 1 .. Len(q) + 1 : Append(q, span)[a].id = id
      BY <2>4, <3>1, <3>2 DEF IdsOf
    <3>4. a \in 1 .. Len(q)
      BY <2>5, <3>1, <3>2, <3>3
    <3> QED
      BY <2>2, <2>q, <3>2, <3>3, <3>4 DEF IdsOf
  <2>9. CASE e.cpu = c /\ e.kind = "EndSpan"
    <3>r. PICK r : r = After(c, q, e)
      OBVIOUS
    <3>e. PICK m \in 1 .. Len(q) : Ends(c, q, e, m)
      BY <2>3, <2>9, AfterEnd
    <3>1. r = SubSeq(q, 1, m - 1)
      BY <3>e, <3>r DEF Ends
    <3>2. /\ DOMAIN r = 1 .. m - 1 /\ DOMAIN q = 1 .. Len(q)
          /\ \A a \in 1 .. m - 1 : r[a] = q[a] /\ a \in 1 .. Len(q)
      BY <3>1, CutStack, OfStack
    <3> QED
      BY <2>2, <2>4, <2>q, <3>2, <3>r DEF IdsOf
  <2> QED
    BY <2>6, <2>7, <2>8, <2>9 DEF Kinds
<1> QED
  BY <1>6, <1>7

(* As long as no end is lost or in flight an entry is of a span the        *)
(* program has open.                                                       *)
LEMMA EntryIsOpen ==
  ASSUME NEW was, NEW lost, NEW c, NEW stack, NEW inFlight \in Seq(Event), NEW open,
         Explains(was, lost, c, stack, inFlight, open),
         NoEndLost(lost, c),
         \A k \in 1 .. Len(inFlight) : inFlight[k].cpu = c => inFlight[k].kind # "EndSpan",
         NEW i \in DOMAIN stack
  PROVE  stack[i].id \in IdsOf(open)
<1>n. PICK n : n = Len(inFlight)
  OBVIOUS
<1>1. /\ n \in Nat /\ was[n + 1] = open /\ DOMAIN inFlight = 1 .. n
      /\ \A k \in 1 .. n + 1 : was[k] \in Stacks
      /\ \A k \in 1 .. n : /\ inFlight[k] \in Event /\ Fits(lost, c, was[k], inFlight[k])
                           /\ Becomes(lost, c, After(c, was[k], inFlight[k]), was[k + 1])
  BY <1>n, OfHistory, LenProperties DEF Explains
<1>w. PICK when : when = {k \in 1 .. n + 1 :
                            \E a \in DOMAIN was[k] :
                              SameSpan(stack[i], was[k][a]) /\ CompiledIn(was[k][a].level)}
  OBVIOUS
<1>2. 1 \in when
  <2>1. 1 \in 1 .. n + 1
    BY <1>1
  <2> QED
    BY <1>w, <2>1 DEF Explains, Mirrors, IsOpen
<1>3. when \subseteq 0 .. n + 1 /\ n + 1 \in Nat
  BY <1>1, <1>w
<1>4. PICK k \in when : \A l \in when : l <= k
  BY <1>2, <1>3, LargestOf
<1>5. k \in 1 .. n + 1
  BY <1>w
<1>q. PICK q \in Stacks : q = was[k]
  BY <1>1, <1>5
<1>6. PICK a \in DOMAIN q : SameSpan(stack[i], q[a]) /\ CompiledIn(q[a].level)
  BY <1>w, <1>q
<1>7. CASE k = n + 1
  BY <1>1, <1>6, <1>7, <1>q DEF IdsOf, SameSpan
<1>8. CASE k # n + 1
  <2>1. k \in 1 .. n /\ k + 1 \in 1 .. n + 1 /\ ~(k + 1 <= k)
    BY <1>1, <1>5, <1>8
  <2>e. PICK e \in Event : e = inFlight[k]
    BY <1>1, <2>1
  <2>r. PICK r : r = After(c, q, e)
    OBVIOUS
  <2>2. Fits(lost, c, q, e) /\ Keeps(lost, c, r, was[k + 1]) /\ e.kind \in Kinds
    BY <1>1, <1>q, <2>1, <2>e, <2>r DEF Becomes, Event
  <2>3. ~(a \in DOMAIN r /\ r[a] = q[a])
    <3>1. SUFFICES ASSUME a \in DOMAIN r, r[a] = q[a] PROVE k + 1 \in when
      BY <1>4, <2>1
    <3>2. Known(lost, c, r[a])
      BY <1>6, <3>1 DEF Known, SameSpan
    <3>3. \E b \in DOMAIN was[k + 1] : was[k + 1][b] = q[a]
      BY <2>2, <3>1, <3>2 DEF Keeps
    <3> QED
      BY <1>6, <1>w, <2>1, <3>3
  <2>4. Len(q) \in Nat /\ DOMAIN q = 1 .. Len(q)
    BY OfStack
  <2>5. CASE e.cpu # c \/ e.kind = "Message"
    BY <2>3, <2>5, <2>r DEF After
  <2>6. CASE e.cpu = c /\ e.kind = "StartSpan"
    <3>1. PICK span \in ProgramSpan : r = Append(q, span) /\ span.id \notin IdsOf(q)
      BY <2>2, <2>6, <2>r DEF After, Fits, ProgramSpan
    <3>2. DOMAIN r = 1 .. Len(q) + 1 /\ r[a] = q[a]
      BY <2>4, <3>1, PushedStack, OfStack
    <3> QED
      BY <2>3, <2>4, <3>2
  <2>7. e.cpu = c => e.kind # "EndSpan"
    BY <1>n, <2>1, <2>e
  <2> QED
    BY <2>2, <2>5, <2>6, <2>7 DEF Kinds
<1> QED
  BY <1>7, <1>8

-----------------------------------------------------------------------------
(***************************************************************************)
(* Steps.                                                                  *)
(***************************************************************************)
LEMMA NextHistory ==
  ASSUME NEW c \in Cpus, NEW was, NEW more, NEW stack, NEW inFlight, NEW open,
         Explains(was, more, c, stack, inFlight, open),
         more = Lost', stack = StackOf(c)', inFlight = events', open = prog'[c]
  PROVE  HasHistory(c)'
BY DEF HasHistory

LEMMA LostGrows ==
  ASSUME missingStarts \subseteq missingStarts', missingEnds \subseteq missingEnds'
  PROVE  Lost.starts \subseteq Lost'.starts /\ Lost.ends \subseteq Lost'.ends
BY DEF Lost

LEMMA OfStackOf ==
  ASSUME TypeOK, NEW c \in Cpus
  PROVE  StackOf(c) \in Seq(OpenSpan)
<1>1. c \in Nat /\ spans \in Seq(Seq(OpenSpan)) /\ Len(spans) \in Nat
  BY SpansAssumption, LenProperties DEF SpansAssumption, TypeOK
<1>2. CASE c < Len(spans)
  <2>1. c + 1 \in 1 .. Len(spans)
    BY <1>1, <1>2
  <2> QED
    BY <1>1, <1>2, <2>1, ElementOfSeq DEF StackOf
<1>3. CASE ~(c < Len(spans))
  BY <1>3, EmptySeq DEF StackOf
<1> QED
  BY <1>2, <1>3

StacksTyped == \A c \in Cpus : StackOf(c) \in Seq(OpenSpan)

LEMMA StackTypes == TypeOK => StacksTyped
BY OfStackOf DEF StacksTyped

LEMMA OfNextStack ==
  ASSUME TypeOK', NEW c \in Cpus
  PROVE  StackOf(c)' \in Seq(OpenSpan)
<1>1. StacksTyped'
  BY StackTypes, PTL
<1> QED
  BY <1>1 DEF StacksTyped

(* Making room for a CPU changes nobody's stack.                           *)
LEMMA RoomForCpu ==
  ASSUME TypeOK, NEW cpu \in Cpus
  PROVE  /\ StacksFor(cpu) \in Seq(Seq(OpenSpan)) /\ Len(StacksFor(cpu)) \in Nat
         /\ cpu + 1 \in 1 .. Len(StacksFor(cpu))
         /\ \A d \in Cpus :
              StackOf(d) = IF d < Len(StacksFor(cpu)) THEN StacksFor(cpu)[d + 1] ELSE <<>>
         /\ StacksFor(cpu)[cpu + 1] = StackOf(cpu)
<1>1. /\ cpu \in Nat /\ \A d \in Cpus : d \in Nat /\ d + 1 \in Nat
      /\ spans \in Seq(Seq(OpenSpan)) /\ Len(spans) \in Nat
  BY SpansAssumption, LenProperties DEF SpansAssumption, TypeOK
<1>s. PICK stacks : stacks = StacksFor(cpu)
  OBVIOUS
<1>2. CASE ~(cpu >= Len(spans))
  BY <1>1, <1>2 DEF StacksFor, StackOf
<1>3. CASE cpu >= Len(spans)
  <2>1. stacks = [i \in 1 .. cpu + 1 |-> IF i <= Len(spans) THEN spans[i] ELSE <<>>]
    BY <1>3, <1>s DEF StacksFor
  <2>2. \A i \in 1 .. cpu + 1 : stacks[i] = (IF i <= Len(spans) THEN spans[i] ELSE <<>>)
    BY <2>1
  <2>3. stacks \in [1 .. cpu + 1 -> Seq(OpenSpan)]
    <3>1. \A i \in 1 .. cpu + 1 : i <= Len(spans) => spans[i] \in Seq(OpenSpan)
      BY <1>1, ElementOfSeq
    <3>2. <<>> \in Seq(OpenSpan)
      BY EmptySeq
    <3> QED
      BY <2>1, <3>1, <3>2
  <2>4. cpu + 1 \in Nat
    BY <1>1
  <2>5. stacks \in Seq(Seq(OpenSpan))
    BY <2>3, <2>4, SeqDef
  <2>6. Len(stacks) = cpu + 1
    <3>1. DOMAIN stacks = 1 .. Len(stacks) /\ Len(stacks) \in Nat /\ DOMAIN stacks = 1 .. cpu + 1
      BY <2>3, <2>5, LenProperties
    <3> QED
      BY <2>4, <3>1
  <2>7. ASSUME NEW d \in Cpus
        PROVE  StackOf(d) = IF d < Len(stacks) THEN stacks[d + 1] ELSE <<>>
    <3>1. CASE d < cpu + 1
      <4>1. d + 1 \in 1 .. cpu + 1 /\ (d + 1 <= Len(spans) <=> d < Len(spans))
        BY <1>1, <3>1
      <4> QED
        BY <2>2, <2>6, <3>1, <4>1 DEF StackOf
    <3>2. CASE ~(d < cpu + 1)
      <4>1. ~(d < Len(spans))
        BY <1>1, <1>3, <3>2
      <4> QED
        BY <2>6, <3>2, <4>1 DEF StackOf
    <3> QED
      BY <3>1, <3>2
  <2>8. cpu < cpu + 1 /\ cpu + 1 \in 1 .. cpu + 1
    BY <1>1
  <2>9. stacks[cpu + 1] = StackOf(cpu)
    BY <2>6, <2>7, <2>8
  <2> QED
    BY <1>s, <2>4, <2>5, <2>6, <2>7, <2>8, <2>9
<1> QED
  BY <1>2, <1>3

(* The stacks with another one for a CPU.                                  *)
LEMMA OtherStack ==
  ASSUME TypeOK, NEW cpu \in Cpus, NEW stack \in Seq(OpenSpan),
         spans' = [StacksFor(cpu) EXCEPT ![cpu + 1] = stack]
  PROVE  /\ spans' \in Seq(Seq(OpenSpan))
         /\ StackOf(cpu)' = stack
         /\ \A d \in Cpus \ {cpu} : StackOf(d)' = StackOf(d)
<1>s. PICK stacks : stacks = StacksFor(cpu)
  OBVIOUS
<1>1. /\ stacks \in Seq(Seq(OpenSpan)) /\ Len(stacks) \in Nat
      /\ cpu + 1 \in 1 .. Len(stacks) /\ DOMAIN stacks = 1 .. Len(stacks)
      /\ \A d \in Cpus : StackOf(d) = IF d < Len(stacks) THEN stacks[d + 1] ELSE <<>>
  BY <1>s, RoomForCpu, LenProperties
<1>2. cpu \in Nat /\ \A d \in Cpus : d \in Nat
  BY SpansAssumption DEF SpansAssumption
<1>3. /\ spans' \in Seq(Seq(OpenSpan)) /\ Len(spans') = Len(stacks)
      /\ \A i \in 1 .. Len(stacks) : spans'[i] = IF i = cpu + 1 THEN stack ELSE stacks[i]
  BY <1>1, <1>s, ExceptSeq
<1>4. \A d \in Cpus : d < Len(stacks) => d + 1 \in 1 .. Len(stacks)
  BY <1>1, <1>2
<1>5. cpu < Len(stacks)
  BY <1>1, <1>2
<1>6. ASSUME NEW d \in Cpus \ {cpu} PROVE StackOf(d)' = StackOf(d)
  <2>1. d + 1 # cpu + 1
    BY <1>2, <1>6
  <2> QED
    BY <1>1, <1>3, <1>4, <2>1 DEF StackOf
<1>7. StackOf(cpu)' = stack
  BY <1>1, <1>3, <1>5 DEF StackOf
<1> QED
  BY <1>3, <1>6, <1>7

LEMMA SameStacks ==
  ASSUME TypeOK, NEW cpu \in Cpus, spans' = StacksFor(cpu)
  PROVE  spans' \in Seq(Seq(OpenSpan)) /\ \A d \in Cpus : StackOf(d)' = StackOf(d)
BY RoomForCpu DEF StackOf

(* What the events in flight are made of.                                  *)
LEMMA EventsOfSpans ==
  ASSUME Inv, NEW k \in 1 .. Len(events)
  PROVE  /\ events[k] \in Event /\ events[k].cpu \in Cpus
         /\ events[k].kind = "StartSpan" =>
              /\ events[k].content \in Names /\ events[k].level \in Levels
              /\ events[k].id \in Ids
         /\ events[k].kind = "EndSpan" => events[k].content \in Names
<1>e. PICK e : e = events[k]
  OBVIOUS
<1>1. e \in Event /\ e.cpu \in Cpus /\ events \in Seq(Event)
  <2>1. events \in Seq(Event)
    BY DEF Inv, TypeOK
  <2>2. e \in Event
    BY <1>e, <2>1, ElementOfSeq
  <2> QED
    BY <2>1, <2>2 DEF Event
<1>2. PICK was : Explains(was, Lost, e.cpu, StackOf(e.cpu), events, prog[e.cpu])
  BY <1>1 DEF Inv, HasHistory
<1>3. was[k] \in Stacks /\ Fits(Lost, e.cpu, was[k], e)
  BY <1>1, <1>2, <1>e, OfHistory DEF Explains
<1>4. CASE e.kind = "StartSpan"
  BY <1>1, <1>3, <1>4, <1>e DEF Fits
<1>5. CASE e.kind = "EndSpan"
  <2>q. PICK q \in Stacks : q = was[k]
    BY <1>3
  <2>1. PICK a \in DOMAIN q : e.content = q[a].name
    BY <1>3, <1>5, <2>q DEF Fits
  <2>2. q[a] \in ProgramSpan
    BY OfStack
  <2> QED
    BY <1>1, <1>5, <1>e, <2>1, <2>2 DEF ProgramSpan
<1> QED
  BY <1>1, <1>4, <1>5, <1>e

(* What Emit does with the first event.                                    *)
LEMMA EmitEffect ==
  ASSUME Inv, Emit
  PROVE  \E e \in Event :
           /\ events # <<>> /\ e = Head(events) /\ e = events[1] /\ 1 \in 1 .. Len(events)
           /\ events' = Tail(events) /\ events' \in Seq(Event)
           /\ e.cpu \in Cpus
           /\ spans' \in Seq(Seq(OpenSpan))
           /\ \A d \in Cpus \ {e.cpu} : StackOf(d)' = StackOf(d)
           /\ \/ /\ e.kind = "Message" /\ missingStarts' = missingStarts
                 /\ StackOf(e.cpu)' = StackOf(e.cpu)
              \/ /\ e.kind = "StartSpan" /\ missingStarts' = missingStarts
                 /\ StackOf(e.cpu)' = Append(StackOf(e.cpu),
                                             [name |-> e.content, id |-> e.id,
                                              parent |-> Back(StackOf(e.cpu))])
              \/ /\ e.kind = "StartSpan" /\ missingStarts' = missingStarts \cup {e.cpu}
                 /\ StackOf(e.cpu)' = StackOf(e.cpu)
              \/ /\ e.kind = "EndSpan" /\ missingStarts' = missingStarts
                 /\ StackOf(e.cpu)' = PopThrough(StackOf(e.cpu), e.content)
<1>1. /\ TypeOK /\ events \in Seq(Event) /\ events # <<>> /\ events' = Tail(events)
  BY DEF Inv, TypeOK, Emit
<1>2. 1 \in 1 .. Len(events) /\ Tail(events) \in Seq(Event)
  BY <1>1, EmptySeq, HeadTailProperties
<1>e. PICK e : e = Head(events)
  OBVIOUS
<1>3. e = events[1]
  BY <1>1, <1>e
<1>4. /\ e \in Event /\ e.cpu \in Cpus
      /\ e.kind = "StartSpan" => e.content \in Names /\ e.id \in Ids
  BY <1>2, <1>3, EventsOfSpans
<1>s. PICK stack \in Seq(OpenSpan) : stack = StackOf(e.cpu)
  BY <1>1, <1>4, OfStackOf
<1>5. ParentOf(e) = Back(stack) /\ StacksFor(e.cpu)[e.cpu + 1] = stack
  BY <1>1, <1>4, <1>s, RoomForCpu DEF ParentOf
<1>6. \/ EmitMessage(e, StacksFor(e.cpu)) \/ EmitStart(e, StacksFor(e.cpu))
      \/ EmitEnd(e, StacksFor(e.cpu))
  BY <1>e DEF Emit
<1>7. CASE EmitMessage(e, StacksFor(e.cpu))
  BY <1>1, <1>2, <1>3, <1>4, <1>e, <1>7, SameStacks DEF EmitMessage
<1>8. CASE EmitStart(e, StacksFor(e.cpu)) /\ Enabled(e)
  <2>p. PICK pushed : pushed = Append(stack, [name |-> e.content, id |-> e.id,
                                              parent |-> Back(stack)])
    OBVIOUS
  <2>1. pushed \in Seq(OpenSpan)
    <3>1. Back(stack) \in Ids \cup {NoSpan}
      <4>1. stack # <<>> => Len(stack) \in 1 .. Len(stack)
        BY EmptySeq
      <4>2. stack # <<>> => stack[Len(stack)] \in OpenSpan
        BY <4>1, ElementOfSeq
      <4> QED
        BY <4>2 DEF Back, OpenSpan
    <3>2. [name |-> e.content, id |-> e.id, parent |-> Back(stack)] \in OpenSpan
      BY <1>4, <1>8, <3>1 DEF OpenSpan, EmitStart
    <3> QED
      BY <2>p, <3>2, AppendProperties
  <2>2. /\ e.kind = "StartSpan" /\ missingStarts' = missingStarts
        /\ spans' = [StacksFor(e.cpu) EXCEPT ![e.cpu + 1] = pushed]
    BY <1>5, <1>8, <2>p DEF EmitStart
  <2>3. /\ spans' \in Seq(Seq(OpenSpan)) /\ StackOf(e.cpu)' = pushed
        /\ \A d \in Cpus \ {e.cpu} : StackOf(d)' = StackOf(d)
    BY <1>1, <1>4, <2>1, <2>2, OtherStack
  <2> QED
    BY <1>1, <1>2, <1>3, <1>4, <1>e, <1>s, <2>2, <2>3, <2>p
<1>9. CASE EmitStart(e, StacksFor(e.cpu)) /\ ~Enabled(e)
  BY <1>1, <1>2, <1>3, <1>4, <1>e, <1>9, SameStacks DEF EmitStart
<1>10. CASE EmitEnd(e, StacksFor(e.cpu))
  <2>p. PICK popped : popped = PopThrough(stack, e.content)
    OBVIOUS
  <2>1. popped \in Seq(OpenSpan)
    <3>1. CASE popped = <<>>
      BY <3>1, EmptySeq
    <3>2. ASSUME NEW j \in 1 .. Len(stack), popped = SubSeq(stack, 1, j - 1)
          PROVE  popped \in Seq(OpenSpan)
      <4>1. j - 1 \in 0 .. Len(stack)
        BY LenProperties
      <4> QED
        BY <3>2, <4>1, FrontOf
    <3> QED
      BY <2>p, <3>1, <3>2, PopThroughCuts
  <2>2. /\ e.kind = "EndSpan" /\ missingStarts' = missingStarts
        /\ spans' = [StacksFor(e.cpu) EXCEPT ![e.cpu + 1] = popped]
    BY <1>5, <1>10, <2>p DEF EmitEnd
  <2>3. /\ spans' \in Seq(Seq(OpenSpan)) /\ StackOf(e.cpu)' = popped
        /\ \A d \in Cpus \ {e.cpu} : StackOf(d)' = StackOf(d)
    BY <1>1, <1>4, <2>1, <2>2, OtherStack
  <2> QED
    BY <1>1, <1>2, <1>3, <1>4, <1>e, <1>s, <2>2, <2>3, <2>p
<1> QED
  BY <1>6, <1>7, <1>8, <1>9, <1>10

(* The program writes an event, and has open what that makes of it.        *)
LEMMA WriteStep ==
  ASSUME Inv, NEW cpu \in Cpus, NEW e \in Event, e.cpu = cpu,
         events' = Append(events, e), Fits(Lost, cpu, prog[cpu], e),
         prog' = [prog EXCEPT ![cpu] = After(cpu, prog[cpu], e)],
         UNCHANGED <<spans, missingStarts, missingEnds>>
  PROVE  \A c \in Cpus : HasHistory(c)'
<1>1. SUFFICES ASSUME NEW c \in Cpus PROVE HasHistory(c)'
  OBVIOUS
<1>2. TypeOK /\ events \in Seq(Event) /\ prog \in [Cpus -> Seq(ProgramSpan)]
  BY DEF Inv, TypeOK
<1>l. PICK lost : lost = Lost
  OBVIOUS
<1>s. PICK stack \in Seq(OpenSpan) : stack = StackOf(c)
  BY <1>2, OfStackOf
<1>f. PICK inFlight \in Seq(Event) : inFlight = events
  BY <1>2
<1>o. PICK open : open = prog[c]
  OBVIOUS
<1>3. PICK was : Explains(was, lost, c, stack, inFlight, open)
  BY <1>l, <1>s, <1>f, <1>o DEF Inv, HasHistory
<1>4. Fits(lost, c, open, e)
  <2>1. CASE c = cpu
    BY <1>l, <1>o, <2>1
  <2>2. CASE c # cpu
    BY <2>2 DEF Fits
  <2> QED
    BY <2>1, <2>2
<1>5. prog'[c] = After(c, open, e)
  <2>1. CASE c = cpu
    BY <1>2, <1>o, <2>1
  <2>2. CASE c # cpu
    BY <1>2, <1>o, <2>2 DEF After
  <2> QED
    BY <2>1, <2>2
<1>6. PICK next : Explains(next, lost, c, stack, Append(inFlight, e), After(c, open, e))
  BY <1>3, <1>4, WriteExplains
<1>7. lost = Lost' /\ stack = StackOf(c)' /\ Append(inFlight, e) = events'
  BY <1>l, <1>s, <1>f DEF Lost, StackOf
<1> QED
  BY <1>5, <1>6, <1>7, NextHistory

(* The program changes what it has open without writing an event.          *)
LEMMA QuietStep ==
  ASSUME Inv, NEW cpu \in Cpus, NEW q \in Stacks, Becomes(Lost', cpu, prog[cpu], q),
         prog' = [prog EXCEPT ![cpu] = q],
         UNCHANGED <<spans, events, missingEnds>>, missingStarts \subseteq missingStarts'
  PROVE  \A c \in Cpus : HasHistory(c)'
<1>1. SUFFICES ASSUME NEW c \in Cpus PROVE HasHistory(c)'
  OBVIOUS
<1>2. TypeOK /\ events \in Seq(Event) /\ prog \in [Cpus -> Seq(ProgramSpan)]
  BY DEF Inv, TypeOK
<1>l. PICK lost : lost = Lost
  OBVIOUS
<1>m. PICK more : more = Lost'
  OBVIOUS
<1>s. PICK stack \in Seq(OpenSpan) : stack = StackOf(c)
  BY <1>2, OfStackOf
<1>f. PICK inFlight \in Seq(Event) : inFlight = events
  BY <1>2
<1>o. PICK open : open = prog[c]
  OBVIOUS
<1>3. PICK was : Explains(was, lost, c, stack, inFlight, open)
  BY <1>l, <1>s, <1>f, <1>o DEF Inv, HasHistory
<1>4. lost.starts \subseteq more.starts /\ lost.ends \subseteq more.ends
  BY <1>l, <1>m, LostGrows
<1>5. Explains(was, more, c, stack, inFlight, open)
  BY <1>3, <1>4, StillExplains
<1>6. stack = StackOf(c)' /\ inFlight = events'
  BY <1>s, <1>f DEF StackOf
<1>7. CASE c = cpu
  <2>1. PICK next : Explains(next, more, c, stack, inFlight, q)
    BY <1>5, <1>7, <1>m, <1>o, ChangeExplains
  <2>2. prog'[c] = q
    BY <1>2, <1>7
  <2> QED
    BY <1>6, <1>m, <2>1, <2>2, NextHistory
<1>8. CASE c # cpu
  <2>1. prog'[c] = open
    BY <1>2, <1>8, <1>o
  <2> QED
    BY <1>5, <1>6, <1>m, <2>1, NextHistory
<1> QED
  BY <1>7, <1>8

(* What the program has open.                                              *)
LEMMA ProgramStack ==
  ASSUME Inv, NEW c \in Cpus
  PROVE  prog[c] \in Stacks /\ prog[c] \in Seq(ProgramSpan)
<1>1. PICK was : Explains(was, Lost, c, StackOf(c), events, prog[c])
  BY DEF Inv, HasHistory
<1>2. events \in Seq(Event) /\ prog \in [Cpus -> Seq(ProgramSpan)]
  BY DEF Inv, TypeOK
<1> QED
  BY <1>1, <1>2, OfHistory

LEMMA StartSpanInv ==
  ASSUME Inv, NEW cpu \in Cpus, NEW name \in Names, NEW level \in Levels,
         StartSpan(cpu, name, level)
  PROVE  Inv'
<1>1. TypeOK /\ events \in Seq(Event) /\ prog \in [Cpus -> Seq(ProgramSpan)]
  BY DEF Inv, TypeOK
<1>q. PICK q \in Stacks : q = prog[cpu]
  BY ProgramStack
<1>i. PICK id \in Ids : id = FreshId /\ id \notin IdsOf(q)
  <2>1. FreshId \in Ids \ IdsInUse
    BY SpansAssumption, FreshIsFresh DEF StartSpan
  <2> QED
    BY <1>q, <2>1 DEF IdsInUse
<1>s. PICK span \in ProgramSpan : span = [name |-> name, level |-> level, id |-> id]
  BY DEF ProgramSpan
<1>2. prog' = [prog EXCEPT ![cpu] = Append(q, span)]
  BY <1>q, <1>i, <1>s DEF StartSpan
<1>3. /\ UNCHANGED <<spans, missingEnds, losses, filter>>
  BY DEF StartSpan, threadVars, lossVars
<1>4. /\ Append(q, span) \in Stacks /\ Append(q, span) \in Seq(ProgramSpan)
      /\ DOMAIN q = 1 .. Len(q) /\ DOMAIN Append(q, span) = 1 .. Len(q) + 1 /\ Len(q) \in Nat
      /\ \A a \in 1 .. Len(q) : Append(q, span)[a] = q[a]
      /\ Append(q, span)[Len(q) + 1] = span
  BY <1>i, <1>s, PushedStack, OfStack
<1>5. prog' \in [Cpus -> Seq(ProgramSpan)]
  BY <1>1, <1>2, <1>4
<1>6. CASE CompiledIn(level)
  <2>e. PICK e \in Event : e = [kind |-> "StartSpan", level |-> level, cpu |-> cpu,
                                content |-> name, id |-> id]
    <3>1. level \in 0 .. MaxLevel
      BY SpansAssumption DEF SpansAssumption, Levels
    <3> QED
      BY <3>1 DEF Event, Kinds
  <2>1. events' = Append(events, e) /\ missingStarts' = missingStarts
    BY <1>6, <1>i, <2>e DEF StartSpan, Write
  <2>2. events' \in Seq(Event)
    BY <1>1, <2>1, AppendProperties
  <2>3. TypeOK'
    BY <1>1, <1>3, <1>5, <2>1, <2>2 DEF TypeOK
  <2>4. ASSUME NEW c \in Cpus PROVE AllCompiledIn(c)'
    <3>1. AllCompiledIn(c)
      BY DEF Inv
    <3>2. CASE c = cpu
      <4>1. prog'[c] = Append(q, span) /\ prog[c] = q
        BY <1>1, <1>2, <1>q, <3>2
      <4>2. \A a \in 1 .. Len(q) + 1 : a \in 1 .. Len(q) \/ a = Len(q) + 1
        BY <1>4
      <4> QED
        BY <1>4, <1>6, <1>s, <2>1, <3>1, <4>1, <4>2 DEF AllCompiledIn
    <3>3. CASE c # cpu
      BY <1>1, <1>2, <2>1, <3>1, <3>3 DEF AllCompiledIn
    <3> QED
      BY <3>2, <3>3
  <2>5. \A c \in Cpus : HasHistory(c)'
    <3>1. Fits(Lost, cpu, prog[cpu], e)
      BY <1>6, <1>i, <1>q, <2>e DEF Fits
    <3>2. After(cpu, prog[cpu], e) = Append(q, span)
      BY <1>q, <1>s, <2>e DEF After
    <3> QED
      BY <1>2, <1>3, <2>1, <2>e, <3>1, <3>2, WriteStep
  <2> QED
    BY <2>3, <2>4, <2>5 DEF Inv
<1>7. CASE ~CompiledIn(level)
  <2>1. events' = events /\ missingStarts' = missingStarts \cup {cpu}
    BY <1>7 DEF StartSpan
  <2>2. TypeOK'
    BY <1>1, <1>3, <1>5, <2>1 DEF TypeOK
  <2>3. ASSUME NEW c \in Cpus PROVE AllCompiledIn(c)'
    <3>1. AllCompiledIn(c)
      BY DEF Inv
    <3>2. c = cpu \/ prog'[c] = prog[c]
      BY <1>1, <1>2
    <3> QED
      BY <2>1, <3>1, <3>2 DEF AllCompiledIn
  <2>4. Becomes(Lost', cpu, prog[cpu], Append(q, span))
    <3>l. PICK more : more = Lost'
      OBVIOUS
    <3>1. cpu \in more.starts
      BY <2>1, <3>l DEF Lost
    <3>2. DOMAIN q \subseteq DOMAIN Append(q, span)
      BY <1>4
    <3>3. Keeps(more, cpu, q, Append(q, span))
      BY <1>4, <3>2 DEF Keeps
    <3> QED
      BY <1>q, <3>l, <3>1, <3>3 DEF Becomes, NothingLost
  <2>5. \A c \in Cpus : HasHistory(c)'
    BY <1>2, <1>3, <1>4, <2>1, <2>4, QuietStep
  <2> QED
    BY <2>2, <2>3, <2>5 DEF Inv
<1> QED
  BY <1>6, <1>7

LEMMA EndSpanInv ==
  ASSUME Inv, NEW cpu \in Cpus, NEW m \in DOMAIN prog[cpu], EndSpan(cpu, m)
  PROVE  Inv'
<1>1. TypeOK /\ events \in Seq(Event) /\ prog \in [Cpus -> Seq(ProgramSpan)]
  BY DEF Inv, TypeOK
<1>q. PICK q \in Stacks : q = prog[cpu]
  BY ProgramStack
<1>r. PICK r : r = SubSeq(q, 1, m - 1)
  OBVIOUS
<1>2. prog' = [prog EXCEPT ![cpu] = r]
  BY <1>q, <1>r DEF EndSpan
<1>3. UNCHANGED <<spans, missingStarts, missingEnds, losses, filter>>
  BY DEF EndSpan, threadVars, lossVars
<1>4. /\ Len(q) \in Nat /\ DOMAIN q = 1 .. Len(q) /\ m \in 1 .. Len(q) /\ q[m] \in ProgramSpan
      /\ \A a, b \in 1 .. Len(q) : q[a].id = q[b].id => a = b
      /\ r \in Stacks /\ r \in Seq(ProgramSpan) /\ DOMAIN r = 1 .. m - 1 /\ Len(r) = m - 1
      /\ \A a \in 1 .. m - 1 : r[a] = q[a] /\ a \in 1 .. Len(q)
  <2>1. DOMAIN q = 1 .. Len(q) /\ m \in 1 .. Len(q)
    BY <1>q, OfStack
  <2>2. /\ r \in Stacks /\ Len(r) = m - 1 /\ DOMAIN r = 1 .. m - 1
        /\ \A a \in 1 .. m - 1 : r[a] = q[a] /\ a \in 1 .. Len(q)
    BY ONLY <1>q, <1>r, <2>1, CutStack
  <2>3. r \in Seq(ProgramSpan)
    BY ONLY <2>2, OfStack
  <2>4. /\ Len(q) \in Nat /\ \A a \in 1 .. Len(q) : q[a] \in ProgramSpan
        /\ \A a, b \in 1 .. Len(q) : q[a].id = q[b].id => a = b
    BY ONLY <1>q, OfStack
  <2> QED
    BY ONLY <2>1, <2>2, <2>3, <2>4
<1>5. prog' \in [Cpus -> Seq(ProgramSpan)]
  BY <1>1, <1>2, <1>4
<1>6. ASSUME NEW c \in Cpus PROVE AllCompiledIn(c)'
  <2>1. AllCompiledIn(c)
    BY DEF Inv
  <2>2. CASE c = cpu
    <3>1. prog'[c] = r /\ prog[c] = q
      BY <1>1, <1>2, <1>q, <2>2
    <3> QED
      BY <1>3, <1>4, <2>1, <3>1 DEF AllCompiledIn
  <2>3. CASE c # cpu
    BY <1>1, <1>2, <1>3, <2>1, <2>3 DEF AllCompiledIn
  <2> QED
    BY <2>2, <2>3
<1>7. CASE BuildLevel # 0
  <2>e. PICK e \in Event : e = [kind |-> "EndSpan", level |-> 0, cpu |-> cpu,
                                content |-> q[m].name, id |-> q[m].id]
    <3>1. 0 \in 0 .. MaxLevel
      BY SpansAssumption DEF SpansAssumption
    <3> QED
      BY <1>4, <3>1 DEF Event, Kinds, ProgramSpan
  <2>1. events' = Append(events, e)
    BY <1>7, <1>q, <2>e DEF EndSpan, Write
  <2>2. events' \in Seq(Event)
    BY <1>1, <2>1, AppendProperties
  <2>3. TypeOK'
    BY <1>1, <1>3, <1>5, <2>2 DEF TypeOK
  <2>4. Fits(Lost, cpu, prog[cpu], e)
    <3>1. \A a \in DOMAIN q : q[a].name = q[m].name => a <= m
      BY <1>q DEF EndSpan
    <3> QED
      BY <1>4, <1>q, <2>e, <3>1 DEF Fits
  <2>5. After(cpu, prog[cpu], e) = r
    <3>1. (CHOOSE a \in DOMAIN q : q[a].id = e.id) = m
      BY <1>4, <2>e
    <3> QED
      BY <1>q, <1>r, <2>e, <3>1 DEF After
  <2>6. \A c \in Cpus : HasHistory(c)'
    BY <1>2, <1>3, <2>1, <2>e, <2>4, <2>5, WriteStep
  <2> QED
    BY <1>6, <2>3, <2>6 DEF Inv
<1>8. CASE BuildLevel = 0
  <2>1. events' = events
    BY <1>8 DEF EndSpan
  <2>2. TypeOK'
    BY <1>1, <1>3, <1>5, <2>1 DEF TypeOK
  <2>3. \A a \in 1 .. Len(q) : ~CompiledIn(q[a].level)
    <3>1. \A a \in 1 .. Len(q) : q[a].level \in 1 .. MaxLevel
      BY OfStack DEF ProgramSpan, Levels
    <3> QED
      BY <1>8, <3>1, SpansAssumption DEF CompiledIn, SpansAssumption
  <2>4. cpu \in missingStarts
    BY <1>4, <1>q, <2>3 DEF Inv, AllCompiledIn
  <2>5. Becomes(Lost', cpu, prog[cpu], r)
    <3>l. PICK more : more = Lost'
      OBVIOUS
    <3>1. cpu \in more.starts
      BY <1>3, <2>4, <3>l DEF Lost
    <3>2. Keeps(more, cpu, q, r)
      BY <1>4, <2>3 DEF Keeps, Known
    <3> QED
      BY <1>q, <3>l, <3>1, <3>2 DEF Becomes, NothingLost
  <2>6. \A c \in Cpus : HasHistory(c)'
    BY <1>2, <1>3, <1>4, <2>1, <2>5, QuietStep
  <2> QED
    BY <1>6, <2>2, <2>6 DEF Inv
<1> QED
  BY <1>7, <1>8

LEMMA MessageInv ==
  ASSUME Inv, NEW cpu \in Cpus, NEW level \in Levels, Message(cpu, level)
  PROVE  Inv'
<1>1. TypeOK /\ events \in Seq(Event) /\ prog \in [Cpus -> Seq(ProgramSpan)]
  BY DEF Inv, TypeOK
<1>q. PICK q \in Stacks : q = prog[cpu]
  BY ProgramStack
<1>i. PICK id : id = InnermostCompiledIn(cpu)
  OBVIOUS
<1>2. UNCHANGED <<prog, spans, missingStarts, missingEnds, losses, filter>>
  BY DEF Message, programVars, threadVars, lossVars
<1>k. PICK known : known = {i \in DOMAIN q : CompiledIn(q[i].level)}
  OBVIOUS
<1>3. /\ Len(q) \in Nat /\ DOMAIN q = 1 .. Len(q)
      /\ \A a \in 1 .. Len(q) : q[a] \in ProgramSpan
      /\ q # <<>> <=> Len(q) # 0
  BY OfStack
<1>4. id \in Ids \cup {NoSpan} /\ (cpu \notin missingStarts => id = Innermost(q))
  <2>1. CASE known = {}
    <3>1. id = NoSpan
      BY <1>i, <1>k, <1>q, <2>1 DEF InnermostCompiledIn
    <3>2. ASSUME cpu \notin missingStarts, q # <<>> PROVE FALSE
      <4>1. Len(q) \in DOMAIN q
        BY <1>3, <3>2
      <4> QED
        BY <1>k, <1>q, <2>1, <3>2, <4>1 DEF Inv, AllCompiledIn
    <3> QED
      BY <3>1, <3>2 DEF Innermost
  <2>2. CASE known # {}
    <3>1. known \subseteq 0 .. Len(q)
      BY <1>3, <1>k
    <3>2. \E i \in known : \A j \in known : j <= i
      BY <1>3, <2>2, <3>1, LargestOf
    <3>m. PICK m : m = CHOOSE i \in known : \A j \in known : j <= i
      OBVIOUS
    <3>3. m \in known /\ \A j \in known : j <= m
      BY <3>2, <3>m
    <3>4. id = q[m].id
      BY <1>i, <1>k, <1>q, <2>2, <3>m DEF InnermostCompiledIn
    <3>5. m \in 1 .. Len(q) /\ q[m] \in ProgramSpan
      BY <1>3, <1>k, <3>3
    <3>6. ASSUME cpu \notin missingStarts PROVE id = Innermost(q)
      <4>1. known = 1 .. Len(q)
        BY <1>3, <1>k, <1>q, <3>6 DEF Inv, AllCompiledIn
      <4>2. Len(q) \in 1 .. Len(q)
        BY <1>3, <3>5
      <4>3. Len(q) <= m
        BY <3>3, <4>1, <4>2
      <4>4. m = Len(q)
        <5>1. m \in 1 .. Len(q) /\ Len(q) \in Nat
          BY <1>3, <3>5
        <5> QED
          BY <4>3, <5>1
      <4>5. q # <<>>
        <5>1. Len(q) \in Nat /\ Len(q) # 0
          BY <1>3, <4>2
        <5> QED
          BY <1>3, <5>1
      <4> QED
        BY <3>4, <4>4, <4>5 DEF Innermost
    <3> QED
      BY <3>4, <3>5, <3>6 DEF ProgramSpan
  <2> QED
    BY <2>1, <2>2
<1>e. PICK e \in Event : e = [kind |-> "Message", level |-> level, cpu |-> cpu,
                              content |-> NoName, id |-> id]
  <2>1. level \in 0 .. MaxLevel
    BY SpansAssumption DEF SpansAssumption, Levels
  <2> QED
    BY <1>4, <2>1 DEF Event, Kinds
<1>5. events' = Append(events, e)
  BY <1>e, <1>i DEF Message, Write
<1>6. events' \in Seq(Event)
  BY <1>1, <1>5, AppendProperties
<1>7. TypeOK'
  BY <1>1, <1>2, <1>6 DEF TypeOK
<1>8. \A c \in Cpus : AllCompiledIn(c)'
  BY <1>2 DEF Inv, AllCompiledIn
<1>9. \A c \in Cpus : HasHistory(c)'
  <2>1. Fits(Lost, cpu, prog[cpu], e)
    BY <1>4, <1>e, <1>q DEF Fits, Lost
  <2>2. prog' = [prog EXCEPT ![cpu] = After(cpu, prog[cpu], e)]
    BY <1>1, <1>2, <1>e DEF After
  <2> QED
    BY <1>2, <1>5, <1>e, <2>1, <2>2, WriteStep
<1> QED
  BY <1>7, <1>8, <1>9 DEF Inv

LEMMA LoseInv ==
  ASSUME Inv, NEW i \in DOMAIN events, Lose(i)
  PROVE  Inv'
<1>1. /\ TypeOK /\ events \in Seq(Event) /\ DOMAIN events = 1 .. Len(events)
      /\ missingStarts \subseteq Cpus /\ missingEnds \subseteq Cpus
  BY LenProperties DEF Inv, TypeOK
<1>f. PICK inFlight \in Seq(Event) : inFlight = events /\ i \in 1 .. Len(inFlight)
  BY <1>1
<1>e. PICK e \in Event : e = inFlight[i]
  BY <1>f, ElementOfSeq
<1>l. PICK left : left = SubSeq(inFlight, 1, i - 1) \o SubSeq(inFlight, i + 1, Len(inFlight))
  OBVIOUS
<1>2. e.cpu \in Cpus
  BY <1>e, <1>f, EventsOfSpans
<1>3. /\ events' = left /\ UNCHANGED <<prog, spans, filter>>
      /\ losses < MaxLosses /\ losses' = losses + 1
      /\ missingStarts' = IF e.kind = "StartSpan"
                          THEN missingStarts \cup {e.cpu} ELSE missingStarts
      /\ missingEnds' = IF e.kind = "EndSpan"
                        THEN missingEnds \cup {e.cpu} ELSE missingEnds
  BY <1>e, <1>f, <1>l DEF Lose, programVars, threadVars
<1>4. TypeOK'
  <2>1. events' \in Seq(Event)
    BY <1>3, <1>f, <1>l, Without
  <2>2. losses' \in 0 .. MaxLosses
    BY <1>1, <1>3, SpansAssumption DEF SpansAssumption, TypeOK
  <2>3. missingStarts' \subseteq Cpus /\ missingEnds' \subseteq Cpus
    BY <1>1, <1>2, <1>3
  <2> QED
    BY <1>1, <1>3, <2>1, <2>2, <2>3 DEF TypeOK
<1>5. missingStarts \subseteq missingStarts' /\ missingEnds \subseteq missingEnds'
  BY <1>3
<1>6. \A c \in Cpus : AllCompiledIn(c)'
  BY <1>3, <1>5 DEF Inv, AllCompiledIn
<1>7. ASSUME NEW c \in Cpus PROVE HasHistory(c)'
  <2>l. PICK lost : lost = Lost
    OBVIOUS
  <2>m. PICK more : more = Lost'
    OBVIOUS
  <2>s. PICK stack \in Seq(OpenSpan) : stack = StackOf(c)
    BY <1>1, OfStackOf
  <2>o. PICK open : open = prog[c]
    OBVIOUS
  <2>1. PICK was : Explains(was, lost, c, stack, inFlight, open)
    BY <1>f, <2>l, <2>s, <2>o DEF Inv, HasHistory
  <2>2. lost.starts \subseteq more.starts /\ lost.ends \subseteq more.ends
    BY <1>5, <2>l, <2>m, LostGrows
  <2>3. Explains(was, more, c, stack, inFlight, open)
    BY <2>1, <2>2, StillExplains
  <2>4. was[i] \in Stacks /\ Fits(more, c, was[i], e)
    BY <1>e, <1>f, <2>3, OfHistory DEF Explains
  <2>5. /\ e.cpu = c /\ e.kind = "StartSpan" => c \in more.starts
        /\ e.cpu = c /\ e.kind = "EndSpan" => ~NoEndLost(more, c)
    BY <1>3, <2>m DEF Lost, NoEndLost
  <2>6. Becomes(more, c, was[i], After(c, was[i], inFlight[i]))
    BY <1>e, <2>4, <2>5, LostBecomes
  <2>7. PICK next : Explains(next, more, c, stack, left, open)
    BY <1>f, <1>l, <2>3, <2>6, LoseExplains
  <2>8. stack = StackOf(c)' /\ left = events' /\ open = prog'[c]
    BY <1>3, <2>s, <2>o DEF StackOf
  <2> QED
    BY <2>7, <2>8, <2>m, NextHistory
<1> QED
  BY <1>4, <1>6, <1>7 DEF Inv

LEMMA EmitInv ==
  ASSUME Inv, Emit
  PROVE  Inv'
<1>1. TypeOK /\ events \in Seq(Event)
  BY DEF Inv, TypeOK
<1>f. PICK inFlight \in Seq(Event) : inFlight = events
  BY <1>1
<1>e. PICK e \in Event :
        /\ inFlight # <<>> /\ e = inFlight[1] /\ 1 \in 1 .. Len(inFlight)
        /\ events' = Tail(inFlight) /\ events' \in Seq(Event)
        /\ e.cpu \in Cpus
        /\ spans' \in Seq(Seq(OpenSpan))
        /\ \A d \in Cpus \ {e.cpu} : StackOf(d)' = StackOf(d)
        /\ \/ /\ e.kind = "Message" /\ missingStarts' = missingStarts
              /\ StackOf(e.cpu)' = StackOf(e.cpu)
           \/ /\ e.kind = "StartSpan" /\ missingStarts' = missingStarts
              /\ StackOf(e.cpu)' = Append(StackOf(e.cpu),
                                          [name |-> e.content, id |-> e.id,
                                           parent |-> Back(StackOf(e.cpu))])
           \/ /\ e.kind = "StartSpan" /\ missingStarts' = missingStarts \cup {e.cpu}
              /\ StackOf(e.cpu)' = StackOf(e.cpu)
           \/ /\ e.kind = "EndSpan" /\ missingStarts' = missingStarts
              /\ StackOf(e.cpu)' = PopThrough(StackOf(e.cpu), e.content)
  BY <1>f, EmitEffect
<1>2. UNCHANGED <<prog, losses, missingEnds, filter>>
  BY DEF Emit, programVars, lossVars
<1>3. missingStarts \subseteq missingStarts' /\ missingEnds \subseteq missingEnds'
  BY <1>e, <1>2
<1>4. TypeOK'
  <2>1. missingStarts' \subseteq Cpus
    BY <1>1, <1>e DEF TypeOK
  <2> QED
    BY <1>1, <1>e, <1>2, <2>1 DEF TypeOK
<1>5. \A c \in Cpus : AllCompiledIn(c)'
  BY <1>2, <1>3 DEF Inv, AllCompiledIn
<1>6. ASSUME NEW c \in Cpus PROVE HasHistory(c)'
  <2>l. PICK lost : lost = Lost
    OBVIOUS
  <2>m. PICK more : more = Lost'
    OBVIOUS
  <2>s. PICK stack \in Seq(OpenSpan) : stack = StackOf(c)
    BY <1>1, OfStackOf
  <2>n. PICK nextStack \in Seq(OpenSpan) : nextStack = StackOf(c)'
    BY <1>4, OfNextStack
  <2>o. PICK open : open = prog[c]
    OBVIOUS
  <2>1. PICK was : Explains(was, lost, c, stack, inFlight, open)
    BY <1>f, <2>l, <2>s, <2>o DEF Inv, HasHistory
  <2>2. lost.starts \subseteq more.starts /\ lost.ends \subseteq more.ends
    BY <1>3, <2>l, <2>m, LostGrows
  <2>3. Explains(was, more, c, stack, inFlight, open)
    BY <2>1, <2>2, StillExplains
  <2>q. PICK q \in Stacks : q = was[1]
    BY <2>3, OfHistory
  <2>4. Fits(more, c, q, e) /\ Mirrors(more, c, stack, q)
    BY <1>e, <2>3, <2>q DEF Explains
  <2>5. Mirrors(more, c, nextStack, After(c, q, e))
    <3>1. CASE e.cpu # c \/ e.kind = "Message"
      <4>1. nextStack = stack
        BY <1>e, <2>n, <2>s, <3>1
      <4> QED
        BY <2>4, <3>1, <4>1 DEF After
    <3>2. CASE e.cpu = c /\ e.kind = "StartSpan"
      <4>s. PICK span : span = [name |-> e.content, level |-> e.level, id |-> e.id]
        OBVIOUS
      <4>1. /\ span \in ProgramSpan
            /\ span.name = e.content /\ span.id = e.id /\ span.id \notin IdsOf(q)
            /\ CompiledIn(span.level) /\ After(c, q, e) = Append(q, span)
        <5>1. /\ e.content \in Names /\ e.level \in Levels /\ CompiledIn(e.level)
              /\ e.id \in Ids \ IdsOf(q)
          BY <2>4, <3>2 DEF Fits
        <5>2. span \in ProgramSpan
          BY <4>s, <5>1 DEF ProgramSpan
        <5>3. After(c, q, e) = Append(q, span)
          BY <3>2, <4>s DEF After
        <5> QED
          BY <4>s, <5>1, <5>2, <5>3
      <4>2. CASE nextStack = Append(stack, [name |-> e.content, id |-> e.id,
                                            parent |-> Back(stack)])
        BY <2>4, <4>1, <4>2, StartMirrors
      <4>3. CASE nextStack = stack /\ c \in more.starts
        BY <2>4, <4>1, <4>3, MissedStartMirrors
      <4>4. missingStarts' = missingStarts \cup {e.cpu} => c \in more.starts
        BY <2>m, <3>2 DEF Lost
      <4> QED
        BY <1>e, <2>n, <2>s, <3>2, <4>2, <4>3, <4>4
    <3>3. CASE e.cpu = c /\ e.kind = "EndSpan"
      <4>r. PICK r : r = After(c, q, e)
        OBVIOUS
      <4>e. PICK k \in 1 .. Len(q) : Ends(c, q, e, k)
        BY <2>4, <3>3, AfterEnd
      <4>1. /\ q[k].name = e.content /\ r = SubSeq(q, 1, k - 1)
            /\ \A a \in 1 .. Len(q) : q[a].name = e.content => a <= k
        BY <4>e, <4>r DEF Ends
      <4>2. nextStack = PopThrough(stack, e.content)
        BY <1>e, <2>n, <2>s, <3>3
      <4>3. Mirrors(more, c, PopThrough(stack, e.content), SubSeq(q, 1, k - 1))
        BY <2>4, <4>1, EndMirrors
      <4> QED
        BY <4>1, <4>2, <4>3, <4>r
    <3>4. e.kind \in Kinds
      BY DEF Event
    <3> QED
      BY <3>1, <3>2, <3>3, <3>4 DEF Kinds
  <2>6. PICK next : Explains(next, more, c, nextStack, Tail(inFlight), open)
    BY <1>e, <2>3, <2>5, <2>q, HandleExplains
  <2>7. Tail(inFlight) = events' /\ open = prog'[c]
    BY <1>e, <1>2, <2>o
  <2> QED
    BY <2>6, <2>7, <2>m, <2>n, NextHistory
<1> QED
  BY <1>4, <1>5, <1>6 DEF Inv

LEMMA InitInv == Init => Inv
<1>1. SUFFICES ASSUME Init PROVE Inv
  OBVIOUS
<1>2. TypeOK
  <2>1. <<>> \in Seq(ProgramSpan) /\ <<>> \in Seq(Event) /\ <<>> \in Seq(OpenSpan)
    BY EmptySeq
  <2>2. spans \in [1 .. Parallelism -> Seq(OpenSpan)] /\ Parallelism \in Nat
    BY <1>1, <2>1, SpansAssumption DEF Init, SpansAssumption
  <2>3. spans \in Seq(Seq(OpenSpan))
    BY <2>2, SeqDef
  <2>4. 0 \in 0 .. MaxLosses
    BY SpansAssumption DEF SpansAssumption
  <2> QED
    BY <1>1, <2>1, <2>3, <2>4 DEF Init, TypeOK
<1>3. \A c \in Cpus : prog[c] = <<>>
  BY <1>1 DEF Init
<1>4. \A c \in Cpus : AllCompiledIn(c)
  BY <1>3 DEF AllCompiledIn
<1>5. ASSUME NEW c \in Cpus PROVE HasHistory(c)
  <2>1. <<>> \in Stacks /\ Len(<<>>) = 0
    BY EmptySeq DEF Stacks
  <2>2. StackOf(c) = <<>>
    <3>1. spans \in Seq(Seq(OpenSpan)) /\ c \in Nat
      BY <1>2, SpansAssumption DEF TypeOK, SpansAssumption
    <3>2. Len(spans) \in Nat /\ DOMAIN spans = 1 .. Len(spans)
      BY <3>1, LenProperties
    <3>3. \A i \in DOMAIN spans : spans[i] = <<>>
      BY <1>1 DEF Init
    <3>4. c < Len(spans) => c + 1 \in DOMAIN spans
      BY <3>1, <3>2
    <3> QED
      BY <3>3, <3>4 DEF StackOf
  <2>3. Mirrors(Lost, c, <<>>, <<>>)
    <3>1. HasEntry(<<>>, <<>>)
      <4>1. [a \in {} |-> 0] \in [{} -> {}] /\ DOMAIN <<>> = {}
        OBVIOUS
      <4> QED
        BY <4>1 DEF HasEntry
    <3>2. IsOpen(Lost, c, <<>>, <<>>) /\ SameNesting(<<>>, <<>>)
      BY DEF IsOpen, SameNesting
    <3> QED
      BY <3>1, <3>2 DEF Mirrors
  <2>w. PICK was : was = [k \in 1 .. 1 |-> <<>>]
    OBVIOUS
  <2>4. was \in [1 .. 0 + 1 -> Stacks] /\ was[1] = <<>> /\ was[0 + 1] = <<>>
    BY <2>1, <2>w
  <2>5. Explains(was, Lost, c, <<>>, <<>>, <<>>)
    BY <2>1, <2>3, <2>4 DEF Explains
  <2>6. events = <<>>
    BY <1>1 DEF Init
  <2> QED
    BY <1>3, <2>2, <2>5, <2>6 DEF HasHistory
<1> QED
  BY <1>2, <1>4, <1>5 DEF Inv

-----------------------------------------------------------------------------
(* Inv holds in every state of every behaviour of the program, the         *)
(* transport and the thread that handles events.                           *)
THEOREM Invariance == Spec => []Inv
<1>1. Inv /\ [Next]_vars => Inv'
  <2>1. SUFFICES ASSUME Inv, [Next]_vars PROVE Inv'
    OBVIOUS
  <2>2. ASSUME NEW l \in Filters, SetFilter(l) PROVE Inv'
    <3>1. UNCHANGED <<prog, spans, events, losses, missingStarts, missingEnds>> /\ filter' \in Filters
      BY <2>2 DEF SetFilter, programVars, threadVars, lossVars
    <3> QED
      BY <2>1, <3>1 DEF Inv, TypeOK, AllCompiledIn, HasHistory, StackOf, Lost
  <2>3. CASE UNCHANGED vars
    BY <2>1, <2>3 DEF vars, Inv, TypeOK, AllCompiledIn, HasHistory, StackOf, Lost
  <2>4. ASSUME NEW c \in Cpus, NEW site \in Sites, StartSpan(c, site[1], site[2])
        PROVE  Inv'
    <3>1. site[1] \in Names /\ site[2] \in Levels
      BY SpansAssumption DEF SpansAssumption
    <3> QED
      BY <2>1, <2>4, <3>1, StartSpanInv
  <2> QED
    BY <2>1, <2>2, <2>3, <2>4, EndSpanInv, MessageInv, LoseInv, EmitInv DEF Next
<1> QED
  BY InitInv, <1>1, PTL DEF Spec

(* Every variable keeps its type.                                          *)
THEOREM TypeCorrect == Spec => []TypeOK
<1>1. Inv => TypeOK
  BY DEF Inv
<1> QED
  BY Invariance, <1>1, PTL

LEMMA UndisturbedLost ==
  ASSUME NEW c \in Cpus
  PROVE  /\ Undisturbed(c) <=> NothingLost(Lost, c)
         /\ c \notin missingStarts <=> c \notin Lost.starts
         /\ c \notin missingEnds <=> NoEndLost(Lost, c)
BY DEF Undisturbed, NothingLost, Lost, NoEndLost

(* On a CPU of which nothing is missing, user space has the spans of the   *)
(* program once it has handled the events in flight, nested as they were   *)
(* opened (emit).                                                          *)
THEOREM NestingIsKept == Spec => []StackIsTheProgramsStack
<1>1. ASSUME Inv PROVE StackIsTheProgramsStack
  <2>1. SUFFICES ASSUME NEW c \in Cpus, Undisturbed(c), ~InFlight(c)
                 PROVE  SameNesting(StackOf(c), prog[c])
    BY DEF StackIsTheProgramsStack, SameNesting, SameSpan
  <2>2. PICK was : Explains(was, Lost, c, StackOf(c), events, prog[c])
    BY <1>1 DEF Inv, HasHistory
  <2>3. events \in Seq(Event) /\ DOMAIN events = 1 .. Len(events)
    BY <1>1, LenProperties DEF Inv, TypeOK
  <2>4. \A k \in 1 .. Len(events) : events[k].cpu # c
    BY <2>1, <2>3 DEF InFlight
  <2> QED
    BY <2>1, <2>2, <2>3, <2>4, NothingChanged, UndisturbedLost
<1> QED
  BY <1>1, Invariance, PTL

(* A message of such a CPU is emitted with the span as its parent that the *)
(* program was in when it wrote it.                                        *)
THEOREM MessagesKeepTheirSpan == Spec => []MessageInItsSpan
<1>1. ASSUME Inv PROVE MessageInItsSpan
  <2>1. SUFFICES ASSUME events # <<>>, Head(events).kind = "Message",
                        Undisturbed(Head(events).cpu)
                 PROVE  ParentOf(Head(events)) = Head(events).id
    BY DEF MessageInItsSpan
  <2>2. TypeOK /\ events \in Seq(Event)
    BY <1>1 DEF Inv, TypeOK
  <2>e. PICK e : e = Head(events)
    OBVIOUS
  <2>3. 1 \in 1 .. Len(events) /\ e = events[1]
    BY <2>1, <2>2, <2>e, EmptySeq
  <2>4. e \in Event /\ e.cpu \in Cpus
    BY <1>1, <2>3, EventsOfSpans
  <2>c. PICK c \in Cpus : c = e.cpu
    BY <2>4
  <2>5. PICK was : Explains(was, Lost, c, StackOf(c), events, prog[c])
    BY <1>1 DEF Inv, HasHistory
  <2>6. was[1] \in Stacks /\ Fits(Lost, c, was[1], e) /\ Mirrors(Lost, c, StackOf(c), was[1])
    BY <2>2, <2>3, <2>5, OfHistory DEF Explains
  <2>7. Undisturbed(c) /\ NothingLost(Lost, c) /\ c \notin Lost.starts
    BY <2>1, <2>c, <2>e, UndisturbedLost DEF NothingLost
  <2>8. e.id = Innermost(was[1])
    BY <2>1, <2>6, <2>7, <2>c, <2>e DEF Fits
  <2>9. Back(StackOf(c)) = Innermost(was[1])
    <3>1. SameNesting(StackOf(c), was[1]) /\ StackOf(c) \in Seq(OpenSpan)
      BY <2>2, <2>6, <2>7, OfStackOf DEF Mirrors
    <3> QED
      BY <2>6, <3>1, BackIsInnermost
  <2>10. ParentOf(e) = Back(StackOf(c))
    BY <2>2, <2>c, RoomForCpu DEF ParentOf
  <2> QED
    BY <2>8, <2>9, <2>10, <2>e
<1> QED
  BY <1>1, Invariance, PTL

(* As long as no start of a CPU is missing, an end, whether it arrives or  *)
(* is lost, never closes a span that is still open in the program.         *)
THEOREM NeverClosedEarly == Spec => []OpenUntilItsEnd
<1>1. ASSUME Inv PROVE OpenUntilItsEnd
  <2>1. SUFFICES ASSUME NEW c \in Cpus, c \notin missingStarts
                 PROVE  IdsOf(prog[c]) \subseteq IdsOf(StackOf(c)) \cup IdsOf(events)
    BY DEF OpenUntilItsEnd
  <2>2. PICK was : Explains(was, Lost, c, StackOf(c), events, prog[c])
    BY <1>1 DEF Inv, HasHistory
  <2>3. events \in Seq(Event)
    BY <1>1 DEF Inv, TypeOK
  <2>4. c \notin Lost.starts
    BY <2>1 DEF Lost
  <2> QED
    BY <2>2, <2>3, <2>4, OpenHasEntry
<1> QED
  BY <1>1, Invariance, PTL

(* A span the program has ended stays open beyond the ends in flight only  *)
(* if an end was lost on its CPU: whatever else is lost, filtered or       *)
(* compiled out.                                                           *)
THEOREM OnlyLostEndsLeaveSpansOpen == Spec => []LeftOpenOnlyByLostEnd
<1>1. ASSUME Inv PROVE LeftOpenOnlyByLostEnd
  <2>1. SUFFICES ASSUME NEW c \in Cpus, c \notin missingEnds, EndsInFlight(c) = {},
                        NEW i \in DOMAIN StackOf(c)
                 PROVE  StackOf(c)[i].id \in IdsOf(prog[c])
    BY DEF LeftOpenOnlyByLostEnd, IdsOf
  <2>2. PICK was : Explains(was, Lost, c, StackOf(c), events, prog[c])
    BY <1>1 DEF Inv, HasHistory
  <2>3. events \in Seq(Event) /\ DOMAIN events = 1 .. Len(events)
    BY <1>1, LenProperties DEF Inv, TypeOK
  <2>4. \A k \in 1 .. Len(events) : events[k].cpu = c => events[k].kind # "EndSpan"
    BY <2>1, <2>3 DEF EndsInFlight
  <2>5. NoEndLost(Lost, c)
    BY <2>1 DEF Lost, NoEndLost
  <2> QED
    BY <2>1, <2>2, <2>3, <2>4, <2>5, EntryIsOpen
<1> QED
  BY <1>1, Invariance, PTL
=============================================================================
