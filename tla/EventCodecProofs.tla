-------------------------- MODULE EventCodecProofs --------------------------
(***************************************************************************)
(* Theorems about EventCodec: for strings of any length on either side,    *)
(* what user space decodes is what a program has written, and what it      *)
(* rejects it rejects for a known reason.                                  *)
(***************************************************************************)
EXTENDS EventCodec, SequenceTheorems, TLAPS

(* Where the parts of a concatenation are found.                           *)
LEMMA Concat ==
  ASSUME NEW S, NEW s \in Seq(S), NEW t \in Seq(S)
  PROVE  /\ s \o t \in Seq(S) /\ Len(s \o t) = Len(s) + Len(t)
         /\ \A i \in 1 .. Len(s) : (s \o t)[i] = s[i]
         /\ \A i \in 1 .. Len(t) : (s \o t)[Len(s) + i] = t[i]
<1>1. Len(s) \in Nat /\ Len(t) \in Nat
  BY LenProperties
<1>2. /\ s \o t \in Seq(S) /\ Len(s \o t) = Len(s) + Len(t)
      /\ \A i \in 1 .. Len(s) + Len(t) :
            (s \o t)[i] = IF i <= Len(s) THEN s[i] ELSE t[i - Len(s)]
  BY ConcatProperties
<1>3. ASSUME NEW i \in 1 .. Len(s) PROVE (s \o t)[i] = s[i]
  <2>1. i \in 1 .. Len(s) + Len(t) /\ i <= Len(s)
    BY <1>1
  <2> QED
    BY <1>2, <2>1
<1>4. ASSUME NEW i \in 1 .. Len(t) PROVE (s \o t)[Len(s) + i] = t[i]
  <2>1. /\ Len(s) + i \in 1 .. Len(s) + Len(t) /\ ~(Len(s) + i <= Len(s))
        /\ Len(s) + i - Len(s) = i
    BY <1>1
  <2> QED
    BY <1>2, <2>1
<1> QED
  BY <1>2, <1>3, <1>4

LEMMA Join ==
  ASSUME NEW s \in Seq(Nat), NEW t \in Seq(Nat)
  PROVE  \E r \in Seq(Nat) :
           /\ r = s \o t /\ Len(r) = Len(s) + Len(t)
           /\ \A i \in 1 .. Len(s) : r[i] = s[i]
           /\ \A i \in 1 .. Len(t) : r[Len(s) + i] = t[i]
<1>1. /\ s \o t \in Seq(Nat) /\ Len(s \o t) = Len(s) + Len(t)
      /\ \A i \in 1 .. Len(s) : (s \o t)[i] = s[i]
      /\ \A i \in 1 .. Len(t) : (s \o t)[Len(s) + i] = t[i]
  BY ONLY s \in Seq(Nat), t \in Seq(Nat), Concat
<1> WITNESS s \o t \in Seq(Nat)
<1> QED
  BY <1>1

(* A function of the first n numbers is a sequence.                        *)
LEMMA Explicit ==
  ASSUME NEW S, NEW n \in Nat, NEW f \in [1 .. n -> S]
  PROVE  f \in Seq(S) /\ Len(f) = n
BY SeqDef, LenProperties

-----------------------------------------------------------------------------
(* CStr returns what precedes the first NUL, and everything if there is    *)
(* none.                                                                   *)
LEMMA UpToNul ==
  ASSUME NEW s \in Seq(Nat), NEW n \in 1 .. Len(s), s[n] = NUL,
         \A i \in 1 .. n - 1 : s[i] # NUL
  PROVE  CStr(s) = SubSeq(s, 1, n - 1)
<1> DEFINE nuls == {i \in DOMAIN s : s[i] = NUL}
<1>1. DOMAIN s = 1 .. Len(s) /\ Len(s) \in Nat
  BY LenProperties
<1>2. n \in nuls /\ \A i \in nuls : n <= i
  BY <1>1
<1>3. \A m \in nuls : (\A i \in nuls : m <= i) => m = n
  <2> SUFFICES ASSUME NEW m \in nuls, \A i \in nuls : m <= i PROVE m = n
    OBVIOUS
  <2>1. m <= n /\ n <= m /\ m \in Nat /\ n \in Nat
    BY <1>1, <1>2
  <2> QED
    BY <2>1
<1>4. Min(nuls) = n
  <2> HIDE DEF nuls
  <2> QED
    BY <1>2, <1>3 DEF Min
<1> QED
  BY <1>2, <1>4 DEF CStr

LEMMA WithoutNul ==
  ASSUME NEW s \in Seq(Nat), \A i \in 1 .. Len(s) : s[i] # NUL
  PROVE  CStr(s) = s
BY LenProperties DEF CStr
-----------------------------------------------------------------------------
(* What a program emits: a string it prints is valid UTF-8 without a NUL.  *)
IsText(s) == s \in Seq(TextByte) /\ IsUtf8(s)

IsEmitted(w) ==
  /\ \E m \in Macros : w.kind = m.kind /\ w.level = m.level
  /\ IsText(w.content) /\ IsText(w.file)
  /\ w.cpu \in 0 .. Base * Base - 1
  /\ w.line \in 0 .. Base * Base * Base * Base - 1
  /\ {w.formatted, w.fileFormatted} \subseteq BOOLEAN

(* As much of a string as has room in n bytes with a NUL behind it.        *)
Shown(string, n) == IF Len(string) < n THEN Len(string) ELSE n - 1

LEMMA ShownType ==
  ASSUME NEW string \in Seq(TextByte), NEW n \in Nat \ {0}
  PROVE  /\ Shown(string, n) \in Nat /\ Shown(string, n) <= Len(string)
         /\ Shown(string, n) < n /\ Shown(string, n) + 1 \in 1 .. n
         /\ Len(string) \in Nat
<1>1. Len(string) \in Nat
  BY LenProperties
<1> QED
  BY <1>1 DEF Shown

(* The bytes of a text are none of them NUL.                               *)
LEMMA TextHasNoNul ==
  ASSUME NEW string \in Seq(TextByte), NEW i \in 1 .. Len(string)
  PROVE  string[i] \in Nat /\ string[i] # NUL
<1>1. string[i] \in TextByte
  BY ElementOfSeq
<1> QED
  BY <1>1 DEF TextByte, Letter, LeadByte, TrailByte, NUL

(* A field that has been printed to holds what is shown, and then a NUL.   *)
LEMMA FieldIs ==
  ASSUME NEW string \in Seq(TextByte), NEW n \in Nat \ {0}, NEW stale \in Stale
  PROVE  /\ Field(string, n, stale) \in Seq(Nat) /\ Len(Field(string, n, stale)) = n
         /\ \A i \in 1 .. Shown(string, n) : Field(string, n, stale)[i] = string[i]
         /\ Field(string, n, stale)[Shown(string, n) + 1] = NUL
<1> DEFINE len == Shown(string, n)
<1>1. Field(string, n, stale) =
        [i \in 1 .. n |-> IF i <= len THEN string[i] ELSE IF i = len + 1 THEN NUL ELSE stale]
  BY DEF Field, Shown
<1>2. len \in Nat /\ len <= Len(string) /\ len < n /\ len + 1 \in 1 .. n /\ Len(string) \in Nat
  BY ShownType
<1>3. stale \in Nat /\ NUL \in Nat
  BY DEF Stale, NUL, Letter, LeadByte
<1> HIDE DEF len
<1>4. \A i \in 1 .. n : i <= len => string[i] \in Nat
  BY <1>2, TextHasNoNul
<1>5. Field(string, n, stale) \in [1 .. n -> Nat]
  BY <1>1, <1>3, <1>4
<1>6. Field(string, n, stale) \in Seq(Nat) /\ Len(Field(string, n, stale)) = n
  BY <1>5, Explicit
<1>7. \A i \in 1 .. len : Field(string, n, stale)[i] = string[i]
  BY <1>1, <1>2
<1>8. Field(string, n, stale)[len + 1] = NUL
  BY <1>1, <1>2
<1> QED
  BY <1>6, <1>7, <1>8 DEF len

LEMMA PrintedIs ==
  ASSUME NEW string \in Seq(TextByte), NEW formatted, NEW n \in Nat \ {0}, NEW stale \in Stale
  PROVE  /\ Printed(string, formatted, n, stale) \in Seq(Nat)
         /\ Len(Printed(string, formatted, n, stale)) = n
<1>1. stale \in Nat
  BY DEF Stale, NUL, Letter, LeadByte
<1>2. [i \in 1 .. n |-> stale] \in [1 .. n -> Nat]
  BY <1>1
<1>3. [i \in 1 .. n |-> stale] \in Seq(Nat) /\ Len([i \in 1 .. n |-> stale]) = n
  BY <1>2, Explicit
<1> QED
  BY <1>3, FieldIs DEF Printed

LEMMA PaddingIs ==
  ASSUME NEW len \in Nat, NEW align \in {2, 4}, NEW stale \in Stale
  PROVE  /\ Padding(len, align, stale) \in Seq(Nat)
         /\ Len(Padding(len, align, stale)) = (-len) % align
         /\ (-len) % align \in 0 .. align - 1
<1>1. stale \in Nat
  BY DEF Stale, NUL, Letter, LeadByte
<1>2. (-len) % align \in 0 .. align - 1
  OBVIOUS
<1>3. (-len) % align \in Nat
  BY <1>2
<1>4. Padding(len, align, stale) \in [1 .. (-len) % align -> Nat]
  BY <1>1 DEF Padding
<1> QED
  BY <1>2, <1>3, <1>4, Explicit

(* Numbers are read as they are written.                                   *)
LEMMA U16Is ==
  ASSUME NEW k \in Nat
  PROVE  /\ U16(k) \in Seq(Nat) /\ Len(U16(k)) = 2
         /\ U16(k)[1] = k % Base /\ U16(k)[2] = (k \div Base) % Base
<1>1. k % 8 \in Nat /\ (k \div 8) % 8 \in Nat
  OBVIOUS
<1> QED
  BY <1>1 DEF U16, Base

LEMMA U32Is ==
  ASSUME NEW k \in Nat
  PROVE  /\ U32(k) \in Seq(Nat) /\ Len(U32(k)) = 4
         /\ U32(k)[1] = U16(k)[1] /\ U32(k)[2] = U16(k)[2]
         /\ U32(k)[3] = U16(k \div (Base * Base))[1]
         /\ U32(k)[4] = U16(k \div (Base * Base))[2]
<1>1. PICK h \in Nat : h = k \div (Base * Base)
  BY DEF Base
<1>2. PICK a \in Seq(Nat) : a = U16(k) /\ Len(a) = 2
  BY U16Is
<1>3. PICK b \in Seq(Nat) : b = U16(h) /\ Len(b) = 2
  BY U16Is
<1>4. U32(k) = a \o b
  BY <1>1, <1>2, <1>3 DEF U32
<1>5. /\ a \o b \in Seq(Nat) /\ Len(a \o b) = 2 + 2
      /\ \A i \in 1 .. 2 : (a \o b)[i] = a[i]
      /\ \A i \in 1 .. 2 : (a \o b)[2 + i] = b[i]
  <2>1. Len(a) = 2 /\ Len(b) = 2
    BY <1>2, <1>3
  <2>2. /\ a \o b \in Seq(Nat) /\ Len(a \o b) = Len(a) + Len(b)
        /\ \A i \in 1 .. Len(a) : (a \o b)[i] = a[i]
        /\ \A i \in 1 .. Len(b) : (a \o b)[Len(a) + i] = b[i]
    BY ONLY a \in Seq(Nat), b \in Seq(Nat), Concat
  <2> QED
    BY <2>1, <2>2
<1>6. /\ (a \o b)[1] = a[1] /\ (a \o b)[2] = a[2]
      /\ (a \o b)[3] = b[1] /\ (a \o b)[4] = b[2]
  <2>1. 1 \in 1 .. 2 /\ 2 \in 1 .. 2 /\ 2 + 1 = 3 /\ 2 + 2 = 4
    OBVIOUS
  <2>2. (a \o b)[2 + 1] = b[1] /\ (a \o b)[2 + 2] = b[2]
    BY <1>5, <2>1, Zenon
  <2> QED
    BY <1>5, <2>1, <2>2, Zenon
<1> QED
  BY <1>1, <1>2, <1>3, <1>4, <1>5, <1>6

LEMMA U16Value ==
  ASSUME NEW k \in 0 .. Base * Base - 1
  PROVE  (k % Base) + Base * ((k \div Base) % Base) = k
BY DEF Base

LEMMA U32Value ==
  ASSUME NEW k \in 0 .. Base * Base * Base * Base - 1
  PROVE  /\ (k % Base) + Base * ((k \div Base) % Base)
              + Base * Base * (((k \div (Base * Base)) % Base)
                                + Base * (((k \div (Base * Base)) \div Base) % Base)) = k
BY DEF Base
-----------------------------------------------------------------------------
LEMMA EmittedType ==
  ASSUME NEW w, IsEmitted(w)
  PROVE  /\ w.level \in Nat /\ w.cpu \in Nat /\ w.line \in Nat
         /\ w.kind \in {"Message", "StartSpan", "EndSpan"}
         /\ w.kind \in {"Message", "StartSpan"} => w.level \in 1 .. 5
         /\ w.kind = "EndSpan" => w.level = 0
         /\ KindByte[w.kind] \in Nat
<1>1. PICK m \in Macros : w.kind = m.kind /\ w.level = m.level
  BY Zenon DEF IsEmitted
<1>2. /\ m.kind \in {"Message", "StartSpan", "EndSpan"} /\ m.level \in Nat
      /\ m.kind \in {"Message", "StartSpan"} => m.level \in 1 .. 5
      /\ m.kind = "EndSpan" => m.level = 0
  <2>1. CASE m \in [kind : {"Message", "StartSpan"}, level : Levels]
    <3>1. m.kind \in {"Message", "StartSpan"} /\ m.level \in Levels
      BY <2>1
    <3>2. Levels \subseteq Nat /\ Levels \subseteq 1 .. 5
      BY EventCodecAssumption
    <3> QED
      BY <3>1, <3>2
  <2>2. CASE m \in [kind : {"EndSpan"}, level : {0}]
    BY <2>2
  <2> QED
    BY <2>1, <2>2 DEF Macros
<1>3. w.cpu \in Nat /\ w.line \in Nat
  <2>1. w.cpu \in 0 .. Base * Base - 1 /\ w.line \in 0 .. Base * Base * Base * Base - 1
    BY Zenon DEF IsEmitted
  <2>2. \A i \in 0 .. Base * Base - 1 : i \in Nat
    BY DEF Base
  <2>3. \A i \in 0 .. Base * Base * Base * Base - 1 : i \in Nat
    BY DEF Base
  <2> QED
    BY <2>1, <2>2, <2>3, Zenon
<1>4. KindByte[w.kind] \in Nat
  BY <1>1, <1>2 DEF KindByte
<1> QED
  BY <1>1, <1>2, <1>3, <1>4

(* The head of a record and its message, as the program lays them out.     *)
StartsWith(r, w, n, stale) ==
  /\ r[1] = w.level /\ r[2] = KindByte[w.kind] /\ U16At(r, 3) = w.cpu
  /\ \A i \in 1 .. n : r[4 + i] = Printed(w.content, w.formatted, n, stale)[i]

LEMMA BaseIs ==
  ASSUME NEW w, IsEmitted(w), NEW n \in Nat \ {0}, NEW stale \in Stale
  PROVE  /\ BaseRecord(w, n, stale) \in Seq(Nat)
         /\ Len(BaseRecord(w, n, stale)) = 4 + n
         /\ StartsWith(BaseRecord(w, n, stale), w, n, stale)
<1>1. w.level \in Nat /\ KindByte[w.kind] \in Nat /\ w.cpu \in Nat
  BY EmittedType
<1>2. PICK a \in Seq(Nat) : a = <<w.level, KindByte[w.kind]>>
  <2>1. <<w.level, KindByte[w.kind]>> \in Seq(Nat)
    BY <1>1
  <2> QED
    BY <2>1, Zenon
<1>3. Len(a) = 2 /\ a[1] = w.level /\ a[2] = KindByte[w.kind]
  BY <1>2
<1>4. PICK c \in Seq(Nat) : c = U16(w.cpu)
  BY <1>1, U16Is
<1>5. Len(c) = 2 /\ c[1] = w.cpu % Base /\ c[2] = (w.cpu \div Base) % Base
  BY <1>1, <1>4, U16Is
<1>6. PICK m \in Seq(Nat) : m = Printed(w.content, w.formatted, n, stale) /\ Len(m) = n
  <2>1. w.content \in Seq(TextByte)
    BY DEF IsEmitted, IsText
  <2>2. /\ Printed(w.content, w.formatted, n, stale) \in Seq(Nat)
        /\ Len(Printed(w.content, w.formatted, n, stale)) = n
    BY ONLY <2>1, PrintedIs
  <2> QED
    BY <2>2, Zenon
<1>7. PICK h \in Seq(Nat) :
        /\ h = a \o c /\ Len(h) = Len(a) + Len(c)
        /\ \A i \in 1 .. Len(a) : h[i] = a[i]
        /\ \A i \in 1 .. Len(c) : h[Len(a) + i] = c[i]
  BY Join
<1>8. /\ Len(h) = 4 /\ h[1] = a[1] /\ h[2] = a[2] /\ h[3] = c[1] /\ h[4] = c[2]
  <2>1. h[2 + 1] = c[1] /\ h[2 + 2] = c[2]
    BY <1>3, <1>5, <1>7
  <2> QED
    BY <1>3, <1>5, <1>7, <2>1
<1>9. PICK r \in Seq(Nat) :
        /\ r = h \o m /\ Len(r) = Len(h) + Len(m)
        /\ \A i \in 1 .. Len(h) : r[i] = h[i]
        /\ \A i \in 1 .. Len(m) : r[Len(h) + i] = m[i]
  BY Join
<1>11. BaseRecord(w, n, stale) = r
  <2>1. BaseRecord(w, n, stale)
          = <<w.level, KindByte[w.kind]>> \o U16(w.cpu) \o Printed(w.content, w.formatted, n, stale)
    BY Zenon DEF BaseRecord
  <2>2. BaseRecord(w, n, stale) = a \o c \o m
    BY <2>1, <1>2, <1>4, <1>6, Zenon
  <2> QED
    BY <2>2, <1>7, <1>9, Zenon
<1>12. /\ Len(r) = 4 + n /\ r[1] = h[1] /\ r[2] = h[2] /\ r[3] = h[3] /\ r[4] = h[4]
       /\ \A i \in 1 .. n : r[4 + i] = m[i]
  <2>1. Len(h) = 4 /\ Len(m) = n
    BY <1>6, <1>8
  <2>2. \A i \in 1 .. 4 : r[i] = h[i]
    BY <1>9, <2>1
  <2>3. r[1] = h[1] /\ r[2] = h[2] /\ r[3] = h[3] /\ r[4] = h[4]
    BY ONLY <2>2
  <2>4. \A i \in 1 .. n : r[4 + i] = m[i]
    BY <1>9, <2>1
  <2> QED
    BY <1>9, <2>1, <2>3, <2>4
<1>13. U16At(r, 3) = w.cpu
  <2>1. w.cpu \in 0 .. Base * Base - 1
    BY Zenon DEF IsEmitted
  <2>2. (w.cpu % Base) + Base * ((w.cpu \div Base) % Base) = w.cpu
    BY <2>1, U16Value
  <2>3. 3 + 1 = 4
    OBVIOUS
  <2>4. r[3] = w.cpu % Base /\ r[4] = (w.cpu \div Base) % Base
    BY <1>5, <1>8, <1>12, Zenon
  <2> QED
    BY <2>2, <2>3, <2>4 DEF U16At
<1>14. r[1] = w.level /\ r[2] = KindByte[w.kind] /\ \A i \in 1 .. n : r[4 + i] = m[i]
  BY <1>3, <1>8, <1>12, Zenon
<1>15. StartsWith(r, w, n, stale)
  BY <1>6, <1>13, <1>14, Zenon DEF StartsWith
<1> QED
  BY <1>11, <1>12, <1>15, Zenon

LEMMA BuildType == ASSUME NEW b \in Builds PROVE b.strLen \in Nat \ {0}
BY EventCodecAssumption DEF Builds

(* The variant of the record without a source location.                    *)
IsShortRecord(r, w, n, pad, stale) ==
  /\ Len(r) = 4 + n + pad
  /\ \A i \in 1 .. 4 + n : r[i] = BaseRecord(w, n, stale)[i]

LEMMA ShortRecordIs ==
  ASSUME NEW w, IsEmitted(w), NEW b \in Builds, ~b.sourceLoc, NEW stale \in Stale
  PROVE  \E n \in Nat \ {0}, pad \in 0 .. 1 :
           /\ n = b.strLen /\ pad = (-(4 + n)) % 2
           /\ RecordOf(w, b, stale) \in Seq(Nat)
           /\ IsShortRecord(RecordOf(w, b, stale), w, n, pad, stale)
<1>1. PICK n \in Nat \ {0} : n = b.strLen
  BY BuildType
<1>2. PICK h \in Seq(Nat) : h = BaseRecord(w, n, stale) /\ Len(h) = 4 + n
  <2>1. BaseRecord(w, n, stale) \in Seq(Nat) /\ Len(BaseRecord(w, n, stale)) = 4 + n
    BY BaseIs
  <2> QED
    BY <2>1, Zenon
<1>3. PICK p \in Seq(Nat) : p = Padding(4 + n, 2, stale) /\ Len(p) = (-(4 + n)) % 2
  <2>1. 4 + n \in Nat
    OBVIOUS
  <2>2. /\ Padding(4 + n, 2, stale) \in Seq(Nat)
        /\ Len(Padding(4 + n, 2, stale)) = (-(4 + n)) % 2
    BY <2>1, PaddingIs
  <2> QED
    BY <2>2, Zenon
<1>4. (-(4 + n)) % 2 \in 0 .. 1
  OBVIOUS
<1>5. PICK r \in Seq(Nat) :
        /\ r = h \o p /\ Len(r) = Len(h) + Len(p)
        /\ \A i \in 1 .. Len(h) : r[i] = h[i]
  BY Join
<1>6. RecordOf(w, b, stale) = r
  BY <1>1, <1>2, <1>3, <1>5 DEF RecordOf
<1>7. PICK pad \in 0 .. 1 : pad = (-(4 + n)) % 2
  BY <1>4
<1>8. Len(r) = 4 + n + pad /\ \A i \in 1 .. 4 + n : r[i] = h[i]
  BY <1>2, <1>3, <1>5, <1>7
<1>9. IsShortRecord(r, w, n, pad, stale)
  BY <1>2, <1>8, Zenon DEF IsShortRecord
<1> QED
  BY <1>1, <1>6, <1>7, <1>9, Zenon

(* The variant with a source location.                                     *)
IsLongRecord(r, w, n, pad, stale) ==
  /\ Len(r) = 4 + n + n + pad + 4
  /\ \A i \in 1 .. 4 + n : r[i] = BaseRecord(w, n, stale)[i]
  /\ \A i \in 1 .. n : r[4 + n + i] = Printed(w.file, w.fileFormatted, n, stale)[i]
  /\ \A i \in 1 .. 4 : r[4 + n + n + pad + i] = U32(w.line)[i]

LEMMA LongRecordIs ==
  ASSUME NEW w, IsEmitted(w), NEW b \in Builds, b.sourceLoc, NEW stale \in Stale
  PROVE  \E n \in Nat \ {0}, pad \in 0 .. 3 :
           /\ n = b.strLen /\ pad = (-(4 + n + n)) % 4
           /\ RecordOf(w, b, stale) \in Seq(Nat)
           /\ IsLongRecord(RecordOf(w, b, stale), w, n, pad, stale)
<1>1. PICK n \in Nat \ {0} : n = b.strLen
  BY BuildType
<1>2. PICK h \in Seq(Nat) : h = BaseRecord(w, n, stale) /\ Len(h) = 4 + n
  <2>1. BaseRecord(w, n, stale) \in Seq(Nat) /\ Len(BaseRecord(w, n, stale)) = 4 + n
    BY BaseIs
  <2> QED
    BY <2>1, Zenon
<1>3. PICK f \in Seq(Nat) : f = Printed(w.file, w.fileFormatted, n, stale) /\ Len(f) = n
  <2>1. w.file \in Seq(TextByte)
    BY DEF IsEmitted, IsText
  <2>2. Printed(w.file, w.fileFormatted, n, stale) \in Seq(Nat) /\ Len(Printed(w.file, w.fileFormatted, n, stale)) = n
    BY ONLY <1>1, <2>1, PrintedIs
  <2> QED
    BY <2>2, Zenon
<1>4. PICK u \in Seq(Nat) : u = U32(w.line) /\ Len(u) = 4
  <2>1. U32(w.line) \in Seq(Nat) /\ Len(U32(w.line)) = 4
    BY EmittedType, U32Is
  <2> QED
    BY <2>1, Zenon
<1>6. PICK hf \in Seq(Nat) :
        /\ hf = h \o f /\ Len(hf) = Len(h) + Len(f)
        /\ \A i \in 1 .. Len(h) : hf[i] = h[i]
        /\ \A i \in 1 .. Len(f) : hf[Len(h) + i] = f[i]
  BY Join
<1>7. Len(hf) = 4 + n + n /\ 4 + n + n \in Nat
  BY <1>2, <1>3, <1>6
<1>8. PICK p \in Seq(Nat) : p = Padding(4 + n + n, 4, stale) /\ Len(p) = (-(4 + n + n)) % 4
  <2>1. /\ Padding(4 + n + n, 4, stale) \in Seq(Nat)
        /\ Len(Padding(4 + n + n, 4, stale)) = (-(4 + n + n)) % 4
    BY <1>7, PaddingIs
  <2> QED
    BY <2>1, Zenon
<1>9. PICK pad \in 0 .. 3 : pad = (-(4 + n + n)) % 4
  OBVIOUS
<1>11. PICK hfp \in Seq(Nat) :
         /\ hfp = hf \o p /\ Len(hfp) = Len(hf) + Len(p)
         /\ \A i \in 1 .. Len(hf) : hfp[i] = hf[i]
         /\ \A i \in 1 .. Len(p) : hfp[Len(hf) + i] = p[i]
  BY Join
<1>13. PICK r \in Seq(Nat) :
         /\ r = hfp \o u /\ Len(r) = Len(hfp) + Len(u)
         /\ \A i \in 1 .. Len(hfp) : r[i] = hfp[i]
         /\ \A i \in 1 .. Len(u) : r[Len(hfp) + i] = u[i]
  BY Join
<1>14. RecordOf(w, b, stale) = r
  BY <1>1, <1>2, <1>3, <1>4, <1>6, <1>7, <1>8, <1>11, <1>13 DEF RecordOf
<1>15. Len(hfp) = 4 + n + n + pad /\ Len(r) = 4 + n + n + pad + 4
  BY <1>4, <1>7, <1>8, <1>9, <1>11, <1>13
<1>16. ASSUME NEW i \in 1 .. 4 + n PROVE r[i] = h[i]
  <2>1. Len(h) = 4 + n /\ Len(hf) = 4 + n + n /\ Len(hfp) = 4 + n + n + pad
    BY <1>2, <1>7, <1>15
  <2>2. i \in 1 .. 4 + n + n /\ i \in 1 .. 4 + n + n + pad
    OBVIOUS
  <2>3. i \in 1 .. Len(h) /\ i \in 1 .. Len(hf) /\ i \in 1 .. Len(hfp)
    BY <2>1, <2>2, Zenon
  <2> QED
    <3>1. r[i] = hfp[i]
      BY <2>3, <1>13
    <3>2. hfp[i] = hf[i]
      BY <2>3, <1>11
    <3>3. hf[i] = h[i]
      BY <2>3, <1>6
    <3> QED
      BY <3>1, <3>2, <3>3
<1>17. ASSUME NEW i \in 1 .. n PROVE r[4 + n + i] = f[i]
  <2>1. i \in 1 .. Len(f) /\ 4 + n + i \in 1 .. Len(hf) /\ 4 + n + i \in 1 .. Len(hfp)
    BY <1>3, <1>7, <1>15
  <2>2. hf[4 + n + i] = f[i]
    BY <1>2, <1>6, <2>1
  <2> QED
    BY <2>1, <2>2, <1>11, <1>13
<1>18. \A i \in 1 .. 4 : r[4 + n + n + pad + i] = u[i]
  BY <1>4, <1>13, <1>15
<1>19. /\ \A i \in 1 .. 4 + n : r[i] = BaseRecord(w, n, stale)[i]
       /\ \A i \in 1 .. n : r[4 + n + i] = Printed(w.file, w.fileFormatted, n, stale)[i]
       /\ \A i \in 1 .. 4 : r[4 + n + n + pad + i] = U32(w.line)[i]
  BY <1>2, <1>3, <1>4, <1>16, <1>17, <1>18, Zenon
<1>20. IsLongRecord(r, w, n, pad, stale)
  BY <1>15, <1>19, Zenon DEF IsLongRecord
<1> QED
  BY <1>1, <1>9, <1>14, <1>20, Zenon
-----------------------------------------------------------------------------
(* The bytes of a buffer between two offsets.                              *)
LEMMA Part ==
  ASSUME NEW r \in Seq(Nat), NEW off \in Nat, NEW len \in Nat, off + len <= Len(r)
  PROVE  /\ SubSeq(r, off + 1, off + len) \in Seq(Nat)
         /\ Len(SubSeq(r, off + 1, off + len)) = len
         /\ \A i \in 1 .. len : SubSeq(r, off + 1, off + len)[i] = r[off + i]
<1>1. PICK lo \in Int, hi \in Int : lo = off + 1 /\ hi = off + len
  OBVIOUS
<1>2. Len(r) \in Nat
  BY LenProperties
<1>3. \A i \in lo .. hi : r[i] \in Nat
  <2>1. \A i \in lo .. hi : i \in 1 .. Len(r)
    BY <1>1, <1>2
  <2> QED
    BY <2>1, ElementOfSeq
<1>4. /\ SubSeq(r, lo, hi) \in Seq(Nat)
      /\ Len(SubSeq(r, lo, hi)) = IF lo <= hi THEN hi - lo + 1 ELSE 0
      /\ \A i \in 1 .. hi - lo + 1 : SubSeq(r, lo, hi)[i] = r[lo + i - 1]
  BY <1>3, SubSeqProperties
<1>5. Len(SubSeq(r, lo, hi)) = len
  BY <1>1, <1>4
<1>6. ASSUME NEW i \in 1 .. len PROVE SubSeq(r, lo, hi)[i] = r[off + i]
  <2>1. i \in 1 .. hi - lo + 1 /\ lo + i - 1 = off + i
    BY <1>1
  <2> QED
    BY <1>4, <2>1, Zenon
<1> QED
  BY <1>1, <1>4, <1>5, <1>6, Zenon

LEMMA Start ==
  ASSUME NEW r \in Seq(Nat), NEW len \in 0 .. Len(r)
  PROVE  /\ SubSeq(r, 1, len) \in Seq(Nat) /\ Len(SubSeq(r, 1, len)) = len
         /\ \A i \in 1 .. len : SubSeq(r, 1, len)[i] = r[i]
<1>1. Len(r) \in Nat
  BY LenProperties
<1>2. 0 \in Nat /\ len \in Nat /\ 0 + len <= Len(r) /\ 0 + 1 = 1 /\ 0 + len = len
  BY <1>1
<1>3. /\ SubSeq(r, 0 + 1, 0 + len) \in Seq(Nat) /\ Len(SubSeq(r, 0 + 1, 0 + len)) = len
      /\ \A i \in 1 .. len : SubSeq(r, 0 + 1, 0 + len)[i] = r[0 + i]
  BY <1>2, Part
<1>4. \A i \in 1 .. len : 0 + i = i
  BY <1>2
<1> QED
  BY <1>2, <1>3, <1>4

(* What the decoder sees of a string through a window of `len` bytes over  *)
(* a field of n bytes.  The NUL stops it, if it is inside the window; if   *)
(* it is not, the window shows nothing but the string.                     *)
Visible(string, n, len) == IF Shown(string, n) < len THEN Shown(string, n) ELSE len

(* f is what such a window shows, as far as the field reaches.             *)
IsWindow(f, len, string, n, stale) ==
  /\ f \in Seq(Nat) /\ Len(f) = len
  /\ \A i \in 1 .. len : i <= n => f[i] = Field(string, n, stale)[i]

LEMMA FieldRead ==
  ASSUME NEW string \in Seq(TextByte), NEW n \in Nat \ {0}, NEW stale \in Stale,
         NEW len \in Nat \ {0}, NEW f, IsWindow(f, len, string, n, stale)
  PROVE  /\ CStr(f) = SubSeq(string, 1, Visible(string, n, len))
         /\ Visible(string, n, len) \in 0 .. Len(string)
<1> f \in Seq(Nat) /\ Len(f) = len /\ \A i \in 1 .. len : i <= n => f[i] = Field(string, n, stale)[i]
  BY DEF IsWindow
<1>1. PICK k \in Nat : k = Shown(string, n)
  BY ShownType
<1>2. k <= Len(string) /\ k < n /\ k + 1 \in 1 .. n /\ Len(string) \in Nat
  BY <1>1, ShownType
<1>3. /\ \A i \in 1 .. k : Field(string, n, stale)[i] = string[i]
      /\ Field(string, n, stale)[k + 1] = NUL
  BY <1>1, FieldIs
<1>4. string \in Seq(Nat)
  <2>1. TextByte \subseteq Nat
    BY DEF TextByte, Letter, LeadByte, TrailByte
  <2> QED
    BY <2>1, SeqMonotonic
<1>5. CASE k < len
  <2>1. f[k + 1] = NUL /\ k + 1 \in 1 .. Len(f)
    BY <1>2, <1>3, <1>5
  <2>2. ASSUME NEW i \in 1 .. k PROVE f[i] = string[i] /\ f[i] # NUL
    <3>1. i \in 1 .. len /\ i <= n /\ i \in 1 .. Len(string)
      BY <1>2, <1>5
    <3>2. f[i] = string[i]
      BY <1>3, <3>1
    <3> QED
      BY <3>1, <3>2, TextHasNoNul
  <2>3. CStr(f) = SubSeq(f, 1, k)
    <3>1. k + 1 - 1 = k
      OBVIOUS
    <3>2. \A i \in 1 .. k + 1 - 1 : f[i] # NUL
      BY <2>2, <3>1
    <3>3. CStr(f) = SubSeq(f, 1, k + 1 - 1)
      BY <2>1, <3>2, UpToNul
    <3> QED
      BY <3>1, <3>3
  <2>4. SubSeq(f, 1, k) = SubSeq(string, 1, k)
    <3>1. k \in 0 .. Len(f) /\ k \in 0 .. Len(string)
      BY <1>2, <1>5
    <3>2. /\ SubSeq(f, 1, k) \in Seq(Nat) /\ Len(SubSeq(f, 1, k)) = k
          /\ \A i \in 1 .. k : SubSeq(f, 1, k)[i] = f[i]
      BY <3>1, Start
    <3>3. /\ SubSeq(string, 1, k) \in Seq(Nat) /\ Len(SubSeq(string, 1, k)) = k
          /\ \A i \in 1 .. k : SubSeq(string, 1, k)[i] = string[i]
      BY <3>1, <1>4, Start
    <3> QED
      BY <2>2, <3>2, <3>3, SeqEqual
  <2>5. Visible(string, n, len) = k
    BY <1>1, <1>5 DEF Visible
  <2> QED
    BY <1>2, <2>3, <2>4, <2>5
<1>6. CASE ~(k < len)
  <2>1. ASSUME NEW i \in 1 .. len PROVE f[i] = string[i] /\ f[i] # NUL
    <3>1. i \in 1 .. k /\ i <= n /\ i \in 1 .. Len(string)
      BY <1>2, <1>6
    <3>2. f[i] = string[i]
      BY <1>3, <3>1
    <3> QED
      BY <3>1, <3>2, TextHasNoNul
  <2>2. CStr(f) = f
    BY <2>1, WithoutNul
  <2>3. len \in 0 .. Len(string)
    BY <1>2, <1>6
  <2>4. /\ SubSeq(string, 1, len) \in Seq(Nat) /\ Len(SubSeq(string, 1, len)) = len
        /\ \A i \in 1 .. len : SubSeq(string, 1, len)[i] = string[i]
    BY <2>3, <1>4, Start
  <2>5. f = SubSeq(string, 1, len)
    <3>1. PICK t \in Seq(Nat) : t = SubSeq(string, 1, len) /\ Len(t) = len
                                /\ \A i \in 1 .. len : t[i] = string[i]
      BY <2>4, Zenon
    <3>2. \A i \in 1 .. Len(f) : f[i] = t[i]
      BY <2>1, <3>1
    <3> QED
      BY <3>1, <3>2, SeqEqual
  <2>6. Visible(string, n, len) = len
    BY <1>1, <1>6 DEF Visible
  <2> QED
    BY <2>2, <2>3, <2>5, <2>6
<1> QED
  BY <1>5, <1>6

LEMMA TextType ==
  ASSUME NEW string \in Seq(TextByte)
  PROVE  string \in Seq(Nat) /\ Len(string) \in Nat /\ DOMAIN string = 1 .. Len(string)
<1>1. TextByte \subseteq Nat
  BY DEF TextByte, Letter, LeadByte, TrailByte
<1> QED
  BY <1>1, SeqMonotonic, LenProperties

(* With strings of the same length on both sides the decoder sees all that *)
(* is in the field.                                                        *)
LEMMA VisibleIsCut ==
  ASSUME NEW string \in Seq(TextByte)
  PROVE  SubSeq(string, 1, Visible(string, STR_LEN, STR_LEN)) = Cut(string)
<1>1. STR_LEN \in Nat \ {0}
  BY EventCodecAssumption
<1>2. Shown(string, STR_LEN) < STR_LEN
  BY <1>1, ShownType
<1>3. Visible(string, STR_LEN, STR_LEN) = Shown(string, STR_LEN)
  BY <1>2 DEF Visible
<1>4. SubSeq(string, 1, Len(string)) = string
  BY SubSeqFull
<1> QED
  BY <1>3, <1>4 DEF Cut, Shown

LEMMA StartIsPrefix ==
  ASSUME NEW string \in Seq(TextByte), NEW len \in 0 .. Len(string)
  PROVE  IsPrefix(SubSeq(string, 1, len), string)
<1>1. string \in Seq(Nat) /\ Len(string) \in Nat
  BY TextType
<1>2. SubSeq(string, 1, len) \in Seq(Nat) /\ Len(SubSeq(string, 1, len)) = len
  BY <1>1, Start
<1>3. SubSeq(SubSeq(string, 1, len), 1, Len(SubSeq(string, 1, len))) = SubSeq(string, 1, len)
  BY <1>2, SubSeqFull
<1> QED
  BY <1>1, <1>2, <1>3 DEF IsPrefix

(* What is left of a text is a text, unless it was cut inside a character. *)
LEMMA CutIsUtf8 ==
  ASSUME NEW string, IsText(string), ~CutInside(string)
  PROVE  IsUtf8(Cut(string))
<1>1. /\ string \in Seq(TextByte) /\ string \in Seq(Nat) /\ Len(string) \in Nat
      /\ DOMAIN string = 1 .. Len(string)
  BY TextType DEF IsText
<1>2. \A i \in 1 .. Len(string) :
        /\ string[i] = LeadByte => i < Len(string) /\ string[i + 1] = TrailByte
        /\ string[i] = TrailByte => i > 1 /\ string[i - 1] = LeadByte
  BY <1>1 DEF IsText, IsUtf8
<1>3. PICK len \in Nat : len = STR_LEN - 1
  BY EventCodecAssumption
<1>4. STR_LEN = len + 1
  BY <1>3, EventCodecAssumption
<1>5. CASE Len(string) < STR_LEN
  BY <1>5 DEF Cut, IsText
<1>6. CASE ~(Len(string) < STR_LEN)
  <2>1. len \in 0 .. Len(string) /\ len + 1 <= Len(string)
    BY <1>1, <1>4, <1>6
  <2>2. PICK c \in Seq(Nat) :
          c = SubSeq(string, 1, len) /\ Len(c) = len /\ \A i \in 1 .. len : c[i] = string[i]
    <3>1. /\ SubSeq(string, 1, len) \in Seq(Nat) /\ Len(SubSeq(string, 1, len)) = len
          /\ \A i \in 1 .. len : SubSeq(string, 1, len)[i] = string[i]
      BY <1>1, <2>1, Start
    <3> QED
      BY <3>1, Zenon
  <2>3. Cut(string) = c
    BY <1>3, <1>6, <2>2 DEF Cut
  <2>4. len > 0 => string[len] # LeadByte
    <3>1. Len(string) >= STR_LEN /\ (len > 0 => STR_LEN > 1) /\ STR_LEN - 1 = len
      BY <1>1, <1>4, <2>1
    <3> QED
      BY <3>1 DEF CutInside
  <2>5. ASSUME NEW i \in 1 .. len
        PROVE  /\ c[i] = LeadByte => i < len /\ c[i + 1] = TrailByte
               /\ c[i] = TrailByte => i > 1 /\ c[i - 1] = LeadByte
    <3>1. i \in 1 .. Len(string) /\ c[i] = string[i]
      BY <2>1, <2>2
    <3>2. ASSUME c[i] = LeadByte PROVE i < len /\ c[i + 1] = TrailByte
      <4>1. string[i + 1] = TrailByte
        BY <1>2, <3>1, <3>2
      <4>3. i # len
        <5> SUFFICES ASSUME i = len PROVE FALSE
          OBVIOUS
        <5>1. string[len] = LeadByte
          BY <3>1, <3>2, Zenon
        <5>2. len > 0
          OBVIOUS
        <5> QED
          BY <2>4, <5>1, <5>2
      <4>2. i < len /\ i + 1 \in 1 .. len
        BY <4>3
      <4> QED
        BY <2>2, <4>1, <4>2
    <3>3. ASSUME c[i] = TrailByte PROVE i > 1 /\ c[i - 1] = LeadByte
      <4>1. i > 1 /\ string[i - 1] = LeadByte
        BY <1>2, <3>1, <3>3
      <4>2. i - 1 \in 1 .. len
        BY <4>1
      <4> QED
        BY <2>2, <4>1, <4>2
    <3> QED
      BY <3>2, <3>3
  <2>6. DOMAIN c = 1 .. len /\ Len(c) = len
    BY <2>2, LenProperties
  <2>7. IsUtf8(c)
    BY <2>5, <2>6 DEF IsUtf8
  <2> QED
    BY <2>3, <2>7
<1> QED
  BY <1>5, <1>6
-----------------------------------------------------------------------------
(* The head of a record, whatever the two sides were compiled for: the     *)
(* level, the kind and the CPU, and then the field of the message.         *)
LEMMA HeadIs ==
  ASSUME NEW w, IsEmitted(w), NEW b \in Builds, NEW stale \in Stale
  PROVE  /\ RecordOf(w, b, stale) \in Seq(Nat)
         /\ b.strLen \in Nat \ {0} /\ Len(RecordOf(w, b, stale)) >= 4 + b.strLen
         /\ StartsWith(RecordOf(w, b, stale), w, b.strLen, stale)
<1>1. PICK n \in Nat \ {0} : n = b.strLen
  BY BuildType
<1>2. PICK r \in Seq(Nat) : /\ r = RecordOf(w, b, stale) /\ Len(r) >= 4 + n
                            /\ \A i \in 1 .. 4 + n : r[i] = BaseRecord(w, n, stale)[i]
  <2>1. /\ RecordOf(w, b, stale) \in Seq(Nat) /\ Len(RecordOf(w, b, stale)) >= 4 + n
        /\ \A i \in 1 .. 4 + n : RecordOf(w, b, stale)[i] = BaseRecord(w, n, stale)[i]
    <3>1. CASE b.sourceLoc
      <4>1. PICK m \in Nat \ {0}, pad \in 0 .. 3 :
              /\ m = b.strLen /\ RecordOf(w, b, stale) \in Seq(Nat)
              /\ IsLongRecord(RecordOf(w, b, stale), w, m, pad, stale)
        BY <3>1, LongRecordIs, Zenon
      <4>2. /\ Len(RecordOf(w, b, stale)) = 4 + n + n + pad + 4
            /\ \A i \in 1 .. 4 + n : RecordOf(w, b, stale)[i] = BaseRecord(w, n, stale)[i]
        BY <1>1, <4>1, Zenon DEF IsLongRecord
      <4>3. 4 + n + n + pad + 4 >= 4 + n
        OBVIOUS
      <4> QED
        BY <4>1, <4>2, <4>3
    <3>2. CASE ~b.sourceLoc
      <4>1. PICK m \in Nat \ {0}, pad \in 0 .. 1 :
              /\ m = b.strLen /\ RecordOf(w, b, stale) \in Seq(Nat)
              /\ IsShortRecord(RecordOf(w, b, stale), w, m, pad, stale)
        BY <3>2, ShortRecordIs, Zenon
      <4>2. /\ Len(RecordOf(w, b, stale)) = 4 + n + pad
            /\ \A i \in 1 .. 4 + n : RecordOf(w, b, stale)[i] = BaseRecord(w, n, stale)[i]
        BY <1>1, <4>1, Zenon DEF IsShortRecord
      <4>3. 4 + n + pad >= 4 + n
        OBVIOUS
      <4> QED
        BY <4>1, <4>2, <4>3
    <3> QED
      BY <3>1, <3>2
  <2> QED
    BY <2>1, Zenon
<1>3. StartsWith(BaseRecord(w, n, stale), w, n, stale)
  BY BaseIs
<1>4. /\ 1 \in 1 .. 4 + n /\ 2 \in 1 .. 4 + n /\ 3 \in 1 .. 4 + n /\ 3 + 1 \in 1 .. 4 + n
      /\ \A i \in 1 .. n : 4 + i \in 1 .. 4 + n
  OBVIOUS
<1>5. StartsWith(r, w, n, stale)
  BY <1>2, <1>3, <1>4, Zenon DEF StartsWith, U16At
<1> QED
  BY <1>1, <1>2, <1>5, Zenon

(* From the head the decoder reads the kind, the level and the CPU that    *)
(* were written, and it never rejects them.                                *)
LEMMA HeadIsDecoded ==
  ASSUME NEW w, IsEmitted(w), NEW r, NEW n \in Nat \ {0}, NEW stale,
         StartsWith(r, w, n, stale)
  PROVE  /\ r[2] \in {KindByte[k] : k \in DOMAIN KindByte} /\ ~LevelIsRejected(r)
         /\ EventOf(r).kind = w.kind /\ EventOf(r).level = w.level /\ EventOf(r).cpu = w.cpu
<1>1. r[1] = w.level /\ r[2] = KindByte[w.kind] /\ U16At(r, 3) = w.cpu
  BY DEF StartsWith
<1>2. /\ w.kind \in {"Message", "StartSpan", "EndSpan"}
      /\ w.kind \in {"Message", "StartSpan"} => w.level \in 1 .. 5
      /\ w.kind = "EndSpan" => w.level = 0
  BY EmittedType
<1>3. /\ DOMAIN KindByte = {"Message", "StartSpan", "EndSpan"}
      /\ KindByte["Message"] = 0 /\ KindByte["StartSpan"] = 1 /\ KindByte["EndSpan"] = 2
  BY DEF KindByte
<1>4. \A k \in DOMAIN KindByte : KindByte[k] = r[2] <=> k = w.kind
  BY <1>1, <1>2, <1>3
<1>5. r[2] \in {KindByte[k] : k \in DOMAIN KindByte}
  BY <1>1, <1>2, <1>3
<1>6. ~LevelIsRejected(r)
  BY <1>1, <1>2, <1>3 DEF LevelIsRejected, LevelIsValid
<1>7. EventOf(r).kind = w.kind
  <2>1. w.kind \in DOMAIN KindByte
    BY <1>2, <1>3
  <2>2. (CHOOSE k \in DOMAIN KindByte : KindByte[k] = r[2]) = w.kind
    BY <1>4, <2>1
  <2> QED
    BY <2>2 DEF EventOf
<1>8. EventOf(r).level = w.level
  <2>1. r[2] = KindByte["EndSpan"] <=> w.kind = "EndSpan"
    BY <1>1, <1>2, <1>3
  <2>2. (IF r[2] = KindByte["EndSpan"] THEN 0 ELSE r[1]) = w.level
    BY <1>1, <1>2, <2>1
  <2> QED
    BY <2>2 DEF EventOf
<1>9. EventOf(r).cpu = w.cpu
  BY <1>1 DEF EventOf
<1> QED
  BY <1>5, <1>6, <1>7, <1>8, <1>9

(* The content is what is visible of the message.                          *)
LEMMA ContentIs ==
  ASSUME NEW w, IsEmitted(w), NEW r \in Seq(Nat), NEW n \in Nat \ {0}, NEW stale \in Stale,
         StartsWith(r, w, n, stale), w.formatted, Len(r) >= 4 + STR_LEN
  PROVE  /\ MsgOf(r) = SubSeq(w.content, 1, Visible(w.content, n, STR_LEN))
         /\ Visible(w.content, n, STR_LEN) \in 0 .. Len(w.content)
<1>1. w.content \in Seq(TextByte)
  BY DEF IsEmitted, IsText
<1>2. STR_LEN \in Nat \ {0} /\ STR_LEN \in Nat /\ 4 \in Nat /\ 4 + STR_LEN <= Len(r)
  <2>1. Len(r) \in Nat /\ STR_LEN \in Nat \ {0}
    BY EventCodecAssumption, LenProperties
  <2> QED
    BY <2>1
<1>3. \A i \in 1 .. n : r[4 + i] = Field(w.content, n, stale)[i]
  <2>1. Printed(w.content, w.formatted, n, stale) = Field(w.content, n, stale)
    BY ONLY w.formatted DEF Printed
  <2> QED
    BY <2>1 DEF StartsWith
<1>4. PICK f \in Seq(Nat) : /\ f = SubSeq(r, 4 + 1, 4 + STR_LEN) /\ Len(f) = STR_LEN
                            /\ \A i \in 1 .. STR_LEN : f[i] = r[4 + i]
  <2>1. /\ SubSeq(r, 4 + 1, 4 + STR_LEN) \in Seq(Nat)
        /\ Len(SubSeq(r, 4 + 1, 4 + STR_LEN)) = STR_LEN
        /\ \A i \in 1 .. STR_LEN : SubSeq(r, 4 + 1, 4 + STR_LEN)[i] = r[4 + i]
    BY <1>2, Part
  <2> QED
    BY <2>1, Zenon
<1>5. ASSUME NEW i \in 1 .. STR_LEN, i <= n PROVE f[i] = Field(w.content, n, stale)[i]
  <2>1. i \in 1 .. n
    BY <1>2, <1>5
  <2> QED
    BY <1>3, <1>4, <2>1
<1>6. /\ CStr(f) = SubSeq(w.content, 1, Visible(w.content, n, STR_LEN))
      /\ Visible(w.content, n, STR_LEN) \in 0 .. Len(w.content)
  <2>1. IsWindow(f, STR_LEN, w.content, n, stale)
    BY <1>4, <1>5 DEF IsWindow
  <2> QED
    BY ONLY n \in Nat \ {0}, stale \in Stale, <1>1, <1>2, <2>1, FieldRead
<1>7. MsgOf(r) = CStr(f)
  <2>1. 4 + 1 = 5
    OBVIOUS
  <2> QED
    BY <1>4, <2>1 DEF MsgOf, EVENT_BASE_SIZE
<1> QED
  BY <1>6, <1>7

(* Without a source location the record is too short for one.              *)
LEMMA NoLocation ==
  ASSUME NEW w, IsEmitted(w), NEW b \in Builds, NEW stale \in Stale,
         b.strLen = STR_LEN, ~b.sourceLoc
  PROVE  ~HasFile(RecordOf(w, b, stale))
<1>1. PICK n \in Nat \ {0}, pad \in 0 .. 1 :
        /\ n = b.strLen /\ pad = (-(4 + n)) % 2
        /\ RecordOf(w, b, stale) \in Seq(Nat)
        /\ IsShortRecord(RecordOf(w, b, stale), w, n, pad, stale)
  BY ShortRecordIs, Zenon
<1>2. STR_LEN = n
  BY <1>1
<1>3. ~(4 + n + pad >= 4 + n + n + 4)
  OBVIOUS
<1> QED
  BY <1>1, <1>2, <1>3 DEF HasFile, EVENT_WITH_FILE_SIZE, EVENT_BASE_SIZE, IsShortRecord

(* With a source location, the file and the line are where the decoder     *)
(* looks for them: the compiler has put no padding in front of the line.   *)
LEMMA LocationIs ==
  ASSUME NEW w, IsEmitted(w), NEW b \in Builds, NEW stale \in Stale,
         b.strLen = STR_LEN, b.sourceLoc
  PROVE  /\ HasFile(RecordOf(w, b, stale))
         /\ LineOf(RecordOf(w, b, stale)) = w.line
         /\ w.fileFormatted => FileOf(RecordOf(w, b, stale)) = Cut(w.file)
<1>1. PICK n \in Nat \ {0}, pad \in 0 .. 3 :
        /\ n = b.strLen /\ pad = (-(4 + n + n)) % 4
        /\ RecordOf(w, b, stale) \in Seq(Nat)
        /\ IsLongRecord(RecordOf(w, b, stale), w, n, pad, stale)
  BY LongRecordIs, Zenon
<1>2. STR_LEN = n /\ n % 2 = 0
  BY <1>1, EventCodecAssumption
<1>3. pad = 0
  <2>1. (-(4 + n + n)) % 4 = 0
    BY <1>2
  <2> QED
    BY <1>1, <2>1
<1>4. PICK r \in Seq(Nat) :
        /\ r = RecordOf(w, b, stale) /\ Len(r) = 4 + n + n + 4
        /\ \A i \in 1 .. n : r[4 + n + i] = Printed(w.file, w.fileFormatted, n, stale)[i]
        /\ \A i \in 1 .. 4 : r[4 + n + n + i] = U32(w.line)[i]
  <2>1. 4 + n + n + pad = 4 + n + n
    BY <1>3
  <2>2. /\ Len(RecordOf(w, b, stale)) = 4 + n + n + 4
        /\ \A i \in 1 .. n : RecordOf(w, b, stale)[4 + n + i] = Printed(w.file, w.fileFormatted, n, stale)[i]
        /\ \A i \in 1 .. 4 : RecordOf(w, b, stale)[4 + n + n + i] = U32(w.line)[i]
    BY <1>1, <2>1, Zenon DEF IsLongRecord
  <2> QED
    BY <1>1, <2>2, Zenon
<1>5. HasFile(r)
  BY <1>2, <1>4 DEF HasFile, EVENT_WITH_FILE_SIZE, EVENT_BASE_SIZE
<1>6. LineOf(r) = w.line
  <2>1. w.line \in 0 .. Base * Base * Base * Base - 1 /\ w.line \in Nat
    <3>1. w.line \in 0 .. Base * Base * Base * Base - 1
      BY Zenon DEF IsEmitted
    <3> QED
      BY <3>1, EmittedType
  <2>2. PICK h \in Nat : h = w.line \div (Base * Base)
    BY <2>1 DEF Base
  <2>3. /\ U32(w.line)[1] = w.line % Base /\ U32(w.line)[2] = (w.line \div Base) % Base
        /\ U32(w.line)[3] = h % Base /\ U32(w.line)[4] = (h \div Base) % Base
    BY <2>1, <2>2, U32Is, U16Is
  <2>4. /\ r[4 + n + n + 1] = w.line % Base
        /\ r[4 + n + n + 2] = (w.line \div Base) % Base
        /\ r[4 + n + n + 3] = h % Base /\ r[4 + n + n + 4] = (h \div Base) % Base
    BY <1>4, <2>3
  <2>5. PICK i \in Nat : i = 4 + n + n + 1
    OBVIOUS
  <2>6. i + 1 = 4 + n + n + 2 /\ i + 2 = 4 + n + n + 3 /\ i + 2 + 1 = 4 + n + n + 4
    BY <2>5
  <2>7. U32At(r, i) = (w.line % Base) + Base * ((w.line \div Base) % Base)
                        + Base * Base * ((h % Base) + Base * ((h \div Base) % Base))
    BY <2>4, <2>5, <2>6, Zenon DEF U32At, U16At
  <2>8. U32At(r, i) = w.line
    BY <2>1, <2>2, <2>7, U32Value
  <2> QED
    BY <1>2, <2>5, <2>8 DEF LineOf, EVENT_BASE_SIZE
<1>7. ASSUME w.fileFormatted PROVE FileOf(r) = Cut(w.file)
  <2>1. w.file \in Seq(TextByte)
    BY DEF IsEmitted, IsText
  <2>2. \A i \in 1 .. n : r[4 + n + i] = Field(w.file, n, stale)[i]
    <3>1. Printed(w.file, w.fileFormatted, n, stale) = Field(w.file, n, stale)
      BY <1>7 DEF Printed
    <3> QED
      BY <1>4, <3>1, Zenon
  <2>3. PICK off \in Nat : off = 4 + n
    OBVIOUS
  <2>4. PICK f \in Seq(Nat) : /\ f = SubSeq(r, off + 1, off + n) /\ Len(f) = n
                              /\ \A i \in 1 .. n : f[i] = r[off + i]
    <3>1. off + n <= Len(r) /\ n \in Nat
      BY <1>4, <2>3
    <3>2. /\ SubSeq(r, off + 1, off + n) \in Seq(Nat) /\ Len(SubSeq(r, off + 1, off + n)) = n
          /\ \A i \in 1 .. n : SubSeq(r, off + 1, off + n)[i] = r[off + i]
      BY <3>1, Part
    <3> QED
      BY <3>2, Zenon
  <2>5. ASSUME NEW i \in 1 .. n, i <= n PROVE f[i] = Field(w.file, n, stale)[i]
    <3>1. f[i] = r[off + i] /\ off + i = 4 + n + i
      BY <2>3, <2>4
    <3>2. r[4 + n + i] = Field(w.file, n, stale)[i]
      BY <2>2, Zenon
    <3> QED
      BY <3>1, <3>2, Zenon
  <2>6. CStr(f) = SubSeq(w.file, 1, Visible(w.file, n, n))
    <3>1. \A i \in 1 .. n : i <= n => f[i] = Field(w.file, n, stale)[i]
      BY <2>5
    <3>2. IsWindow(f, n, w.file, n, stale)
      BY <2>4, <3>1 DEF IsWindow
    <3> QED
      BY ONLY n \in Nat \ {0}, stale \in Stale, <2>1, <3>2, FieldRead
  <2>7. FileOf(r) = CStr(f)
    BY <1>2, <2>3, <2>4 DEF FileOf, EVENT_BASE_SIZE
  <2> QED
    BY <1>2, <2>1, <2>6, <2>7, VisibleIsCut
<1> QED
  BY <1>4, <1>5, <1>6, <1>7
-----------------------------------------------------------------------------
(* What try_from returns for a record: an error for one of three reasons,  *)
(* or the event; and it returns the event only for a record that is long   *)
(* enough.                                                                 *)
LEMMA Outcomes ==
  ASSUME NEW w, IsEmitted(w), NEW b \in Builds, NEW stale \in Stale
  PROVE  LET r == RecordOf(w, b, stale)
             outcome == TryFrom(r, b.feature)
             short == Len(r) < EVENT_BASE_SIZE \/ (b.feature /\ ~HasFile(r))
             broken == ~IsUtf8(MsgOf(r)) \/ (HasFile(r) /\ ~IsUtf8(FileOf(r)))
         IN  \/ outcome = Err("BufferTooShort") /\ short
             \/ outcome = Err("InvalidUtf8") /\ broken
             \/ outcome = EventOf(r) /\ Len(r) >= EVENT_BASE_SIZE
<1>1. PICK r \in Seq(Nat) : r = RecordOf(w, b, stale)
  BY HeadIs
<1>2. r[2] \in {KindByte[k] : k \in DOMAIN KindByte} /\ ~LevelIsRejected(r)
  <2>1. b.strLen \in Nat \ {0} /\ StartsWith(r, w, b.strLen, stale)
    BY <1>1, HeadIs
  <2> QED
    BY <2>1, HeadIsDecoded
<1>3. Len(r) < EVENT_BASE_SIZE \/ Len(r) >= EVENT_BASE_SIZE
  <2>1. Len(r) \in Nat /\ STR_LEN \in Nat
    BY EventCodecAssumption, LenProperties
  <2> QED
    BY <2>1 DEF EVENT_BASE_SIZE
<1>4. \/ /\ TryFrom(r, b.feature) = Err("BufferTooShort")
         /\ Len(r) < EVENT_BASE_SIZE \/ (b.feature /\ ~HasFile(r))
      \/ /\ TryFrom(r, b.feature) = Err("InvalidUtf8")
         /\ ~IsUtf8(MsgOf(r)) \/ (HasFile(r) /\ ~IsUtf8(FileOf(r)))
      \/ TryFrom(r, b.feature) = EventOf(r) /\ Len(r) >= EVENT_BASE_SIZE
  BY <1>2, <1>3, Zenon DEF TryFrom
<1> QED
  BY <1>1, <1>4, Zenon

(* The shape of the outcomes.                                              *)
LEMMA Status ==
  ASSUME NEW r
  PROVE  /\ Err("BufferTooShort").status = "BufferTooShort"
         /\ Err("InvalidUtf8").status = "InvalidUtf8"
         /\ EventOf(r).status = "Ok" /\ EventOf(r).content = MsgOf(r)
         /\ EventOf(r).loc = IF HasFile(r) THEN <<FileOf(r), LineOf(r)>> ELSE <<>>
BY DEF Err, EventOf
-----------------------------------------------------------------------------
(* The inductive invariant: the record in the ring was written by the      *)
(* macro for the event that is on its way, and a result is what try_from   *)
(* made of such a record.                                                  *)
CodecInv ==
  /\ build \in Builds
  /\ written # None => IsEmitted(written)
  /\ record # <<>> =>
       /\ written # None /\ result = Pending
       /\ \E stale \in Stale : record = RecordOf(written, build, stale)
  /\ result # Pending =>
       /\ written # None
       /\ \E stale \in Stale :
            result = TryFrom(RecordOf(written, build, stale), build.feature)

LEMMA MessagesAreTexts == ASSUME NEW s \in Messages PROVE IsText(s)
<1>1. s \in UNION {[1 .. k -> TextByte] : k \in 0 .. MaxBytes} /\ IsUtf8(s)
  BY DEF Messages, BoundedSeq, SeqOf
<1>2. PICK k \in 0 .. MaxBytes : s \in [1 .. k -> TextByte]
  BY <1>1
<1>3. k \in Nat
  BY EventCodecAssumption
<1>4. s \in Seq(TextByte)
  BY <1>2, <1>3, Explicit
<1> QED
  BY <1>1, <1>4 DEF IsText

LEMMA InitCodec == Init => CodecInv
BY DEF Init, CodecInv

LEMMA EmitCodec == CodecInv /\ EmitEvent => CodecInv'
<1> SUFFICES ASSUME CodecInv, EmitEvent PROVE CodecInv'
  OBVIOUS
<1>1. PICK m \in Macros, content \in Messages, cpu \in Cpus, file \in Files,
           line \in Lines, formatted \in BOOLEAN, fileFormatted \in BOOLEAN,
           stale \in Stale :
        /\ written' = [kind |-> m.kind, level |-> m.level, content |-> content,
                       cpu |-> cpu, file |-> file, line |-> line,
                       formatted |-> formatted, fileFormatted |-> fileFormatted]
        /\ record' = RecordOf(written', build, stale)
  BY DEF EmitEvent
<1>2. written = None /\ result' = Pending /\ build' = build
  BY DEF EmitEvent
<1>3. PICK w : w = written'
  OBVIOUS
<1>4. /\ w.kind = m.kind /\ w.level = m.level /\ w.content = content /\ w.cpu = cpu
      /\ w.file = file /\ w.line = line
      /\ w.formatted = formatted /\ w.fileFormatted = fileFormatted
  BY <1>1, <1>3
<1>5. IsEmitted(w)
  <2>1. IsText(content) /\ IsText(file)
    BY MessagesAreTexts, EventCodecAssumption DEF IsText
  <2>2. cpu \in 0 .. Base * Base - 1 /\ line \in 0 .. Base * Base * Base * Base - 1
    BY EventCodecAssumption, Zenon
  <2> QED
    BY <1>4, <2>1, <2>2, Zenon DEF IsEmitted
<1>6. w # None
  <2>1. w.kind \in {"Message", "StartSpan", "EndSpan"}
    BY <1>5, EmittedType
  <2>2. None.kind = "None"
    BY DEF None
  <2> QED
    BY <2>1, <2>2
<1> QED
  BY <1>1, <1>2, <1>3, <1>5, <1>6, Zenon DEF CodecInv

LEMMA DecodeCodec == CodecInv /\ Decode => CodecInv'
BY Zenon DEF CodecInv, Decode

LEMMA HandleCodec == CodecInv /\ Handle => CodecInv'
BY Zenon DEF CodecInv, Handle

(* Every record that waits in the ring, and every result, is that of the   *)
(* event that is on its way.                                               *)
THEOREM CodecInvariance == Spec => []CodecInv
<1>1. Init => CodecInv
  BY InitCodec
<1>2. CodecInv /\ [Next]_vars => CodecInv'
  <2> SUFFICES ASSUME CodecInv, [Next]_vars PROVE CodecInv'
    OBVIOUS
  <2>1. CASE EmitEvent
    BY <2>1, EmitCodec
  <2>2. CASE Decode
    BY <2>2, DecodeCodec
  <2>3. CASE Handle
    BY <2>3, HandleCodec
  <2>4. CASE UNCHANGED vars
    BY <2>4 DEF CodecInv, vars
  <2> QED
    BY <2>1, <2>2, <2>3, <2>4 DEF Next
<1> QED
  BY <1>1, <1>2, PTL DEF Spec
-----------------------------------------------------------------------------
(* What a result says of the record it was made of.                        *)
LEMMA ResultOf ==
  ASSUME CodecInv, result # Pending
  PROVE  \E stale \in Stale, r \in Seq(Nat) :
           /\ IsEmitted(written) /\ build \in Builds
           /\ r = RecordOf(written, build, stale)
           /\ StartsWith(r, written, build.strLen, stale)
           /\ \/ /\ result = Err("BufferTooShort")
                 /\ Len(r) < EVENT_BASE_SIZE \/ (build.feature /\ ~HasFile(r))
              \/ /\ result = Err("InvalidUtf8")
                 /\ ~IsUtf8(MsgOf(r)) \/ (HasFile(r) /\ ~IsUtf8(FileOf(r)))
              \/ result = EventOf(r) /\ Len(r) >= EVENT_BASE_SIZE
<1>1. IsEmitted(written) /\ build \in Builds
  BY DEF CodecInv
<1>2. PICK stale \in Stale : result = TryFrom(RecordOf(written, build, stale), build.feature)
  BY DEF CodecInv
<1>3. PICK r \in Seq(Nat) : /\ r = RecordOf(written, build, stale)
                            /\ StartsWith(r, written, build.strLen, stale)
  <2>1. /\ RecordOf(written, build, stale) \in Seq(Nat)
        /\ StartsWith(RecordOf(written, build, stale), written, build.strLen, stale)
    BY <1>1, HeadIs
  <2> QED
    BY <2>1, Zenon
<1>4. \/ /\ result = Err("BufferTooShort")
         /\ Len(r) < EVENT_BASE_SIZE \/ (build.feature /\ ~HasFile(r))
      \/ /\ result = Err("InvalidUtf8")
         /\ ~IsUtf8(MsgOf(r)) \/ (HasFile(r) /\ ~IsUtf8(FileOf(r)))
      \/ result = EventOf(r) /\ Len(r) >= EVENT_BASE_SIZE
  BY <1>1, <1>2, <1>3, Outcomes
<1> QED
  BY <1>1, <1>3, <1>4, Zenon

LEMMA NeverAnother == ASSUME CodecInv PROVE NeverAnotherEvent
<1>1. CASE result = Pending
  BY <1>1 DEF NeverAnotherEvent, Decoded, Pending
<1>2. CASE result # Pending
  <2>1. PICK stale \in Stale, r \in Seq(Nat) :
          /\ IsEmitted(written) /\ build \in Builds
          /\ r = RecordOf(written, build, stale)
          /\ StartsWith(r, written, build.strLen, stale)
          /\ \/ /\ result = Err("BufferTooShort")
                /\ Len(r) < EVENT_BASE_SIZE \/ (build.feature /\ ~HasFile(r))
             \/ /\ result = Err("InvalidUtf8")
                /\ ~IsUtf8(MsgOf(r)) \/ (HasFile(r) /\ ~IsUtf8(FileOf(r)))
             \/ result = EventOf(r) /\ Len(r) >= EVENT_BASE_SIZE
    BY <1>2, ResultOf
  <2>2. result.status \in {"BufferTooShort", "InvalidUtf8"} \/ result = EventOf(r)
    BY <2>1, Status
  <2>3. EventOf(r).status = "Ok" /\ EventOf(r).content = MsgOf(r)
    BY Status
  <2>4. ASSUME Decoded PROVE result = EventOf(r) /\ Len(r) >= 4 + STR_LEN
    <3>1. result # Err("BufferTooShort") /\ result # Err("InvalidUtf8")
      BY <2>4, Status DEF Decoded
    <3> QED
      BY <2>1, <3>1 DEF EVENT_BASE_SIZE
  <2>5. PICK n \in Nat \ {0} : n = build.strLen
    BY <2>1, BuildType
  <2>6. StartsWith(r, written, n, stale)
    BY <2>1, <2>5
  <2>7. /\ EventOf(r).kind = written.kind /\ EventOf(r).level = written.level
        /\ EventOf(r).cpu = written.cpu
    BY <2>1, <2>6, HeadIsDecoded
  <2>8. ASSUME Decoded, written.formatted PROVE IsPrefix(result.content, written.content)
    <3>1. /\ MsgOf(r) = SubSeq(written.content, 1, Visible(written.content, n, STR_LEN))
          /\ Visible(written.content, n, STR_LEN) \in 0 .. Len(written.content)
      BY <2>1, <2>4, <2>6, <2>8, ContentIs
    <3>2. written.content \in Seq(TextByte)
      BY <2>1 DEF IsEmitted, IsText
    <3>3. IsPrefix(MsgOf(r), written.content)
      BY <3>1, <3>2, StartIsPrefix
    <3> QED
      BY <2>3, <2>4, <2>8, <3>3
  <2>9. result.status \notin {"InvalidKind", "InvalidLevel"}
    BY <2>2, <2>3
  <2>10. Decoded => <<result.kind, result.level, result.cpu>>
                      = <<written.kind, written.level, written.cpu>>
    BY <2>4, <2>7
  <2> QED
    BY <2>8, <2>9, <2>10 DEF NeverAnotherEvent
<1> QED
  BY <1>1, <1>2

(* With strings of the same length on both sides, the string the decoder   *)
(* reads is the one that was written, cut.                                 *)
LEMMA SameLengthContent ==
  ASSUME NEW w, IsEmitted(w), NEW b \in Builds, NEW stale \in Stale,
         b.strLen = STR_LEN
  PROVE  /\ w.formatted => MsgOf(RecordOf(w, b, stale)) = Cut(w.content)
         /\ Len(RecordOf(w, b, stale)) >= EVENT_BASE_SIZE
         /\ ~(Len(RecordOf(w, b, stale)) < EVENT_BASE_SIZE)
<1>1. PICK r \in Seq(Nat) :
        /\ r = RecordOf(w, b, stale) /\ Len(r) >= 4 + STR_LEN
        /\ StartsWith(r, w, STR_LEN, stale)
  <2>1. /\ RecordOf(w, b, stale) \in Seq(Nat) /\ Len(RecordOf(w, b, stale)) >= 4 + STR_LEN
        /\ StartsWith(RecordOf(w, b, stale), w, STR_LEN, stale)
    BY HeadIs
  <2> QED
    BY <2>1, Zenon
<1>2. STR_LEN \in Nat \ {0} /\ Len(r) \in Nat
  BY EventCodecAssumption, LenProperties
<1>3. w.formatted => MsgOf(r) = SubSeq(w.content, 1, Visible(w.content, STR_LEN, STR_LEN))
  BY <1>1, <1>2, ContentIs
<1>4. w.content \in Seq(TextByte)
  BY DEF IsEmitted, IsText
<1>5. ~(Len(r) < 4 + STR_LEN)
  BY <1>1, <1>2
<1> QED
  BY <1>1, <1>3, <1>4, <1>5, VisibleIsCut DEF EVENT_BASE_SIZE

LEMMA Decodes == ASSUME CodecInv PROVE DecodesWhatWasWritten
<1> SUFFICES ASSUME Decoded, SameLength
             PROVE  /\ <<result.kind, result.level, result.cpu>>
                         = <<written.kind, written.level, written.cpu>>
                    /\ written.formatted => result.content = Cut(written.content)
                    /\ (result.loc # <<>>) = build.sourceLoc
                    /\ build.sourceLoc =>
                         /\ result.loc[2] = written.line
                         /\ written.fileFormatted => result.loc[1] = Cut(written.file)
  BY DEF DecodesWhatWasWritten
<1>2. result # Pending
  BY DEF Decoded, Pending
<1>3. <<result.kind, result.level, result.cpu>> = <<written.kind, written.level, written.cpu>>
  BY NeverAnother DEF NeverAnotherEvent
<1>4. /\ written.formatted => result.content = Cut(written.content)
      /\ (result.loc # <<>>) = build.sourceLoc
      /\ build.sourceLoc =>
           /\ result.loc[2] = written.line
           /\ written.fileFormatted => result.loc[1] = Cut(written.file)
  <2>1. PICK stale \in Stale, r \in Seq(Nat) :
          /\ IsEmitted(written) /\ build \in Builds
          /\ r = RecordOf(written, build, stale)
          /\ StartsWith(r, written, build.strLen, stale)
          /\ \/ /\ result = Err("BufferTooShort")
                /\ Len(r) < EVENT_BASE_SIZE \/ (build.feature /\ ~HasFile(r))
             \/ /\ result = Err("InvalidUtf8")
                /\ ~IsUtf8(MsgOf(r)) \/ (HasFile(r) /\ ~IsUtf8(FileOf(r)))
             \/ result = EventOf(r) /\ Len(r) >= EVENT_BASE_SIZE
    BY <1>2, ResultOf
  <2>2. result = EventOf(r)
    <3>1. result # Err("BufferTooShort") /\ result # Err("InvalidUtf8")
      BY Status DEF Decoded
    <3> QED
      BY <2>1, <3>1
  <2>3. build.strLen = STR_LEN
    BY DEF SameLength
  <2>4. written.formatted => MsgOf(r) = Cut(written.content)
    BY <2>1, <2>3, SameLengthContent
  <2>5. CASE build.sourceLoc
    <3>1. /\ HasFile(r) /\ LineOf(r) = written.line
          /\ written.fileFormatted => FileOf(r) = Cut(written.file)
      BY <2>1, <2>3, <2>5, LocationIs
    <3>2. result.content = MsgOf(r) /\ result.loc = <<FileOf(r), LineOf(r)>>
      BY <2>2, <3>1, Status, Zenon
    <3>3. result.loc # <<>> /\ result.loc[1] = FileOf(r) /\ result.loc[2] = LineOf(r)
      BY <3>2
    <3> QED
      BY <2>4, <2>5, <3>1, <3>2, <3>3
  <2>6. CASE ~build.sourceLoc
    <3>1. ~HasFile(r)
      BY <2>1, <2>3, <2>6, NoLocation
    <3>2. result.content = MsgOf(r) /\ result.loc = <<>>
      BY <2>2, <3>1, Status, Zenon
    <3> QED
      BY <2>1, <2>4, <2>6, <3>2 DEF Builds
  <2> QED
    BY <2>5, <2>6
<1> QED
  BY <1>3, <1>4

LEMMA Rejects == ASSUME CodecInv PROVE RejectsOnlyCutCharacters
<1> SUFFICES ASSUME result.status \notin {"Pending", "Ok"}, SameLength
             PROVE  \/ result.status = "BufferTooShort" /\ build.feature /\ ~build.sourceLoc
                    \/ /\ result.status = "InvalidUtf8"
                       /\ written.formatted => CutInside(written.content)
                    \/ /\ result.status = "InvalidUtf8" /\ build.sourceLoc
                       /\ written.fileFormatted => CutInside(written.file)
  BY DEF RejectsOnlyCutCharacters
<1>2. result # Pending
  BY DEF Pending
<1>3. PICK stale \in Stale, r \in Seq(Nat) :
        /\ IsEmitted(written) /\ build \in Builds
        /\ r = RecordOf(written, build, stale)
        /\ StartsWith(r, written, build.strLen, stale)
        /\ \/ /\ result = Err("BufferTooShort")
              /\ Len(r) < EVENT_BASE_SIZE \/ (build.feature /\ ~HasFile(r))
           \/ /\ result = Err("InvalidUtf8")
              /\ ~IsUtf8(MsgOf(r)) \/ (HasFile(r) /\ ~IsUtf8(FileOf(r)))
           \/ result = EventOf(r) /\ Len(r) >= EVENT_BASE_SIZE
  BY <1>2, ResultOf
<1>4. build.strLen = STR_LEN
  BY DEF SameLength
<1>5. /\ written.formatted => MsgOf(r) = Cut(written.content)
      /\ ~(Len(r) < EVENT_BASE_SIZE)
  BY <1>3, <1>4, SameLengthContent
<1>6. IsText(written.content) /\ IsText(written.file)
  BY <1>3 DEF IsEmitted
<1>7. result # EventOf(r)
  BY Status
<1>8. CASE result = Err("BufferTooShort") /\ (build.feature /\ ~HasFile(r))
  <2>1. ~build.sourceLoc
    BY <1>3, <1>4, <1>8, LocationIs
  <2> QED
    BY <1>8, <2>1, Status, Zenon
<1>9. CASE result = Err("InvalidUtf8") /\ ~IsUtf8(MsgOf(r))
  <2>1. written.formatted => CutInside(written.content)
    BY <1>5, <1>6, <1>9, CutIsUtf8
  <2> QED
    BY <1>9, <2>1, Status, Zenon
<1>10. CASE result = Err("InvalidUtf8") /\ (HasFile(r) /\ ~IsUtf8(FileOf(r)))
  <2>1. build.sourceLoc
    BY <1>3, <1>4, <1>10, NoLocation DEF Builds
  <2>2. written.fileFormatted => FileOf(r) = Cut(written.file)
    BY <1>3, <1>4, <2>1, LocationIs
  <2>3. written.fileFormatted => CutInside(written.file)
    BY <1>6, <1>10, <2>2, CutIsUtf8
  <2> QED
    BY <1>10, <2>1, <2>3, Status, Zenon
<1> QED
  BY <1>3, <1>5, <1>7, <1>8, <1>9, <1>10, Zenon

(* Whatever is decoded when both sides agree on the length of strings is   *)
(* what the program wrote, source location included (event.rs:19-23).      *)
THEOREM DecodesRight == Spec => []DecodesWhatWasWritten
<1>1. CodecInv => DecodesWhatWasWritten
  BY Decodes
<1> QED
  BY <1>1, CodecInvariance, PTL

(* Nothing else is rejected than records without a location that user      *)
(* space insists on, and strings cut inside a character (event.rs:229-234).*)
THEOREM RejectsForAReason == Spec => []RejectsOnlyCutCharacters
<1>1. CodecInv => RejectsOnlyCutCharacters
  BY Rejects
<1> QED
  BY <1>1, CodecInvariance, PTL

(* Whatever the program was built with, its events keep their kind, level  *)
(* and CPU, and their content is never more than what it wrote.            *)
THEOREM NoOtherEvent == Spec => []NeverAnotherEvent
<1>1. CodecInv => NeverAnotherEvent
  BY NeverAnother
<1> QED
  BY <1>1, CodecInvariance, PTL
=============================================================================
